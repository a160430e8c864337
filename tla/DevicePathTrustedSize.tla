------------------------ MODULE DevicePathTrustedSize ------------------------
(***************************************************************************)
(* The trusted size walk, DevicePath::size_in_bytes_from_ptr, behind       *)
(* DevicePath::from_ffi_ptr and the ProtocolPointer impls of DevicePath    *)
(* and LoadedImageDevicePath.                                              *)
(*                                                                         *)
(* It reads one header per iteration with no bound: buf is the memory the *)
(* firmware owns, and a header read that does not lie inside it is a read  *)
(* out of bounds, undefined behaviour, after which the model stops ("ub"). *)
(*                                                                         *)
(*   trusted.st    "run", "ok" (returned total), "panic" or "ub"           *)
(*   trusted.ptr   offset in buf of the node about to be read              *)
(*   trusted.total total_size_in_bytes                                     *)
(***************************************************************************)
EXTENDS DevicePathHeader

VARIABLE trusted

TrustedStatus == {"run", "ok", "panic", "ub"}

TrustedInit == trusted = [st |-> "run", ptr |-> 0, total |-> 0]

\* The header at ptr lies inside the memory.
TrustedHeaderInMemory == HeaderFits(trusted.ptr, Len(buf))

TrustedNextTotal == trusted.total + LengthAt(trusted.ptr)

\* *ptr.cast::<DevicePathHeader>() past the end of the memory.
TrustedOutOfBounds ==
  /\ trusted.st = "run"
  /\ ~TrustedHeaderInMemory
  /\ trusted' = [trusted EXCEPT !.st = "ub"]

\* from_ffi_ptr's payload-length subtraction underflows (debug build).
TrustedPanic ==
  /\ trusted.st = "run"
  /\ TrustedHeaderInMemory
  /\ FromFfiPtrPanics(trusted.ptr)
  /\ trusted' = [trusted EXCEPT !.st = "panic"]

\* A plausible bug: breaking before the end node's length is added.
TrustedEndUncounted ==
  /\ trusted.st = "run"
  /\ TrustedHeaderInMemory
  /\ ~FromFfiPtrPanics(trusted.ptr)
  /\ IsEndEntireAt(trusted.ptr)
  /\ trusted' = [trusted EXCEPT !.st = "ok"]

\* total_size_in_bytes += node_size_in_bytes; the node is end-entire: break.
TrustedEnd ==
  /\ trusted.st = "run"
  /\ TrustedHeaderInMemory
  /\ ~FromFfiPtrPanics(trusted.ptr)
  /\ IsEndEntireAt(trusted.ptr)
  /\ trusted' = [trusted EXCEPT !.st = "ok", !.total = TrustedNextTotal]

\* total_size_in_bytes += node_size_in_bytes; ptr = ptr.add(node_size).
TrustedAdvance ==
  /\ trusted.st = "run"
  /\ TrustedHeaderInMemory
  /\ ~FromFfiPtrPanics(trusted.ptr)
  /\ ~IsEndEntireAt(trusted.ptr)
  /\ trusted' = [trusted EXCEPT !.ptr = @ + LengthAt(trusted.ptr),
                                !.total = TrustedNextTotal]

TrustedStep ==
  TrustedOutOfBounds \/ TrustedPanic \/ TrustedEnd \/ TrustedAdvance

\* Type invariant of the component.
TrustedTypeOK == trusted \in [st : TrustedStatus, ptr : Nat, total : Nat]

=============================================================================
