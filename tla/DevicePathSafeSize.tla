-------------------------- MODULE DevicePathSafeSize --------------------------
(***************************************************************************)
(* The bounds-checked size walk, DevicePath::size_in_bytes_from_slice,     *)
(* and the <&DevicePath>::try_from that wraps it.                           *)
(*                                                                         *)
(* One step is one iteration of the loop: try_from the remaining bytes as  *)
(* a node (header check, declared-length check, from_ffi_ptr), add the     *)
(* node's length to the total, test the total against the slice length,    *)
(* stop at an end-entire node, otherwise advance the slice.                *)
(*                                                                         *)
(*   safe.st    "run" while looping; "ok" (Ok(total)), "err"               *)
(*              (Err(InvalidLength)) or "panic" once it has returned        *)
(*   safe.pos   offset in buf where the remaining slice `bytes` starts     *)
(*   safe.total total_size_in_bytes                                        *)
(***************************************************************************)
EXTENDS DevicePathHeader

VARIABLE safe

SafeStatus == {"run", "ok", "err", "panic"}

\* max_size_in_bytes = bytes.len() of the slice passed in.
MaxSize == Len(buf)

SafeInit == safe = [st |-> "run", pos |-> 0, total |-> 0]

\* A plausible bug: adding the payload length node.data().len() instead of
\* the node's length.
NextTotalDataLen == safe.total + LengthAt(safe.pos) - HeaderSize

\* The total once the node at safe.pos has been added.
NextTotal == safe.total + LengthAt(safe.pos)

\* The node passed <&DevicePathNode>::try_from and from_ffi_ptr returned.
NodeAccepted ==
  /\ ~NodeRejected(safe.pos, MaxSize)
  /\ ~FromFfiPtrPanics(safe.pos)

\* The loop returns Err(InvalidLength): the node was rejected, or the total
\* ran past the slice.
SafeReject ==
  /\ safe.st = "run"
  /\ \/ NodeRejected(safe.pos, MaxSize)
     \/ NodeAccepted /\ NextTotal > MaxSize
  /\ safe' = [safe EXCEPT !.st = "err"]

\* The subtraction in from_ffi_ptr underflows in a debug build.
SafePanic ==
  /\ safe.st = "run"
  /\ ~NodeRejected(safe.pos, MaxSize)
  /\ FromFfiPtrPanics(safe.pos)
  /\ safe' = [safe EXCEPT !.st = "panic"]

\* The node is an end-entire node: break, return Ok(total).
SafeEnd ==
  /\ safe.st = "run"
  /\ NodeAccepted
  /\ NextTotal <= MaxSize
  /\ IsEndEntireAt(safe.pos)
  /\ safe' = [safe EXCEPT !.st = "ok", !.total = NextTotal]

\* Any other node: bytes = &bytes[node_size_in_bytes..] and loop again.  A
\* declared length of 0 (release build) leaves the state as it was: the
\* loop spins forever.
SafeAdvance ==
  /\ safe.st = "run"
  /\ NodeAccepted
  /\ NextTotal <= MaxSize
  /\ ~IsEndEntireAt(safe.pos)
  /\ safe' = [safe EXCEPT !.pos = @ + LengthAt(safe.pos), !.total = NextTotal]

SafeStep == SafeReject \/ SafePanic \/ SafeEnd \/ SafeAdvance

\* The extent of the &DevicePath that try_from returns, once it has.
SafePathLen == safe.total

safeVars == <<buf, safe>>

SafeSpecInit == buf \in Inputs /\ SafeInit

SafeNext == SafeStep /\ UNCHANGED buf

SafeSpec == SafeSpecInit /\ [][SafeNext]_safeVars

\* The loop runs on the caller's thread with nothing to wait for: while it
\* has a step to take, it takes it.
SafeFairSpec == SafeSpec /\ WF_safeVars(SafeNext)

-----------------------------------------------------------------------------
(* Type invariant: the slice offset and the running total are offsets   *)
(* into the slice (a usize that wrapped would not be).                    *)
SafeTypeOK ==
  /\ buf \in Seq(Byte)
  /\ safe \in [st : SafeStatus, pos : 0 .. MaxSize, total : 0 .. MaxSize]

(***************************************************************************)
(* The safe constructor never hands out a view past the slice, and what    *)
(* it hands out ends in an end-entire node: when try_from returns          *)
(* Ok(total), the last node the loop read starts inside the slice, is an   *)
(* end-entire node, and ends exactly at total, which is at most the slice  *)
(* length.  This is what makes <&DevicePath>::try_from safe to call on     *)
(* untrusted bytes.                                                         *)
(***************************************************************************)
SafeSizeWellFormed ==
  safe.st = "ok" =>
    /\ HeaderSize <= MaxSize - safe.pos
    /\ DeviceTypeAt(safe.pos) = END /\ SubTypeAt(safe.pos) = END_ENTIRE
    /\ safe.pos + LengthAt(safe.pos) = safe.total
    /\ safe.total <= MaxSize

(***************************************************************************)
(* The view try_from returns holds its whole terminator: the end-entire    *)
(* node's 4-byte header lies inside the extent Ok(total), so that          *)
(* node_iter, to_boxed and the firmware can read it through the            *)
(* &DevicePath alone.  A declared length below the header size, accepted   *)
(* when from_ffi_ptr's subtraction does not trap, would end the view       *)
(* inside that header.                                                     *)
(***************************************************************************)
SafeExtentHoldsTerminator ==
  safe.st = "ok" => safe.pos + HeaderSize <= safe.total

(***************************************************************************)
(* The safe constructor never panics on any byte slice: bad lengths are    *)
(* reported as Err(InvalidLength) (spec.md, Data Model: "violated headers  *)
(* are a decode error, never a panic").                                    *)
(***************************************************************************)
SafeNeverPanics == safe.st # "panic"

(***************************************************************************)
(* The safe constructor always returns: the loop of                        *)
(* size_in_bytes_from_slice terminates on every byte slice (spec.md,       *)
(* section 5: traversals "terminate by construction once a terminator     *)
(* element is found or the slice is exhausted").                            *)
(***************************************************************************)
SafeTerminates == <>(safe.st # "run")

=============================================================================
