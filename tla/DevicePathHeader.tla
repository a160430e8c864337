--------------------------- MODULE DevicePathHeader ---------------------------
(***************************************************************************)
(* The memory a device path lives in, and the Header Reader and Node View  *)
(* of uefi/src/proto/device_path/mod.rs as operators over it.              *)
(*                                                                         *)
(* buf is the byte region handed to the parser: the slice given to         *)
(* <&DevicePath>::try_from, or the firmware buffer behind the pointer      *)
(* given to DevicePath::from_ffi_ptr.  Offsets are 0-based, as in the      *)
(* code; buf itself is a 1-indexed TLA+ sequence, so the byte at offset o  *)
(* is buf[o + 1].  A window [o, e) of buf stands for the slice             *)
(* &buf[o..e].  Nothing in the subsystem writes to buf.                    *)
(***************************************************************************)
EXTENDS Naturals, Sequences

CONSTANTS
  Inputs,          \* the byte regions the parser may be handed
  OverflowChecks   \* TRUE: debug build, an integer underflow panics;
                   \* FALSE: release build, it wraps

Byte == 0 .. 255

ASSUME InputsAssumption == Inputs \subseteq Seq(Byte) /\ Inputs # {}
ASSUME OverflowChecksAssumption == OverflowChecks \in BOOLEAN

VARIABLE buf

(***************************************************************************)
(* Tag values of uefi-raw's DeviceType and DeviceSubType that this         *)
(* subsystem tests for (UEFI spec, "End of Hardware Device Path").         *)
(***************************************************************************)
END == 127            \* 0x7F
END_INSTANCE == 1     \* 0x01
END_ENTIRE == 255     \* 0xFF

\* size_of::<DevicePathHeader>(): u8 type, u8 sub type, u16 length, packed.
HeaderSize == 4

(***************************************************************************)
(* Header Reader: <&DevicePathHeader>::try_from(&buf[o..e]) succeeds iff   *)
(* the window holds at least a header.                                     *)
(***************************************************************************)
HeaderFits(o, e) == HeaderSize <= e - o

\* The fields of the packed header starting at offset o.  UEFI targets are
\* little-endian, so the u16 length is the low byte plus 256 * the high byte.
DeviceTypeAt(o) == buf[o + 1]
SubTypeAt(o) == buf[o + 2]
LengthAt(o) == buf[o + 3] + 256 * buf[o + 4]

\* node.data(): the payload after the header, up to the declared length.
DataAt(o) == SubSeq(buf, o + HeaderSize + 1, o + LengthAt(o))

\* A plausible bug: taking any end node for the end of the entire path.
IsEndEntireAtTypeOnly(o) == DeviceTypeAt(o) = END

\* DevicePathNode::is_end_entire.
IsEndEntireAt(o) == DeviceTypeAt(o) = END /\ SubTypeAt(o) = END_ENTIRE

\* node.device_type() == DeviceType::END: either kind of end node.
IsEndAt(o) == DeviceTypeAt(o) = END

(***************************************************************************)
(* DevicePathNode::from_ffi_ptr computes the payload length as             *)
(* usize::from(header.length) - size_of::<DevicePathHeader>().  A declared *)
(* length below the header size underflows: the debug build panics there,  *)
(* the release build wraps and goes on with the header's length.           *)
(***************************************************************************)
DataLenUnderflows(o) == LengthAt(o) < HeaderSize

\* A plausible bug: the payload length computed with a wrapping subtraction.
FromFfiPtrWraps(o) == FALSE

FromFfiPtrPanics(o) == OverflowChecks /\ DataLenUnderflows(o)

(***************************************************************************)
(* <&DevicePathNode>::try_from(&buf[o..e]) fails with InvalidLength when   *)
(* the window is shorter than a header or than the declared length.        *)
(***************************************************************************)
\* A plausible bug: an off-by-one in the length test, rejecting a node that
\* fills the slice exactly.
NodeRejectedAtLength(o, e) ==
  IF HeaderFits(o, e) THEN LengthAt(o) >= e - o ELSE TRUE

NodeRejected(o, e) ==
  IF HeaderFits(o, e) THEN LengthAt(o) > e - o ELSE TRUE

=============================================================================
