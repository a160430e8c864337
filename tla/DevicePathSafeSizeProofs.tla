----------------------- MODULE DevicePathSafeSizeProofs -----------------------
(***************************************************************************)
(* Proofs about the bounds-checked size walk: for every memory in Inputs,  *)
(* of any length, and for both builds, the walk keeps its offset and total *)
(* inside the slice, and Ok(total) is only returned for an extent that     *)
(* ends in an end-entire node.                                             *)
(*                                                                         *)
(* SafeSizeWellFormed is not inductive by itself: it says nothing of the   *)
(* state while the loop runs.  The strengthening records the loop          *)
(* invariant of size_in_bytes_from_slice, that the remaining slice starts  *)
(* exactly total_size_in_bytes into the original one (pos = total), so     *)
(* that a node accepted against the remaining slice keeps the total        *)
(* within the original.                                                    *)
(***************************************************************************)
EXTENDS DevicePathSafeSize, TLAPS

\* While the loop runs, the remaining slice starts where the total ends.
LoopOffsetIsTotal == safe.st = "run" => safe.pos = safe.total

SafeInv ==
  /\ SafeTypeOK
  /\ LoopOffsetIsTotal
  /\ SafeSizeWellFormed

\* Two bytes read as a little-endian u16 give a natural number.
LEMMA U16FromBytesNat == \A lo, hi \in Byte : lo + 256 * hi \in Nat
BY DEF Byte

(***************************************************************************)
(* The declared length of a header that lies inside the memory is a        *)
(* natural number.                                                         *)
(***************************************************************************)
LEMMA LengthAtNat ==
  ASSUME buf \in Seq(Byte), NEW o \in Nat, HeaderFits(o, Len(buf))
  PROVE  LengthAt(o) \in Nat
<1>1. o + 3 \in 1 .. Len(buf) /\ o + 4 \in 1 .. Len(buf)
  BY DEF HeaderFits, HeaderSize
<1>2. buf[o + 3] \in Byte /\ buf[o + 4] \in Byte
  BY <1>1
<1> QED
  BY <1>2, U16FromBytesNat DEF LengthAt

(***************************************************************************)
(* A node that <&DevicePathNode>::try_from accepts has its header, and all *)
(* of its declared length, inside the slice.                               *)
(***************************************************************************)
LEMMA AcceptedNodeFits ==
  ASSUME buf \in Seq(Byte), NEW o \in Nat,
         ~NodeRejected(o, Len(buf))
  PROVE  /\ HeaderFits(o, Len(buf))
         /\ LengthAt(o) \in Nat
         /\ LengthAt(o) <= Len(buf) - o
<1>1. HeaderFits(o, Len(buf))
  BY DEF NodeRejected
<1>2. LengthAt(o) \in Nat
  BY <1>1, LengthAtNat
<1> QED
  BY <1>1, <1>2 DEF NodeRejected

\* The loop of size_in_bytes_from_slice starts at offset 0 with total 0.
THEOREM SafeInitInv == SafeSpecInit => SafeInv
BY InputsAssumption
DEF SafeSpecInit, SafeInit, SafeInv, SafeTypeOK, LoopOffsetIsTotal,
    SafeSizeWellFormed, SafeStatus, MaxSize

\* Every iteration of the loop, and every return, keeps SafeInv.
THEOREM SafeNextInv == SafeInv /\ [SafeNext]_safeVars => SafeInv'
<1> SUFFICES ASSUME SafeInv, [SafeNext]_safeVars PROVE SafeInv'
  OBVIOUS
<1> USE DEF SafeInv, SafeTypeOK, SafeStatus, MaxSize
<1>1. CASE UNCHANGED safeVars
  BY <1>1 DEF safeVars, LoopOffsetIsTotal, SafeSizeWellFormed, HeaderFits,
             DeviceTypeAt, SubTypeAt, LengthAt
<1>2. CASE SafeReject /\ UNCHANGED buf
  BY <1>2 DEF SafeReject, LoopOffsetIsTotal, SafeSizeWellFormed
<1>3. CASE SafePanic /\ UNCHANGED buf
  BY <1>3 DEF SafePanic, LoopOffsetIsTotal, SafeSizeWellFormed
<1>4. CASE SafeEnd /\ UNCHANGED buf
  <2>1. /\ HeaderFits(safe.pos, Len(buf))
        /\ LengthAt(safe.pos) \in Nat
        /\ LengthAt(safe.pos) <= Len(buf) - safe.pos
    BY <1>4, AcceptedNodeFits DEF SafeEnd, NodeAccepted
  <2>2. safe.pos = safe.total
    BY <1>4 DEF SafeEnd, LoopOffsetIsTotal
  <2>3. IsEndEntireAt(safe.pos) /\ NextTotal <= Len(buf)
    BY <1>4 DEF SafeEnd
  <2>4. /\ safe'.st = "ok" /\ safe'.pos = safe.pos /\ safe'.total = NextTotal
        /\ buf' = buf
    BY <1>4 DEF SafeEnd
  <2>5. NextTotal = safe.pos + LengthAt(safe.pos)
    BY <2>2 DEF NextTotal
  <2>6. SafeTypeOK'
    <3>1. safe' = [safe EXCEPT !.st = "ok", !.total = NextTotal]
      BY <1>4 DEF SafeEnd
    <3>2. NextTotal \in 0 .. Len(buf)
      BY <2>1, <2>2, <2>5 DEF HeaderFits
    <3> QED
      BY <3>1, <3>2, <2>4
  <2>7. SafeSizeWellFormed'
    BY <2>1, <2>3, <2>4, <2>5
    DEF SafeSizeWellFormed, IsEndEntireAt, HeaderFits, DeviceTypeAt, SubTypeAt,
        LengthAt
  <2>8. LoopOffsetIsTotal'
    BY <2>4 DEF LoopOffsetIsTotal
  <2> QED
    BY <2>6, <2>7, <2>8
<1>5. CASE SafeAdvance /\ UNCHANGED buf
  <2>1. /\ HeaderFits(safe.pos, Len(buf))
        /\ LengthAt(safe.pos) \in Nat
        /\ LengthAt(safe.pos) <= Len(buf) - safe.pos
    BY <1>5, AcceptedNodeFits DEF SafeAdvance, NodeAccepted
  <2>2. safe.pos = safe.total
    BY <1>5 DEF SafeAdvance, LoopOffsetIsTotal
  <2>3. /\ safe'.st = "run"
        /\ safe'.pos = safe.pos + LengthAt(safe.pos)
        /\ safe'.total = NextTotal
        /\ buf' = buf
    BY <1>5 DEF SafeAdvance
  <2>4. NextTotal = safe.pos + LengthAt(safe.pos)
    BY <2>2 DEF NextTotal
  <2>5. SafeTypeOK'
    <3>1. safe' = [safe EXCEPT !.pos = @ + LengthAt(safe.pos), !.total = NextTotal]
      BY <1>5 DEF SafeAdvance
    <3>2. NextTotal \in 0 .. Len(buf)
      BY <2>1, <2>2, <2>4 DEF HeaderFits
    <3> QED
      BY <3>1, <3>2, <2>2, <2>3, <2>4
  <2>6. LoopOffsetIsTotal' /\ SafeSizeWellFormed'
    BY <2>3, <2>4 DEF LoopOffsetIsTotal, SafeSizeWellFormed
  <2> QED
    BY <2>5, <2>6
<1> QED
  BY <1>1, <1>2, <1>3, <1>4, <1>5 DEF SafeNext, SafeStep

(***************************************************************************)
(* Type correctness of the bounds-checked walk: its offset and total stay  *)
(* within the slice passed to <&DevicePath>::try_from.                     *)
(***************************************************************************)
THEOREM SafeTypeCorrect == SafeSpec => []SafeTypeOK
<1>1. SafeInv => SafeTypeOK
  BY DEF SafeInv
<1> QED
  BY <1>1, SafeInitInv, SafeNextInv, PTL DEF SafeSpec

(***************************************************************************)
(* <&DevicePath>::try_from never returns a view past the slice, and the    *)
(* view it returns ends in an end-entire node whose length closes it.      *)
(***************************************************************************)
THEOREM SafeSizeCorrect == SafeSpec => []SafeSizeWellFormed
<1>1. SafeInv => SafeSizeWellFormed
  BY DEF SafeInv
<1> QED
  BY <1>1, SafeInitInv, SafeNextInv, PTL DEF SafeSpec

(***************************************************************************)
(* In a debug build the end-entire node that closes the view declares at   *)
(* least a header's worth of bytes: a shorter one would have trapped in    *)
(* from_ffi_ptr.  Together with SafeInv this is inductive.                 *)
(***************************************************************************)
TerminatorLength == safe.st = "ok" => LengthAt(safe.pos) >= HeaderSize

\* In a debug build every step keeps TerminatorLength.
THEOREM TerminatorLengthStep ==
  ASSUME OverflowChecks, SafeInv, TerminatorLength, [SafeNext]_safeVars
  PROVE  TerminatorLength'
<1>1. CASE UNCHANGED safeVars
  BY <1>1 DEF safeVars, TerminatorLength, LengthAt
<1>0. safe \in [st : SafeStatus, pos : 0 .. MaxSize, total : 0 .. MaxSize]
  BY DEF SafeInv, SafeTypeOK
<1>2. CASE SafeReject \/ SafePanic \/ SafeAdvance
  <2>1. safe'.st # "ok"
    BY <1>0, <1>2 DEF SafeReject, SafePanic, SafeAdvance
  <2> QED
    BY <2>1 DEF TerminatorLength
<1>3. CASE SafeEnd /\ UNCHANGED buf
  <2>1. LengthAt(safe.pos) \in Nat /\ ~DataLenUnderflows(safe.pos)
    <3>1. safe.pos \in Nat /\ buf \in Seq(Byte)
      BY DEF SafeInv, SafeTypeOK, MaxSize
    <3>2. ~NodeRejected(safe.pos, Len(buf)) /\ ~FromFfiPtrPanics(safe.pos)
      BY <1>3 DEF SafeEnd, NodeAccepted, MaxSize
    <3> QED
      BY <3>1, <3>2, AcceptedNodeFits DEF FromFfiPtrPanics
  <2>2. LengthAt(safe.pos) >= HeaderSize
    BY <2>1 DEF DataLenUnderflows, HeaderSize
  <2>3. safe'.st = "ok" /\ safe'.pos = safe.pos /\ buf' = buf
    BY <1>3 DEF SafeEnd
  <2> QED
    BY <2>2, <2>3 DEF TerminatorLength, LengthAt
<1> QED
  BY <1>1, <1>2, <1>3 DEF SafeNext, SafeStep

(***************************************************************************)
(* In a debug build the view <&DevicePath>::try_from returns holds the     *)
(* whole header of its end-entire node, so iterating it or copying it with *)
(* to_boxed never reads past it.                                           *)
(***************************************************************************)
THEOREM SafeTerminatorInExtent ==
  OverflowChecks => (SafeSpec => []SafeExtentHoldsTerminator)
<1> SUFFICES ASSUME OverflowChecks PROVE SafeSpec => []SafeExtentHoldsTerminator
  OBVIOUS
<1>1. SafeSpecInit => SafeInv /\ TerminatorLength
  BY SafeInitInv DEF SafeSpecInit, SafeInit, TerminatorLength
<1>2. SafeInv /\ TerminatorLength /\ [SafeNext]_safeVars
        => SafeInv' /\ TerminatorLength'
  BY SafeNextInv, TerminatorLengthStep
<1>3. SafeInv /\ TerminatorLength => SafeExtentHoldsTerminator
  <2> SUFFICES ASSUME SafeInv, TerminatorLength, safe.st = "ok"
               PROVE  safe.pos + HeaderSize <= safe.total
    BY DEF SafeExtentHoldsTerminator
  <2>1. buf \in Seq(Byte) /\ safe.pos \in Nat /\ HeaderFits(safe.pos, Len(buf))
    BY DEF SafeInv, SafeTypeOK, SafeSizeWellFormed, MaxSize, HeaderFits
  <2>2. LengthAt(safe.pos) \in Nat
    BY <2>1, LengthAtNat
  <2>3. safe.pos + LengthAt(safe.pos) = safe.total
    BY DEF SafeInv, SafeSizeWellFormed
  <2> QED
    BY <2>1, <2>2, <2>3 DEF TerminatorLength, HeaderSize
<1> QED
  BY <1>1, <1>2, <1>3, PTL DEF SafeSpec

=============================================================================
