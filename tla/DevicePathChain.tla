--------------------------- MODULE DevicePathChain ---------------------------
(***************************************************************************)
(* The reference reading of a byte window as a device path (spec.md, Data  *)
(* Model): nodes laid one after another, each starting where the previous  *)
(* one's declared length ends.  The models of the code are checked against *)
(* these definitions; none of them is a translation of the code.           *)
(***************************************************************************)
EXTENDS DevicePathHeader

(***************************************************************************)
(* The offsets of the nodes of the window [lo, hi).  The chain stops at    *)
(* the window's end, at a header that does not fit in the window, or at a  *)
(* node that declares 0 bytes or reaches past the window (that node is the *)
(* chain's last).                                                          *)
(***************************************************************************)
Chain(lo, hi) ==
  LET c[o \in lo .. hi] ==
        IF o >= hi THEN <<>>
        ELSE IF ~HeaderFits(o, hi) \/ LengthAt(o) = 0 \/ LengthAt(o) > hi - o
             THEN <<o>>
             ELSE <<o>> \o c[o + LengthAt(o)]
  IN c[lo]

ButLast(s) == SubSeq(s, 1, Len(s) - 1)

IsPrefixOf(s, t) == Len(s) <= Len(t) /\ s = SubSeq(t, 1, Len(s))

LeastOf(S) == CHOOSE i \in S : \A j \in S : i <= j

=============================================================================
