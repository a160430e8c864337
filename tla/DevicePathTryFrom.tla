-------------------------- MODULE DevicePathTryFrom --------------------------
(***************************************************************************)
(* What <&DevicePath>::try_from promises, stated over the reference chain  *)
(* of the whole slice rather than as a loop: in one step it returns        *)
(*   Ok(n), n the end of the first end-entire node, when every node up to  *)
(*          it is accepted;                                                *)
(*   Err(InvalidLength) at the first node that does not fit in the slice,  *)
(*          or when the nodes use up the slice before an end-entire one;   *)
(*   a panic at the first node whose payload length traps (debug build);  *)
(* and it never returns when the chain ends in an accepted node that       *)
(* declares 0 bytes.                                                       *)
(***************************************************************************)
EXTENDS DevicePathChain

VARIABLE res

Pending == [st |-> "run", total |-> 0]

WholeChain == Chain(0, Len(buf))

\* The node at o, with the rest of the slice after it, is taken as a node.
Accepted(o) == ~NodeRejected(o, Len(buf)) /\ ~FromFfiPtrPanics(o)

\* The positions in the chain where the answer is decided.
Decisive ==
  { i \in DOMAIN WholeChain :
      ~Accepted(WholeChain[i]) \/ IsEndEntireAt(WholeChain[i]) }

\* Every node accepted, none end-entire, and the last declares 0 bytes.
Diverges ==
  /\ Decisive = {}
  /\ WholeChain # <<>>
  /\ LengthAt(WholeChain[Len(WholeChain)]) = 0

Outcome ==
  IF Decisive = {}
  THEN [st |-> "err", total |-> 0]
  ELSE LET o == WholeChain[LeastOf(Decisive)] IN
       IF NodeRejected(o, Len(buf)) THEN [st |-> "err", total |-> 0]
       ELSE IF FromFfiPtrPanics(o) THEN [st |-> "panic", total |-> 0]
       ELSE [st |-> "ok", total |-> o + LengthAt(o)]

TryFromInit == res = Pending

TryFromReturn ==
  /\ res = Pending
  /\ ~Diverges
  /\ res' = Outcome
  /\ UNCHANGED buf

TryFromSpec == TryFromInit /\ [][TryFromReturn]_<<buf, res>>

=============================================================================
