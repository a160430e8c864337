------------------------- MODULE DevicePathSizeProofs -------------------------
(***************************************************************************)
(* Type correctness of the two size walks run side by side, and their     *)
(* agreement SizesAgree, for every memory in Inputs and both builds.  The  *)
(* trusted walk's offset and total stay natural numbers because it only    *)
(* adds the length of a header it has read inside the memory; the safe     *)
(* walk's part is SafeInv.  The agreement rests on AgreeInv, below.        *)
(***************************************************************************)
EXTENDS DevicePathSize, DevicePathSafeSizeProofs

SizeInv == SafeInv /\ TrustedTypeOK

\* A trusted step changes only trusted, and keeps it well typed.
LEMMA TrustedStepTypeOK ==
  ASSUME buf \in Seq(Byte), TrustedTypeOK, TrustedStep
  PROVE  TrustedTypeOK'
<1> USE DEF TrustedTypeOK, TrustedStatus
<1>1. CASE TrustedOutOfBounds \/ TrustedPanic
  BY <1>1 DEF TrustedOutOfBounds, TrustedPanic
<1>2. CASE TrustedEnd \/ TrustedAdvance
  <2>1. LengthAt(trusted.ptr) \in Nat
    BY <1>2, LengthAtNat DEF TrustedEnd, TrustedAdvance, TrustedHeaderInMemory
  <2>2. TrustedNextTotal \in Nat
    BY <2>1 DEF TrustedNextTotal
  <2>3. CASE TrustedEnd
    BY <2>2, <2>3 DEF TrustedEnd
  <2>4. CASE TrustedAdvance
    <3>1. trusted = [st |-> trusted.st, ptr |-> trusted.ptr, total |-> trusted.total]
      OBVIOUS
    <3>2. trusted' = [st |-> trusted.st, ptr |-> trusted.ptr + LengthAt(trusted.ptr),
                      total |-> TrustedNextTotal]
      BY <2>4, <3>1 DEF TrustedAdvance
    <3> QED
      BY <3>2, <2>1, <2>2
  <2> QED
    BY <1>2, <2>3, <2>4
<1> QED
  BY <1>1, <1>2 DEF TrustedStep

\* Both walks start at offset 0 with a zero total, within SizeInv.
THEOREM SizeInitInv == Init => SizeInv
<1> SUFFICES ASSUME Init PROVE SizeInv
  OBVIOUS
<1>1. SafeInv
  BY SafeInitInv DEF Init, SafeSpecInit
<1>2. TrustedTypeOK
  BY DEF Init, TrustedInit, TrustedTypeOK, TrustedStatus
<1> QED
  BY <1>1, <1>2 DEF SizeInv

\* Every step of either walk keeps SizeInv.
THEOREM SizeNextInv == SizeInv /\ [Next]_vars => SizeInv'
<1> SUFFICES ASSUME SizeInv, [Next]_vars PROVE SizeInv'
  OBVIOUS
<1>0. buf \in Seq(Byte)
  BY DEF SizeInv, SafeInv, SafeTypeOK
<1>1. CASE SafeStep /\ UNCHANGED <<buf, trusted>>
  <2>1. SafeInv'
    BY <1>1, SafeNextInv DEF SizeInv, SafeNext
  <2>2. TrustedTypeOK'
    BY <1>1 DEF SizeInv, TrustedTypeOK
  <2> QED
    BY <2>1, <2>2 DEF SizeInv
<1>2. CASE TrustedStep /\ UNCHANGED <<buf, safe>>
  <2>1. SafeInv'
    BY <1>2, SafeNextInv DEF SizeInv, safeVars
  <2>2. TrustedTypeOK'
    BY <1>0, <1>2, TrustedStepTypeOK DEF SizeInv
  <2> QED
    BY <2>1, <2>2 DEF SizeInv
<1>3. CASE UNCHANGED vars
  <2>1. SafeInv'
    BY <1>3, SafeNextInv DEF SizeInv, vars, safeVars
  <2>2. TrustedTypeOK'
    BY <1>3 DEF SizeInv, vars, TrustedTypeOK
  <2> QED
    BY <2>1, <2>2 DEF SizeInv
<1> QED
  BY <1>1, <1>2, <1>3 DEF Next

(***************************************************************************)
(* Type correctness of DevicePathSize: neither size_in_bytes_from_slice    *)
(* nor size_in_bytes_from_ptr ever holds an offset or a total that is not  *)
(* a natural number, and the slice walk's stay within the slice.           *)
(***************************************************************************)
THEOREM SizeTypeCorrect == Spec => []TypeOK
<1>1. SizeInv => TypeOK
  BY DEF SizeInv, SafeInv, TypeOK
<1> QED
  BY <1>1, SizeInitInv, SizeNextInv, PTL DEF Spec

-----------------------------------------------------------------------------
(***************************************************************************)
(* SizesAgree.  The two walks advance independently, so the invariant     *)
(* relates their positions through the nodes between them: the walk that  *)
(* is behind stands at the start of a run of nodes, laid end to end, that  *)
(* the walk ahead has passed, and the one ahead stands at its end.  Each   *)
(* walk that has returned did so because of the node where it stands.      *)
(***************************************************************************)
\* A node size_in_bytes_from_slice reads and goes past.
SafePasses(o) ==
  ~NodeRejected(o, Len(buf)) /\ ~FromFfiPtrPanics(o) /\ ~IsEndEntireAt(o)

\* A node size_in_bytes_from_ptr reads and goes past.
TrustedPasses(o) ==
  HeaderFits(o, Len(buf)) /\ ~FromFfiPtrPanics(o) /\ ~IsEndEntireAt(o)

\* s is a run of nodes laid end to end from a to b.
NodeRun(s, a, b) ==
  /\ Len(s) >= 1 /\ s[1] = a /\ s[Len(s)] = b
  /\ \A i \in 1 .. Len(s) - 1 : s[i + 1] = s[i] + LengthAt(s[i])

\* The trusted walk leads by the nodes s, all of which it has passed.
TrustedLeadsBy(s) ==
  NodeRun(s, safe.pos, trusted.ptr) /\ \A i \in 1 .. Len(s) - 1 : TrustedPasses(s[i])

\* The safe walk leads by the nodes s, all of which it has passed.
SafeLeadsBy(s) ==
  NodeRun(s, trusted.ptr, safe.pos) /\ \A i \in 1 .. Len(s) - 1 : SafePasses(s[i])

WalksInStep ==
  \/ \E s \in Seq(Nat) : TrustedLeadsBy(s)
  \/ \E s \in Seq(Nat) : SafeLeadsBy(s)

\* Why the safe walk returned what it returned.
SafeDecided ==
  /\ safe.st = "err" => NodeRejected(safe.pos, Len(buf))
  /\ safe.st = "panic" =>
       ~NodeRejected(safe.pos, Len(buf)) /\ FromFfiPtrPanics(safe.pos)
  /\ safe.st = "ok" => NodeAccepted /\ IsEndEntireAt(safe.pos)

\* Why the trusted walk returned what it returned, and its total while it
\* runs.
TrustedDecided ==
  /\ trusted.st = "run" => trusted.total = trusted.ptr
  /\ trusted.st = "ub" => ~TrustedHeaderInMemory
  /\ trusted.st = "panic" => TrustedHeaderInMemory /\ FromFfiPtrPanics(trusted.ptr)
  /\ trusted.st = "ok" =>
       /\ TrustedHeaderInMemory /\ ~FromFfiPtrPanics(trusted.ptr)
       /\ IsEndEntireAt(trusted.ptr)
       /\ trusted.total = trusted.ptr + LengthAt(trusted.ptr)

AgreeInv == SizeInv /\ SafeDecided /\ TrustedDecided /\ WalksInStep

\* A positive count is one, or two and more.
LEMMA NatCases ==
  ASSUME NEW n \in Nat, n >= 1
  PROVE  n = 1 \/ n >= 2
OBVIOUS

\* A count of two and more that is not two is three and more.
LEMMA NatPastTwo ==
  ASSUME NEW n \in Nat, n >= 2, n # 2
  PROVE  n >= 3
OBVIOUS

\* Both walks start running at offset 0: a one-node run joins them.
THEOREM AgreeInitInv == Init => AgreeInv
<1> SUFFICES ASSUME Init PROVE AgreeInv
  OBVIOUS
<1>1. SizeInv
  BY SizeInitInv
<1>2. safe = [st |-> "run", pos |-> 0, total |-> 0]
      /\ trusted = [st |-> "run", ptr |-> 0, total |-> 0]
  BY DEF Init, SafeInit, TrustedInit
<1>3. TrustedLeadsBy(<<0>>)
  BY <1>2 DEF TrustedLeadsBy, NodeRun
<1>4. <<0>> \in Seq(Nat)
  OBVIOUS
<1>5. WalksInStep
  BY <1>3, <1>4 DEF WalksInStep
<1> QED
  BY <1>1, <1>2, <1>5 DEF AgreeInv, SafeDecided, TrustedDecided

\* Both walks returned from the same node: they return the same extent,
\* or both fail.
LEMMA AgreeAtSameNode ==
  ASSUME AgreeInv, safe.st # "run", trusted.st # "run", safe.pos = trusted.ptr
  PROVE  SizesAgree
<1> DEFINE p == safe.pos
<1>0. /\ buf \in Seq(Byte) /\ p \in 0 .. Len(buf)
      /\ safe.st \in {"ok", "err", "panic"} /\ trusted.st \in {"ok", "panic", "ub"}
      /\ trusted.total \in Nat
  BY DEF AgreeInv, SizeInv, SafeInv, SafeTypeOK, SafeStatus, MaxSize, TrustedTypeOK,
         TrustedStatus
<1>1. CASE safe.st = "ok"
  <2>1. ~NodeRejected(p, Len(buf)) /\ ~FromFfiPtrPanics(p) /\ IsEndEntireAt(p)
    BY <1>1 DEF AgreeInv, SafeDecided, NodeAccepted, MaxSize
  <2>2. HeaderFits(p, Len(buf))
    BY <1>0, <2>1, AcceptedNodeFits
  <2>3. trusted.st = "ok"
    BY <1>0, <2>1, <2>2 DEF AgreeInv, TrustedDecided, TrustedHeaderInMemory
  <2>4. trusted.total = p + LengthAt(p) /\ safe.total = p + LengthAt(p)
        /\ safe.total <= Len(buf)
    BY <1>1, <2>3 DEF AgreeInv, TrustedDecided, SizeInv, SafeInv, SafeSizeWellFormed,
       MaxSize
  <2> QED
    BY <1>1, <2>3, <2>4 DEF SizesAgree
<1>2. CASE safe.st # "ok"
  <2> SUFFICES ASSUME trusted.st = "ok", trusted.total <= Len(buf) PROVE FALSE
    BY <1>2 DEF SizesAgree
  <2>1. /\ HeaderFits(p, Len(buf)) /\ ~FromFfiPtrPanics(p)
        /\ trusted.total = p + LengthAt(p)
    BY DEF AgreeInv, TrustedDecided, TrustedHeaderInMemory
  <2>2. LengthAt(p) \in Nat
    BY <1>0, <2>1, LengthAtNat
  <2>3. ~NodeRejected(p, Len(buf))
    BY <1>0, <2>1, <2>2 DEF NodeRejected, HeaderFits
  <2> QED
    BY <1>0, <1>2, <2>1, <2>3 DEF AgreeInv, SafeDecided
<1> QED
  BY <1>1, <1>2

\* Both walks returned: the walk behind stopped at a node the one ahead
\* went past, which only happens when the safe walk refused a node whose
\* length runs past the memory and the trusted walk then read outside it.
LEMMA AgreeWhenReturned ==
  ASSUME AgreeInv, safe.st # "run", trusted.st # "run"
  PROVE  SizesAgree
<1>0. /\ buf \in Seq(Byte) /\ safe.pos \in 0 .. Len(buf)
      /\ safe.st \in {"ok", "err", "panic"} /\ trusted.st \in {"ok", "panic", "ub"}
  BY DEF AgreeInv, SizeInv, SafeInv, SafeTypeOK, SafeStatus, MaxSize, TrustedTypeOK,
         TrustedStatus
<1>1. CASE \E s \in Seq(Nat) : TrustedLeadsBy(s)
  <2>1. PICK s \in Seq(Nat) : TrustedLeadsBy(s)
    BY <1>1
  <2>4. Len(s) \in Nat /\ Len(s) >= 1
    BY <2>1 DEF TrustedLeadsBy, NodeRun
  <2>2. CASE Len(s) = 1
    BY <2>1, <2>2, AgreeAtSameNode DEF TrustedLeadsBy, NodeRun
  <2>3. CASE Len(s) >= 2
    <3> DEFINE p == safe.pos
    <3>1. p = s[1] /\ s[2] = p + LengthAt(p) /\ TrustedPasses(p)
      BY <2>1, <2>3 DEF TrustedLeadsBy, NodeRun
    <3>2. LengthAt(p) \in Nat
      BY <1>0, <3>1, LengthAtNat DEF TrustedPasses
    <3>3. safe.st = "err"
      BY <1>0, <3>1 DEF AgreeInv, SafeDecided, TrustedPasses, NodeAccepted
    <3>4. LengthAt(p) > Len(buf) - p
      BY <3>1, <3>3 DEF AgreeInv, SafeDecided, TrustedPasses, NodeRejected
    <3>5. Len(s) = 2
      <4> SUFFICES ASSUME Len(s) # 2 PROVE FALSE
        OBVIOUS
      <4>0. Len(s) >= 3
        BY <2>3, <2>4, NatPastTwo
      <4>1. TrustedPasses(s[2])
        BY <2>1, <2>4, <4>0 DEF TrustedLeadsBy
      <4> QED
        BY <1>0, <3>1, <3>2, <3>4, <4>1 DEF TrustedPasses, HeaderFits, HeaderSize
    <3>6. ~HeaderFits(trusted.ptr, Len(buf))
      BY <1>0, <2>1, <3>1, <3>2, <3>4, <3>5 DEF TrustedLeadsBy, NodeRun, HeaderFits, HeaderSize
    <3> QED
      BY <3>3, <3>6 DEF AgreeInv, TrustedDecided, TrustedHeaderInMemory, SizesAgree
  <2>5. Len(s) = 1 \/ Len(s) >= 2
    BY <2>4, NatCases
  <2> QED
    BY <2>2, <2>3, <2>5, Zenon
<1>2. CASE \E s \in Seq(Nat) : SafeLeadsBy(s)
  <2>1. PICK s \in Seq(Nat) : SafeLeadsBy(s)
    BY <1>2
  <2>4. Len(s) \in Nat /\ Len(s) >= 1
    BY <2>1 DEF SafeLeadsBy, NodeRun
  <2>2. CASE Len(s) = 1
    BY <2>1, <2>2, AgreeAtSameNode DEF SafeLeadsBy, NodeRun
  <2>3. CASE Len(s) >= 2
    <3>1. SafePasses(trusted.ptr) /\ trusted.ptr \in Nat
      BY <2>1, <2>3 DEF SafeLeadsBy, NodeRun
    <3>2. HeaderFits(trusted.ptr, Len(buf))
      BY <1>0, <3>1, AcceptedNodeFits DEF SafePasses
    <3> QED
      BY <1>0, <3>1, <3>2 DEF AgreeInv, TrustedDecided, TrustedHeaderInMemory, SafePasses
  <2>5. Len(s) = 1 \/ Len(s) >= 2
    BY <2>4, NatCases
  <2> QED
    BY <2>2, <2>3, <2>5, Zenon
<1> QED
  BY <1>1, <1>2 DEF AgreeInv, WalksInStep

\* A step that moves neither walk, on the same memory, keeps them in step.
LEMMA WalksKept ==
  ASSUME WalksInStep, buf' = buf, safe'.pos = safe.pos, trusted'.ptr = trusted.ptr
  PROVE  WalksInStep'
<1> USE DEF TrustedLeadsBy, SafeLeadsBy, NodeRun, SafePasses, TrustedPasses,
            NodeRejected, HeaderFits, LengthAt, FromFfiPtrPanics, DataLenUnderflows,
            IsEndEntireAt, DeviceTypeAt, SubTypeAt
<1>1. CASE \E s \in Seq(Nat) : TrustedLeadsBy(s)
  <2>1. PICK s \in Seq(Nat) : TrustedLeadsBy(s)
    BY <1>1
  <2>2. TrustedLeadsBy(s)'
    BY <2>1
  <2> QED
    BY <2>2 DEF WalksInStep
<1>2. CASE \E s \in Seq(Nat) : SafeLeadsBy(s)
  <2>1. PICK s \in Seq(Nat) : SafeLeadsBy(s)
    BY <1>2
  <2>2. SafeLeadsBy(s)'
    BY <2>1
  <2> QED
    BY <2>2 DEF WalksInStep
<1> QED
  BY <1>1, <1>2 DEF WalksInStep

\* On the same memory, a run from the new position of one walk to the new
\* position of the other, passed by the walk ahead, is one in the new state.
LEMMA SafeLeadsAfter ==
  ASSUME buf' = buf, NEW w,
         NodeRun(w, trusted'.ptr, safe'.pos),
         \A i \in 1 .. Len(w) - 1 : SafePasses(w[i])
  PROVE  SafeLeadsBy(w)'
BY DEF SafeLeadsBy, NodeRun, SafePasses, NodeRejected, HeaderFits, LengthAt,
       FromFfiPtrPanics, DataLenUnderflows, IsEndEntireAt, DeviceTypeAt, SubTypeAt

\* The same, for a run the trusted walk leads.
LEMMA TrustedLeadsAfter ==
  ASSUME buf' = buf, NEW w,
         NodeRun(w, safe'.pos, trusted'.ptr),
         \A i \in 1 .. Len(w) - 1 : TrustedPasses(w[i])
  PROVE  TrustedLeadsBy(w)'
BY DEF TrustedLeadsBy, NodeRun, TrustedPasses, HeaderFits, LengthAt,
       FromFfiPtrPanics, DataLenUnderflows, IsEndEntireAt, DeviceTypeAt, SubTypeAt

\* The safe walk goes past its node: the walks stay in step, with the
\* trusted walk one node less ahead, or the safe walk one node more.
LEMMA SafeAdvanceInStep ==
  ASSUME AgreeInv, SafeAdvance, buf' = buf, trusted' = trusted
  PROVE  WalksInStep'
<1> DEFINE p == safe.pos
           q == trusted.ptr
           p2 == p + LengthAt(p)
<1>0. /\ buf \in Seq(Byte) /\ p \in 0 .. Len(buf) /\ q \in Nat
      /\ safe \in [st : SafeStatus, pos : 0 .. MaxSize, total : 0 .. MaxSize]
  BY DEF AgreeInv, SizeInv, SafeInv, SafeTypeOK, MaxSize, TrustedTypeOK
<1>1. SafePasses(p) /\ LengthAt(p) \in Nat
  BY <1>0, AcceptedNodeFits DEF SafeAdvance, NodeAccepted, MaxSize, SafePasses
<1>2. safe'.pos = p2 /\ trusted'.ptr = q
  BY <1>0 DEF SafeAdvance
<1>3. PICK n \in Nat : n = p2
  BY <1>0, <1>1
<1>4. CASE \E s \in Seq(Nat) : TrustedLeadsBy(s)
  <2>1. PICK s \in Seq(Nat) : TrustedLeadsBy(s)
    BY <1>4
  <2>2. Len(s) \in Nat /\ Len(s) >= 1
    BY <2>1 DEF TrustedLeadsBy, NodeRun
  <2>3. CASE Len(s) = 1
    <3>1. q = p
      BY <2>1, <2>3 DEF TrustedLeadsBy, NodeRun
    <3>2. PICK w \in Seq(Nat) : w = <<q, n>>
      <4>1. <<q, n>> \in Seq(Nat)
        BY <1>0, <1>3
      <4> QED
        BY <4>1
    <3>3. NodeRun(w, q, n) /\ \A i \in 1 .. Len(w) - 1 : SafePasses(w[i])
      BY <1>1, <1>3, <3>1, <3>2 DEF NodeRun
    <3>4. SafeLeadsBy(w)'
      BY <1>2, <1>3, <3>3, SafeLeadsAfter
    <3> QED
      BY <3>4 DEF WalksInStep
  <2>4. CASE Len(s) >= 2
    <3>1. s[2] = n
      BY <1>3, <2>1, <2>4 DEF TrustedLeadsBy, NodeRun
    <3>2. Tail(s) \in Seq(Nat) /\ Len(Tail(s)) = Len(s) - 1
      BY <2>4
    <3>3. NodeRun(Tail(s), n, q)
      BY <2>1, <2>2, <2>4, <3>1, <3>2 DEF TrustedLeadsBy, NodeRun
    <3>4. \A i \in 1 .. Len(Tail(s)) - 1 : TrustedPasses(Tail(s)[i])
      BY <2>1, <2>2, <2>4, <3>2 DEF TrustedLeadsBy
    <3>5. TrustedLeadsBy(Tail(s))'
      BY <1>2, <1>3, <3>3, <3>4, TrustedLeadsAfter
    <3> QED
      BY <3>2, <3>5 DEF WalksInStep
  <2>5. Len(s) = 1 \/ Len(s) >= 2
    BY <2>2, NatCases
  <2> QED
    BY <2>3, <2>4, <2>5
<1>5. CASE \E s \in Seq(Nat) : SafeLeadsBy(s)
  <2>1. PICK s \in Seq(Nat) : SafeLeadsBy(s)
    BY <1>5
  <2>2. Len(s) \in Nat /\ Len(s) >= 1
    BY <2>1 DEF SafeLeadsBy, NodeRun
  <2>3. PICK w \in Seq(Nat) : w = Append(s, n)
    <3>1. Append(s, n) \in Seq(Nat)
      BY <1>3
    <3> QED
      BY <3>1
  <2>4. Len(w) = Len(s) + 1 /\ w[Len(w)] = n /\ \A i \in 1 .. Len(s) : w[i] = s[i]
    BY <2>2, <2>3
  <2>5. NodeRun(w, q, n)
    <3>1. w[1] = q /\ s[Len(s)] = p
      BY <2>1, <2>2, <2>4 DEF SafeLeadsBy, NodeRun
    <3>2. ASSUME NEW i \in 1 .. Len(w) - 1
          PROVE  w[i + 1] = w[i] + LengthAt(w[i])
      <4>1. CASE i < Len(s)
        <5>1. i \in 1 .. Len(s) - 1 /\ i + 1 \in 1 .. Len(s) /\ i \in 1 .. Len(s)
          BY <2>2, <2>4, <4>1
        <5>2. w[i + 1] = s[i + 1] /\ w[i] = s[i]
          BY <2>4, <5>1
        <5>3. s[i + 1] = s[i] + LengthAt(s[i])
          BY <2>1, <5>1 DEF SafeLeadsBy, NodeRun
        <5> QED
          BY <5>2, <5>3
      <4>2. CASE i = Len(s)
        BY <1>3, <2>2, <2>4, <3>1, <4>2
      <4> QED
        BY <2>2, <2>4, <4>1, <4>2
    <3> QED
      BY <2>2, <2>4, <3>1, <3>2 DEF NodeRun
  <2>6. \A i \in 1 .. Len(w) - 1 : SafePasses(w[i])
    BY <1>1, <2>1, <2>2, <2>4 DEF SafeLeadsBy, NodeRun
  <2>7. SafeLeadsBy(w)'
    BY <1>2, <1>3, <2>5, <2>6, SafeLeadsAfter
  <2> QED
    BY <2>7 DEF WalksInStep
<1> QED
  BY <1>4, <1>5 DEF AgreeInv, WalksInStep

\* The trusted walk goes past its node: the walks stay in step, with the
\* safe walk one node less ahead, or the trusted walk one node more.
LEMMA TrustedAdvanceInStep ==
  ASSUME AgreeInv, TrustedAdvance, buf' = buf, safe' = safe
  PROVE  WalksInStep'
<1> DEFINE p == safe.pos
           q == trusted.ptr
           q2 == q + LengthAt(q)
<1>0. /\ buf \in Seq(Byte) /\ p \in 0 .. Len(buf) /\ q \in Nat
      /\ trusted \in [st : TrustedStatus, ptr : Nat, total : Nat]
  BY DEF AgreeInv, SizeInv, SafeInv, SafeTypeOK, MaxSize, TrustedTypeOK
<1>1. TrustedPasses(q) /\ LengthAt(q) \in Nat
  BY <1>0, LengthAtNat DEF TrustedAdvance, TrustedHeaderInMemory, TrustedPasses
<1>2. trusted'.ptr = q2 /\ safe'.pos = p
  BY <1>0 DEF TrustedAdvance
<1>3. PICK n \in Nat : n = q2
  BY <1>0, <1>1
<1>4. CASE \E s \in Seq(Nat) : SafeLeadsBy(s)
  <2>1. PICK s \in Seq(Nat) : SafeLeadsBy(s)
    BY <1>4
  <2>2. Len(s) \in Nat /\ Len(s) >= 1
    BY <2>1 DEF SafeLeadsBy, NodeRun
  <2>3. CASE Len(s) = 1
    <3>1. q = p
      BY <2>1, <2>3 DEF SafeLeadsBy, NodeRun
    <3>2. PICK w \in Seq(Nat) : w = <<p, n>>
      <4>1. <<p, n>> \in Seq(Nat)
        BY <1>0, <1>3
      <4> QED
        BY <4>1
    <3>3. NodeRun(w, p, n) /\ \A i \in 1 .. Len(w) - 1 : TrustedPasses(w[i])
      BY <1>1, <1>3, <3>1, <3>2 DEF NodeRun
    <3>4. TrustedLeadsBy(w)'
      BY <1>2, <1>3, <3>3, TrustedLeadsAfter
    <3> QED
      BY <3>4 DEF WalksInStep
  <2>4. CASE Len(s) >= 2
    <3>1. s[2] = n
      BY <1>3, <2>1, <2>4 DEF SafeLeadsBy, NodeRun
    <3>2. Tail(s) \in Seq(Nat) /\ Len(Tail(s)) = Len(s) - 1
      BY <2>4
    <3>3. NodeRun(Tail(s), n, p)
      BY <2>1, <2>2, <2>4, <3>1, <3>2 DEF SafeLeadsBy, NodeRun
    <3>4. \A i \in 1 .. Len(Tail(s)) - 1 : SafePasses(Tail(s)[i])
      BY <2>1, <2>2, <2>4, <3>2 DEF SafeLeadsBy
    <3>5. SafeLeadsBy(Tail(s))'
      BY <1>2, <1>3, <3>3, <3>4, SafeLeadsAfter
    <3> QED
      BY <3>2, <3>5 DEF WalksInStep
  <2>5. Len(s) = 1 \/ Len(s) >= 2
    BY <2>2, NatCases
  <2> QED
    BY <2>3, <2>4, <2>5
<1>5. CASE \E s \in Seq(Nat) : TrustedLeadsBy(s)
  <2>1. PICK s \in Seq(Nat) : TrustedLeadsBy(s)
    BY <1>5
  <2>2. Len(s) \in Nat /\ Len(s) >= 1
    BY <2>1 DEF TrustedLeadsBy, NodeRun
  <2>3. PICK w \in Seq(Nat) : w = Append(s, n)
    <3>1. Append(s, n) \in Seq(Nat)
      BY <1>3
    <3> QED
      BY <3>1
  <2>4. Len(w) = Len(s) + 1 /\ w[Len(w)] = n /\ \A i \in 1 .. Len(s) : w[i] = s[i]
    BY <2>2, <2>3
  <2>5. NodeRun(w, p, n)
    <3>1. w[1] = p /\ s[Len(s)] = q
      BY <2>1, <2>2, <2>4 DEF TrustedLeadsBy, NodeRun
    <3>2. ASSUME NEW i \in 1 .. Len(w) - 1
          PROVE  w[i + 1] = w[i] + LengthAt(w[i])
      <4>1. CASE i < Len(s)
        <5>1. i \in 1 .. Len(s) - 1 /\ i + 1 \in 1 .. Len(s) /\ i \in 1 .. Len(s)
          BY <2>2, <2>4, <4>1
        <5>2. w[i + 1] = s[i + 1] /\ w[i] = s[i]
          BY <2>4, <5>1
        <5>3. s[i + 1] = s[i] + LengthAt(s[i])
          BY <2>1, <5>1 DEF TrustedLeadsBy, NodeRun
        <5> QED
          BY <5>2, <5>3
      <4>2. CASE i = Len(s)
        BY <1>3, <2>2, <2>4, <3>1, <4>2
      <4> QED
        BY <2>2, <2>4, <4>1, <4>2
    <3> QED
      BY <2>2, <2>4, <3>1, <3>2 DEF NodeRun
  <2>6. \A i \in 1 .. Len(w) - 1 : TrustedPasses(w[i])
    BY <1>1, <2>1, <2>2, <2>4 DEF TrustedLeadsBy, NodeRun
  <2>7. TrustedLeadsBy(w)'
    BY <1>2, <1>3, <2>5, <2>6, TrustedLeadsAfter
  <2> QED
    BY <2>7 DEF WalksInStep
<1> QED
  BY <1>4, <1>5 DEF AgreeInv, WalksInStep

\* The loop of size_in_bytes_from_slice only returns Err(InvalidLength)
\* for a node that <&DevicePathNode>::try_from rejects: a node it accepts
\* fits in the remaining slice, which ends where the original one does.
LEMMA SafeRejectsRejected ==
  ASSUME SafeInv, SafeReject
  PROVE  NodeRejected(safe.pos, Len(buf))
<1>0. /\ buf \in Seq(Byte) /\ safe.pos \in Nat /\ safe.pos = safe.total
  BY DEF SafeInv, SafeTypeOK, LoopOffsetIsTotal, SafeReject, MaxSize
<1> SUFFICES ASSUME ~NodeRejected(safe.pos, Len(buf)) PROVE FALSE
  OBVIOUS
<1>1. LengthAt(safe.pos) \in Nat /\ LengthAt(safe.pos) <= Len(buf) - safe.pos
  BY <1>0, AcceptedNodeFits
<1> QED
  BY <1>0, <1>1 DEF SafeReject, NodeAccepted, NextTotal, MaxSize

\* A step of the safe walk keeps both walks' reasons and keeps them in step.
LEMMA SafeStepAgree ==
  ASSUME AgreeInv, SafeStep, buf' = buf, trusted' = trusted
  PROVE  SafeDecided' /\ TrustedDecided' /\ WalksInStep'
<1> DEFINE p == safe.pos
<1> USE DEF NodeRejected, HeaderFits, LengthAt, FromFfiPtrPanics, DataLenUnderflows,
            IsEndEntireAt, DeviceTypeAt, SubTypeAt, MaxSize
<1>0. /\ buf \in Seq(Byte) /\ p \in 0 .. Len(buf)
      /\ safe \in [st : SafeStatus, pos : 0 .. MaxSize, total : 0 .. MaxSize]
      /\ safe.st = "run" => p = safe.total
  BY DEF AgreeInv, SizeInv, SafeInv, SafeTypeOK, LoopOffsetIsTotal
<1>1. TrustedDecided'
  BY DEF AgreeInv, TrustedDecided, TrustedHeaderInMemory
<1>2. CASE SafeReject
  <2>1. NodeRejected(p, Len(buf))
    BY <1>2, SafeRejectsRejected DEF AgreeInv, SizeInv
  <2>2. safe'.st = "err" /\ safe'.pos = p
    BY <1>0, <1>2 DEF SafeReject
  <2>3. SafeDecided'
    BY <2>1, <2>2 DEF SafeDecided
  <2> QED
    BY <1>1, <2>2, <2>3, WalksKept DEF AgreeInv
<1>3. CASE SafePanic
  <2>2. safe'.st = "panic" /\ safe'.pos = p
    BY <1>0, <1>3 DEF SafePanic
  <2>3. SafeDecided'
    BY <1>3, <2>2 DEF SafeDecided, SafePanic
  <2> QED
    BY <1>1, <2>2, <2>3, WalksKept DEF AgreeInv
<1>4. CASE SafeEnd
  <2>2. safe'.st = "ok" /\ safe'.pos = p
    BY <1>0, <1>4 DEF SafeEnd
  <2>3. SafeDecided'
    BY <1>4, <2>2 DEF SafeDecided, SafeEnd, NodeAccepted
  <2> QED
    BY <1>1, <2>2, <2>3, WalksKept DEF AgreeInv
<1>5. CASE SafeAdvance
  <2>2. safe'.st = "run"
    BY <1>0, <1>5 DEF SafeAdvance
  <2>3. SafeDecided'
    BY <2>2 DEF SafeDecided
  <2> QED
    BY <1>1, <1>5, <2>3, SafeAdvanceInStep
<1> QED
  BY <1>2, <1>3, <1>4, <1>5 DEF SafeStep

\* A step of the trusted walk keeps both walks' reasons and keeps them in
\* step.
LEMMA TrustedStepAgree ==
  ASSUME AgreeInv, TrustedStep, buf' = buf, safe' = safe
  PROVE  SafeDecided' /\ TrustedDecided' /\ WalksInStep'
<1> DEFINE q == trusted.ptr
<1> USE DEF NodeRejected, HeaderFits, LengthAt, FromFfiPtrPanics, DataLenUnderflows,
            IsEndEntireAt, DeviceTypeAt, SubTypeAt, MaxSize, TrustedHeaderInMemory
<1>0. /\ buf \in Seq(Byte) /\ q \in Nat
      /\ trusted \in [st : TrustedStatus, ptr : Nat, total : Nat]
      /\ trusted.st = "run" => trusted.total = q
  BY DEF AgreeInv, SizeInv, SafeInv, SafeTypeOK, TrustedTypeOK, TrustedDecided
<1>1. SafeDecided'
  BY DEF AgreeInv, SafeDecided, NodeAccepted
<1>2. CASE TrustedOutOfBounds
  <2>2. trusted'.st = "ub" /\ trusted'.ptr = q
    BY <1>0, <1>2 DEF TrustedOutOfBounds
  <2>3. TrustedDecided'
    BY <1>2, <2>2 DEF TrustedDecided, TrustedOutOfBounds
  <2> QED
    BY <1>1, <2>2, <2>3, WalksKept DEF AgreeInv
<1>3. CASE TrustedPanic
  <2>2. trusted'.st = "panic" /\ trusted'.ptr = q
    BY <1>0, <1>3 DEF TrustedPanic
  <2>3. TrustedDecided'
    BY <1>3, <2>2 DEF TrustedDecided, TrustedPanic
  <2> QED
    BY <1>1, <2>2, <2>3, WalksKept DEF AgreeInv
<1>4. CASE TrustedEnd
  <2>2. trusted'.st = "ok" /\ trusted'.ptr = q
        /\ trusted'.total = trusted.total + LengthAt(q)
    BY <1>0, <1>4 DEF TrustedEnd, TrustedNextTotal
  <2>3. TrustedDecided'
    BY <1>0, <1>4, <2>2 DEF TrustedDecided, TrustedEnd
  <2> QED
    BY <1>1, <2>2, <2>3, WalksKept DEF AgreeInv
<1>5. CASE TrustedAdvance
  <2>2. /\ trusted'.st = "run" /\ trusted'.ptr = q + LengthAt(q)
        /\ trusted'.total = trusted.total + LengthAt(q)
    BY <1>0, <1>5 DEF TrustedAdvance, TrustedNextTotal
  <2>3. TrustedDecided'
    BY <1>0, <1>5, <2>2 DEF TrustedDecided, TrustedAdvance
  <2> QED
    BY <1>1, <1>5, <2>3, TrustedAdvanceInStep
<1> QED
  BY <1>2, <1>3, <1>4, <1>5 DEF TrustedStep

\* Every step of either walk, or of neither, keeps AgreeInv.
THEOREM AgreeNextInv == AgreeInv /\ [Next]_vars => AgreeInv'
<1> SUFFICES ASSUME AgreeInv, [Next]_vars PROVE AgreeInv'
  OBVIOUS
<1>1. SizeInv'
  BY SizeNextInv DEF AgreeInv
<1>2. CASE SafeStep /\ UNCHANGED <<buf, trusted>>
  BY <1>1, <1>2, SafeStepAgree DEF AgreeInv
<1>3. CASE TrustedStep /\ UNCHANGED <<buf, safe>>
  BY <1>1, <1>3, TrustedStepAgree DEF AgreeInv
<1>4. CASE UNCHANGED vars
  <2>1. SafeDecided' /\ TrustedDecided'
    BY <1>4 DEF vars, AgreeInv, SafeDecided, TrustedDecided, NodeAccepted, MaxSize,
       TrustedHeaderInMemory, NodeRejected, HeaderFits, LengthAt, FromFfiPtrPanics,
       DataLenUnderflows, IsEndEntireAt, DeviceTypeAt, SubTypeAt
  <2>2. WalksInStep'
    BY <1>4, WalksKept DEF vars, AgreeInv
  <2> QED
    BY <1>1, <2>1, <2>2 DEF AgreeInv
<1> QED
  BY <1>2, <1>3, <1>4 DEF Next

(***************************************************************************)
(* SizesAgree for every memory in Inputs and both builds: whenever         *)
(* <&DevicePath>::try_from and DevicePath::from_ffi_ptr have both returned *)
(* on the same bytes, try_from accepts exactly when size_in_bytes_from_ptr *)
(* returns a size within the memory, and the two sizes are equal.          *)
(***************************************************************************)
THEOREM SizesAgreeCorrect == Spec => []SizesAgree
<1>1. AgreeInv => SizesAgree
  <2> SUFFICES ASSUME AgreeInv PROVE SizesAgree
    OBVIOUS
  <2>1. CASE safe.st # "run" /\ trusted.st # "run"
    BY <2>1, AgreeWhenReturned
  <2>2. CASE ~(safe.st # "run" /\ trusted.st # "run")
    BY <2>2 DEF SizesAgree
  <2> QED
    BY <2>1, <2>2
<1> QED
  BY <1>1, AgreeInitInv, AgreeNextInv, PTL DEF Spec

=============================================================================
