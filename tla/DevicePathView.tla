---------------------------- MODULE DevicePathView ----------------------------
(***************************************************************************)
(* The Path View and the Iteration Engine: a &DevicePath built by          *)
(* <&DevicePath>::try_from (the walk of DevicePathSafeSize), and the       *)
(* iterators a caller takes over it: DevicePath::node_iter,                *)
(* DevicePath::instance_iter, and DevicePathInstance::node_iter on each    *)
(* instance the instance iterator yields.                                  *)
(*                                                                         *)
(* All iterators borrow the same immutable bytes and keep their own        *)
(* cursor, so the caller may advance them in any order.                    *)
(*                                                                         *)
(* A DevicePathNodeIterator is a record                                    *)
(*   [st, lo, hi, policy, out]                                             *)
(* where [lo, hi) is the window `nodes`, policy its StopCondition, out the *)
(* offsets of the nodes it has yielded, and st "live", or "panic" / "ub"   *)
(* if a call of next() panicked or read outside the memory.                *)
(***************************************************************************)
EXTENDS DevicePathSafeSize, DevicePathChain

VARIABLES
  pn,      \* the iterator of DevicePath::node_iter, or NoIter
  inst,    \* the DevicePathInstanceIterator, or NoIter
  inodes   \* inodes[k]: DevicePathInstance::node_iter of the k-th instance

viewVars == <<pn, inst, inodes>>
vars == <<buf, safe, pn, inst, inodes>>

NoIter == [st |-> "none"]

Policies == {"AnyEndNode", "EndEntireNode", "NoMoreNodes"}

NewNodeIter(lo, hi, policy) ==
  [st |-> "live", lo |-> lo, hi |-> hi, policy |-> policy, out |-> <<>>]

\* Plausible bugs: the match arms of the whole path's and of an instance's
\* stop condition mixed up.
StopsEntireAsAny(policy, o) ==
  CASE policy = "AnyEndNode"    -> IsEndAt(o)
    [] policy = "EndEntireNode" -> IsEndAt(o)
    [] policy = "NoMoreNodes"   -> FALSE

StopsAnyAsEntire(policy, o) ==
  CASE policy = "AnyEndNode"    -> IsEndEntireAt(o)
    [] policy = "EndEntireNode" -> IsEndEntireAt(o)
    [] policy = "NoMoreNodes"   -> FALSE

\* The early stop of DevicePathNodeIterator::next for each StopCondition.
Stops(policy, o) ==
  CASE policy = "AnyEndNode"    -> IsEndAt(o)
    [] policy = "EndEntireNode" -> IsEndEntireAt(o)
    [] policy = "NoMoreNodes"   -> FALSE

\* A plausible bug: advancing the window by the payload length
\* node.data().len(), i.e. length - header size, wrapping in usize.
AdvanceByDataLen(it) ==
  [it EXCEPT !.lo = @ + ((LengthAt(it.lo) - HeaderSize) % 2^64),
             !.out = Append(@, it.lo)]

\* self.nodes = &self.nodes[node_size..]; Some(node).
AdvanceByLength(it) ==
  [it EXCEPT !.lo = @ + LengthAt(it.lo), !.out = Append(@, it.lo)]

(***************************************************************************)
(* DevicePathNodeIterator::next on a non-empty window: from_ffi_ptr reads  *)
(* the header at the cursor without a bound (past the end of the slice     *)
(* `nodes`, outside the object the iterator borrows: "ub";                 *)
(* underflow in a debug build: "panic"), the stop condition clears the     *)
(* window, and otherwise the window is re-sliced past the node, which      *)
(* panics when the node's length runs past the window.                     *)
(***************************************************************************)
NodeIterNext(it) ==
  IF ~HeaderFits(it.lo, it.hi) THEN [it EXCEPT !.st = "ub"]
  ELSE IF FromFfiPtrPanics(it.lo) THEN [it EXCEPT !.st = "panic"]
  ELSE IF Stops(it.policy, it.lo) THEN [it EXCEPT !.lo = it.hi]
  ELSE IF LengthAt(it.lo) > it.hi - it.lo THEN [it EXCEPT !.st = "panic"]
  ELSE AdvanceByLength(it)

\* The window is not empty: next() has work to do.
NodeIterLive(it) == it.st = "live" /\ it.lo < it.hi

(***************************************************************************)
(* The byte length of the instance starting at lo, as the for loop in      *)
(* DevicePathInstanceIterator::next computes it: run a NoMoreNodes         *)
(* iterator over [lo, hi), adding each node's length up to and including   *)
(* the first END-type node.  The loop is unrolled as a recursive function  *)
(* over the cursor; "panic" and "ub" are its failures.                     *)
(***************************************************************************)
\* A plausible bug: testing for the END node before adding its length, so
\* that an instance's extent leaves out its terminator.
InstanceScanEndUncounted(lo, hi) ==
  LET scan[o \in lo .. hi] ==
        IF o >= hi THEN [st |-> "ok", size |-> o - lo]
        ELSE LET it == NodeIterNext(NewNodeIter(o, hi, "NoMoreNodes")) IN
             IF it.st # "live" THEN [st |-> it.st, size |-> 0]
             ELSE IF IsEndAt(o) THEN [st |-> "ok", size |-> o - lo]
             ELSE scan[it.lo]
  IN scan[lo]

InstanceScan(lo, hi) ==
  LET scan[o \in lo .. hi] ==
        IF o >= hi THEN [st |-> "ok", size |-> o - lo]
        ELSE LET it == NodeIterNext(NewNodeIter(o, hi, "NoMoreNodes")) IN
             IF it.st # "live" THEN [st |-> it.st, size |-> 0]
             ELSE IF IsEndAt(o) THEN [st |-> "ok", size |-> it.lo - lo]
             ELSE scan[it.lo]
  IN scan[lo]

-----------------------------------------------------------------------------
(* The caller's operations. *)

\* DevicePath::node_iter on the path try_from returned.
PathNodeIter ==
  /\ safe.st = "ok"
  /\ pn = NoIter
  /\ pn' = NewNodeIter(0, SafePathLen, "EndEntireNode")
  /\ UNCHANGED <<inst, inodes>>

\* DevicePath::instance_iter: remaining_path = Some(self).
InstanceIter ==
  /\ safe.st = "ok"
  /\ inst = NoIter
  /\ inst' = [st |-> "live", rem |-> 0, hi |-> SafePathLen, out |-> <<>>]
  /\ UNCHANGED <<pn, inodes>>

\* next() on the path's node iterator.
PathNodeNext ==
  /\ NodeIterLive(pn)
  /\ pn' = NodeIterNext(pn)
  /\ UNCHANGED <<inst, inodes>>

\* An instance iterator never yields more instances than there are bytes.
InstanceBound == Len(buf)

(***************************************************************************)
(* DevicePathInstanceIterator::next on Some(remaining_path): find the      *)
(* instance's size, split_at it (which panics past the end), set           *)
(* remaining_path to the rest or to None, yield the head.  The caller      *)
(* takes the head's node_iter (AnyEndNode) at once.                        *)
(***************************************************************************)
InstanceNext ==
  /\ inst.st = "live"
  /\ inst.rem < inst.hi
  /\ Len(inst.out) < InstanceBound
  /\ LET scan == InstanceScan(inst.rem, inst.hi)
         cut  == inst.rem + scan.size
         ok   == scan.st = "ok" /\ cut <= inst.hi
     IN  /\ inst' = IF scan.st # "ok" THEN [inst EXCEPT !.st = scan.st]
                     ELSE IF cut > inst.hi THEN [inst EXCEPT !.st = "panic"]
                     ELSE [inst EXCEPT !.rem = cut, !.out = Append(@, <<inst.rem, cut>>)]
         /\ inodes' = IF ok
                      THEN Append(inodes, NewNodeIter(inst.rem, cut, "AnyEndNode"))
                      ELSE inodes
  /\ UNCHANGED pn

\* next() on the node iterator of the k-th instance.
InstanceNodeNext(k) ==
  /\ NodeIterLive(inodes[k])
  /\ inodes' = [inodes EXCEPT ![k] = NodeIterNext(inodes[k])]
  /\ UNCHANGED <<pn, inst>>

Init ==
  /\ buf \in Inputs
  /\ SafeInit
  /\ pn = NoIter
  /\ inst = NoIter
  /\ inodes = <<>>

Next ==
  \/ SafeStep /\ UNCHANGED <<buf, pn, inst, inodes>>
  \/ (PathNodeIter \/ InstanceIter \/ PathNodeNext \/ InstanceNext
      \/ \E k \in DOMAIN inodes : InstanceNodeNext(k))
     /\ UNCHANGED <<buf, safe>>

Spec == Init /\ [][Next]_vars

-----------------------------------------------------------------------------
\* The nodes of the path try_from returned, by the reference reading.
PathChain == Chain(0, SafePathLen)

\* The chains of the instances yielded so far, one after another.
InstanceChains ==
  LET f[k \in 0 .. Len(inst.out)] ==
        IF k = 0 THEN <<>>
        ELSE f[k - 1] \o Chain(inst.out[k][1], inst.out[k][2])
  IN f[Len(inst.out)]

NodeIterRecs ==
  [st : {"live", "panic", "ub"}, lo : Nat, hi : Nat, policy : Policies,
   out : Seq(Nat)]

(* Type invariant of the views and iterators. *)
TypeOK ==
  /\ SafeTypeOK
  /\ pn \in NodeIterRecs \cup {NoIter}
  /\ inst \in [st : {"live", "panic", "ub"}, rem : Nat, hi : Nat,
               out : Seq(Nat \X Nat)] \cup {NoIter}
  /\ inodes \in Seq(NodeIterRecs)

(***************************************************************************)
(* DevicePath::node_iter on a path try_from accepted never fails and       *)
(* yields the path's nodes in order: every call of next() reads a header   *)
(* inside the path, slices within it, and what it has yielded is a prefix  *)
(* of the chain without its end-entire terminator; once it returns None it *)
(* has yielded all of it.  The unchecked from_ffi_ptr and the slicing in   *)
(* DevicePathNodeIterator::next rely on this.                              *)
(***************************************************************************)
PathNodeIterSound ==
  pn # NoIter =>
    /\ pn.st = "live"
    /\ IsPrefixOf(pn.out, ButLast(PathChain))
    /\ pn.lo = pn.hi => pn.out = ButLast(PathChain)

(***************************************************************************)
(* DevicePathInstanceIterator::next splits the path into its instances:    *)
(* the instances yielded so far are adjacent windows from offset 0, each   *)
(* holds at least one node and ends with its first END-type node (its      *)
(* terminator, counted in its extent), and once remaining_path is None     *)
(* their chains put together are the path's chain.                         *)
(***************************************************************************)
InstancesPartitionPath ==
  inst # NoIter =>
    /\ inst.st = "live"
    /\ \A k \in 1 .. Len(inst.out) :
         LET c == Chain(inst.out[k][1], inst.out[k][2]) IN
         /\ inst.out[k][1] = IF k = 1 THEN 0 ELSE inst.out[k - 1][2]
         /\ c # <<>>
         /\ IsEndAt(c[Len(c)])
         /\ \A i \in 1 .. Len(c) - 1 : ~IsEndAt(c[i])
    /\ inst.rem = IF inst.out = <<>> THEN 0 ELSE inst.out[Len(inst.out)][2]
    /\ inst.rem = inst.hi => InstanceChains = PathChain

(***************************************************************************)
(* DevicePathInstance::node_iter on each yielded instance never fails and  *)
(* yields the instance's nodes without its terminator, in order.           *)
(***************************************************************************)
InstanceNodeIterSound ==
  \A k \in DOMAIN inodes :
    LET c == ButLast(Chain(inst.out[k][1], inst.out[k][2])) IN
    /\ inodes[k].st = "live"
    /\ IsPrefixOf(inodes[k].out, c)
    /\ inodes[k].lo = inodes[k].hi => inodes[k].out = c

(***************************************************************************)
(* spec.md, Testable Properties: "whole-list node iteration = the four     *)
(* non-terminator elements in order" for a two-instance path.  Node        *)
(* iteration over the whole path yields no terminator element.             *)
(***************************************************************************)
PathNodesExcludeTerminators ==
  pn # NoIter => \A i \in DOMAIN pn.out : ~IsEndAt(pn.out[i])

=============================================================================
