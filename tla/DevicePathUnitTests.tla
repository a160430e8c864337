-------------------------- MODULE DevicePathUnitTests --------------------------
(***************************************************************************)
(* The unit tests of uefi/src/proto/device_path/mod.rs, run on the model.  *)
(* The fixture create_raw_device_path is built as add_node builds it, the  *)
(* model's try_from and iterators are run on it, and each test's           *)
(* assertions are stated over the iterators' state: the model and the code *)
(* must agree on the examples the code was tested with.                    *)
(***************************************************************************)
EXTENDS DevicePathView, SequencesExt

(* A window of another byte slice, read with the header operators. *)
Slice(b) == INSTANCE DevicePathHeader WITH buf <- b

(* add_node: the header (u16::try_from(..).unwrap() of the length, as    *)
(* little-endian bytes) and the payload appended to `path`.              *)
AddNode(path, deviceType, subType, nodeData) ==
  LET n == HeaderSize + Len(nodeData) IN
  IF n < 2^16
  THEN path \o <<deviceType, subType, n % 256, n \div 256>> \o nodeData
  ELSE Assert(FALSE, "u16::try_from(..).unwrap() panicked")

(* The add_node calls of create_raw_device_path: two instances of two    *)
(* nodes, ended by END_INSTANCE and by END_ENTIRE.                        *)
TestNodes ==
  << [t |-> 160, st |-> 176, data |-> <<10, 11>>],
     [t |-> 161, st |-> 177, data |-> <<20, 21, 22, 23>>],
     [t |-> END, st |-> END_INSTANCE, data |-> <<>>],
     [t |-> 162, st |-> 178, data |-> <<30, 31>>],
     [t |-> 163, st |-> 179, data |-> <<40, 41, 42, 43>>],
     [t |-> END, st |-> END_ENTIRE, data |-> <<>>] >>

CreateRawDevicePath ==
  FoldLeft(LAMBDA p, nd : AddNode(p, nd.t, nd.st, nd.data), <<>>, TestNodes)

(* The nodes test_device_path_nodes (and test_device_path_nodes_from_bytes) *)
(* checks node_iter's output against: the five before END_ENTIRE.         *)
ExpectedPathNodes == SubSeq(TestNodes, 1, 5)

(* The nodes test_device_path_instances checks each instance's node_iter *)
(* against: two per instance, without its end node.                      *)
ExpectedInstanceNodes == << SubSeq(TestNodes, 1, 2), SubSeq(TestNodes, 4, 5) >>

(* check_node: the node at offset o has the expected fields and payload. *)
CheckNode(o, nd) ==
  /\ DeviceTypeAt(o) = nd.t
  /\ SubTypeAt(o) = nd.st
  /\ LengthAt(o) = HeaderSize + Len(nd.data)
  /\ DataAt(o) = nd.data

(* test_device_path_node_from_bytes: the slices it converts with         *)
(* <&DevicePathNode>::try_from, and whether the conversion succeeds.     *)
NodeFromBytesCases ==
  LET full == <<160, 176>> \o <<6, 0>> \o <<10, 11>> IN
  { [bytes |-> <<160>>, ok |-> FALSE],
    [bytes |-> full, ok |-> TRUE],
    [bytes |-> [full EXCEPT ![3] = @ + 1], ok |-> FALSE] }

-----------------------------------------------------------------------------
(***************************************************************************)
(* test_device_path_nodes and test_device_path_nodes_from_bytes: the path  *)
(* is 6 + 8 + 4 + 6 + 8 + 4 bytes, and node_iter yields, without failing,  *)
(* the five nodes before the END_ENTIRE node, END_INSTANCE among them.     *)
(***************************************************************************)
TestDevicePathNodes ==
  buf = CreateRawDevicePath =>
    /\ safe.st # "run" => safe.st = "ok" /\ safe.total = 6 + 8 + 4 + 6 + 8 + 4
    /\ pn # NoIter =>
         /\ pn.st = "live"
         /\ pn.lo = pn.hi =>
              /\ Len(pn.out) = Len(ExpectedPathNodes)
              /\ \A i \in 1 .. Len(pn.out) : CheckNode(pn.out[i], ExpectedPathNodes[i])

(***************************************************************************)
(* test_device_path_instances: instance_iter yields exactly two instances  *)
(* of 6 + 8 + 4 bytes, and each instance's node_iter yields its two nodes  *)
(* without the end node.                                                   *)
(***************************************************************************)
TestDevicePathInstances ==
  buf = CreateRawDevicePath /\ inst # NoIter =>
    /\ inst.st = "live"
    /\ \A k \in DOMAIN inst.out : inst.out[k][2] - inst.out[k][1] = 6 + 8 + 4
    /\ inst.rem = inst.hi => Len(inst.out) = Len(ExpectedInstanceNodes)
    /\ \A k \in DOMAIN inodes :
         /\ inodes[k].st = "live"
         /\ inodes[k].lo = inodes[k].hi =>
              /\ Len(inodes[k].out) = Len(ExpectedInstanceNodes[k])
              /\ \A i \in 1 .. Len(inodes[k].out) :
                   CheckNode(inodes[k].out[i], ExpectedInstanceNodes[k][i])

(***************************************************************************)
(* test_device_path_node_from_bytes: <&DevicePathNode>::try_from rejects a *)
(* slice shorter than a header and one shorter than the declared length,   *)
(* and accepts the six-byte node that fits exactly, as a 6-byte node.      *)
(***************************************************************************)
TestNodeFromBytes ==
  \A c \in NodeFromBytesCases :
    /\ Slice(c.bytes)!NodeRejected(0, Len(c.bytes)) = ~c.ok
    /\ c.ok => Slice(c.bytes)!LengthAt(0) = 6

=============================================================================
