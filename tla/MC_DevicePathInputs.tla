-------------------------- MODULE MC_DevicePathInputs -------------------------
(***************************************************************************)
(* Inputs for the model-checking instances of the device-path parser.     *)
(*                                                                         *)
(* The memory handed to the parser is every prefix of every concatenation  *)
(* of up to three encoded nodes.  A node is encoded as the code lays it    *)
(* out (type, sub type, length low byte, length high byte, payload), but   *)
(* its declared length is chosen independently of its payload, so the     *)
(* inputs include nodes that declare less than a header (0, 2), exactly a *)
(* header (4), or more bytes than follow them (6 with no payload), and     *)
(* payloads that a wrong length makes the walk read as a header.  Taking   *)
(* every prefix adds truncated headers and truncated nodes.                *)
(***************************************************************************)
EXTENDS DevicePathHeader

MCTypes == {END, 1}
MCSubTypes == {END_INSTANCE, END_ENTIRE}
MCLengths == {0, 2, 4, 6}
\* The payload bytes, when a node has any, read as an end-entire header.
MCPayloads == {<<>>, <<END, END_ENTIRE>>}

MCNodes ==
  { <<t, s, l, 0>> \o p : t \in MCTypes, s \in MCSubTypes,
                          l \in MCLengths, p \in MCPayloads }

\* Zero, one or two whole nodes.
MCWholeNodes ==
  {<<>>} \cup MCNodes \cup { a \o b : a \in MCNodes, b \in MCNodes }

\* The first k bytes of an encoded node.
MCPartialNodes == UNION { { SubSeq(n, 1, k) : k \in 0 .. Len(n) } : n \in MCNodes }

MCInputs == { w \o p : w \in MCWholeNodes, p \in MCPartialNodes }

=============================================================================
