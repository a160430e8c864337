--------------------------- MODULE MC_DevicePathView ---------------------------
(***************************************************************************)
(* Inputs for checking the iterators.  Every input is a path that          *)
(* <&DevicePath>::try_from accepts, in a buffer that may hold one byte     *)
(* more: up to three pieces followed by an end-entire node.  A piece is a  *)
(* plain node, a node whose payload reads as an end-entire header, an      *)
(* end-instance node, an end node of another sub type, or a six-byte blob  *)
(* that declares length 2 (accepted only by the release build) so that     *)
(* the second node's header starts inside the first one's.                 *)
(***************************************************************************)
EXTENDS DevicePathUnitTests

MCPlain == <<1, 1, 4, 0>>
MCPayloadLooksEnd == <<1, 1, 6, 0, END, END_ENTIRE>>
MCEndInstance == <<END, END_INSTANCE, 4, 0>>
\* An END node with a sub type that is neither END_INSTANCE nor END_ENTIRE.
MCEndOther == <<END, 2, 4, 0>>
\* Offset 0: type 1, length 2; offset 2: type 2, sub type 0, length 4.
MCOverlapping == <<1, 1, 2, 0, 4, 0>>

MCPieces == {MCPlain, MCPayloadLooksEnd, MCEndInstance, MCEndOther, MCOverlapping}
MCEnds == {<<END, END_ENTIRE, 4, 0>>, <<END, END_ENTIRE, 6, 0, 0, 0>>}

MCPrefixes ==
  {<<>>} \cup MCPieces \cup { a \o b : a, b \in MCPieces }
    \cup { a \o b \o c : a, b, c \in MCPieces }

MCViewInputs ==
  { p \o e \o t : p \in MCPrefixes, e \in MCEnds, t \in {<<>>, <<0>>} }

\* The same inputs and the fixture of the unit tests.
MCViewTestInputs == MCViewInputs \cup {CreateRawDevicePath}

(***************************************************************************)
(* Paths whose end-entire node declares 2 bytes, alone or after a plain    *)
(* node.  try_from accepts them in a release build.                         *)
(***************************************************************************)
MCShortEndInputs ==
  { p \o <<END, END_ENTIRE, l, 0>> : p \in {<<>>, MCPlain}, l \in {1, 2, 3} }

=============================================================================
