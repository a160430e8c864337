------------------------- MODULE MC_DevicePathToText -------------------------
EXTENDS DevicePathToText, TLC

CONSTANTS h1, h2, h3

MCHandles == {h1, h2, h3}

MCSymmetry == Permutations(MCHandles)
=============================================================================
