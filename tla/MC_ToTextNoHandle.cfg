\* Three handles: buffers of one to three handles in every order, and the
\* protocol uninstalled from the first handle while others keep it.
CONSTANTS
  h1 = h1
  h2 = h2
  h3 = h3
  Handles <- MCHandles
SYMMETRY MCSymmetry
SPECIFICATION Spec

INVARIANT NoProviderGivesNoHandle
