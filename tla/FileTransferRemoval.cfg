CONSTANTS
  Addr = {a1, a2}
  Lens = {2}
  ResendMax <- NoResend
  MaxStarts = 2
SYMMETRY Symmetry
SPECIFICATION Spec
PROPERTIES OnlySilentNodesRemoved
