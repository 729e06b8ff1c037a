\* Two slaves, files of no, two and three blocks, one resend per step, and two
\* transfers, so that the second can meet what the first has left.
SPECIFICATION Spec
CONSTANTS
  a1 = a1
  a2 = a2
  Addr = {a1, a2}
  Lens = {0, 2, 3}
  ResendMax <- OneResend
  MaxStarts = 2
SYMMETRY Symmetry
INVARIANTS
  TypeOK
  Lockstep
  Accounted
  OnlyAwaitedFrames
  
PROPERTIES
  VerifiedAtEnd
  OnlySilentNodesRemovedLater
  ImplementsGroupTransfer
