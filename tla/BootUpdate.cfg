\* Two slaves and a file of three blocks, one resend, one give-up, two clicks.
SPECIFICATION Spec
CONSTANTS
  a1 = a1
  a2 = a2
  Addr = {a1, a2}
  Selections <- AllSelected
  FileLen = 3
  AppSize = 3
  MaxResend = 1
  MaxOps = 2
  MaxGiveUps = 1
SYMMETRY Symmetry
INVARIANTS
  TypeOK
  
\* The machine may stand still: idle, nobody clicks.
CHECK_DEADLOCK FALSE
