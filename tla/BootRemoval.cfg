\* A timeout removes nodes that have answered.
SPECIFICATION Spec
CONSTANTS
  a1 = a1
  a2 = a2
  Addr = {a1, a2}
  Selections <- AllSelected
  FileLen = 2
  AppSize = 2
  MaxResend = 0
  MaxOps = 1
  MaxGiveUps = 1
PROPERTY
  OnlySilentRemoved
CHECK_DEADLOCK FALSE
