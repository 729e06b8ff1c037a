\* One start, one slave, a file of two blocks, no resend before a step gives up.
SPECIFICATION FairSpec
CONSTANTS
  a1 = a1
  a2 = a2
  Addr = {a1}
  Selections <- OneSelected
  FileLen = 2
  AppSize = 2
  MaxResend = 0
  MaxOps = 1
  MaxGiveUps = 6
PROPERTIES
  UpdateEnds
  PageRecovers
CHECK_DEADLOCK FALSE
