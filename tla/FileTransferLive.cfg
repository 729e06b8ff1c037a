CONSTANTS
  Addr = {a1, a2}
  Lens = {1, 2}
  ResendMax <- OneResend
  MaxStarts = 2
SPECIFICATION FairSpec
PROPERTIES TransferEnds PageRecovers
