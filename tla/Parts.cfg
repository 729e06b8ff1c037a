SPECIFICATION FairSpec
CONSTANTS
  Threads = {t1, t2}
  Elements = {a, b}
  Capacities = {1, 2}
  MaxSize = 2
  None = none
  LastEvent = 2
  Starts = {1, 2}
  Counts = {1}
  MaxReads = 2
  StartNums = {0, 1}
  Cnts = {1, 2}
  MaxInFlight = 1
  Registers <- MCRegisters
  Pages <- MCPages
  Chunk = 4
  WordSize = 4
  Entered <- MCEntered
  MaxUnanswered = 1
  MaxQueued = 0
  Layouts <- MCLayouts
  Typed <- MCTyped
  WIDTH32 = 12
  BuffBits = 28
  Settings = {"a", "b"}
  Values = {3, 6}
  IntSize = 8
  MaxActs = 2
  MaxStarts = 3
  MaxKills = 1
  MaxLines = 2
  MaxClicks = 2
  MaxFaults = 1
INVARIANTS
  TypeOK
  FlagsAgree
  RangeRead
  
PROPERTIES
  
  BurstCovers
  
  TimersStop
CHECK_DEADLOCK FALSE
