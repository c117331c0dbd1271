CONSTANTS
  a = a
  b = b
  c = c
  bad = bad
  Urls <- Three
  Malformed = {}
  ChanCap = 2
  PipeCap = 1
  Sinks = {"aria2"}
  SessionSize = 0
  StreamingAuto = FALSE
  LinesCap = 1
  MaxPrinted = 0
  OpenMayFail = FALSE
  AriaMayFail = TRUE
  FileMayFail = FALSE
  MayCancel = FALSE
SPECIFICATION StageFairSpec
PROPERTY ExecutorReturns
CHECK_DEADLOCK FALSE
