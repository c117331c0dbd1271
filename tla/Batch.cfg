CONSTANTS
  a = a
  b = b
  c = c
  bad = bad
  Urls <- Four
  Malformed = {bad}
  ChanCap = 2
  PipeCap = 1
  Sinks = {"aria2", "file", "discard"}
  SessionSize = 2
  StreamingAuto = TRUE
  LinesCap = 1
  MaxPrinted = 3
  OpenMayFail = TRUE
  AriaMayFail = TRUE
  FileMayFail = TRUE
  MayCancel = TRUE
SPECIFICATION StageFairSpec
INVARIANTS  SessionsInTurn PipeFaithful ProbeSound NilMeansDelivered
PROPERTY ReturnsIfRead
CHECK_DEADLOCK FALSE
