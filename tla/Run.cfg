CONSTANTS
  Workers = {w1, w2}
  Urls <- Tree
  Seed = "root"
  Site <- TreeSite
  MaxDepth <- NoLimit
  InboxCap = 1
  ChanCap = 1
  RespectRobots = FALSE
  MimeFilters = FALSE
  FetchMayFail = FALSE
  Preloaded = {}
  Malformed = {}
  Sinks = {"aria2", "file"}
  SessionSize = 2
  StreamingAuto = FALSE
  PipeCap = 1
  OpenMayFail = TRUE
  AriaMayFail = TRUE
  FileMayFail = TRUE
  MayCancel = TRUE
  SftpgoSeed = TRUE
  PreludeMayFail = TRUE
SPECIFICATION FairSpec
INVARIANTS SuccessMeansComplete ExitTells NothingLeftRunning
PROPERTIES BatchAsSpecified RunReturns
CHECK_DEADLOCK FALSE
