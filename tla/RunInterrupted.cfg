CONSTANTS
  Workers = {w1, w2}
  Urls <- Tree
  Seed = "root"
  Site <- TreeSite
  MaxDepth <- NoLimit
  InboxCap = 1
  ChanCap = 1
  RespectRobots = FALSE
  MimeFilters = FALSE
  FetchMayFail = FALSE
  Preloaded = {}
  Malformed = {}
  Sinks = {"aria2"}
  SessionSize = 2
  StreamingAuto = FALSE
  PipeCap = 1
  OpenMayFail = FALSE
  AriaMayFail = FALSE
  FileMayFail = FALSE
  MayCancel = TRUE
  SftpgoSeed = FALSE
  PreludeMayFail = FALSE
SPECIFICATION Spec
INVARIANT SavedWasHandedOver
CHECK_DEADLOCK FALSE
