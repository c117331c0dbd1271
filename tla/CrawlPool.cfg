CONSTANTS
  Workers = {w1, w2, w3}
  Urls <- FtpUrls
  Seed = "root"
  Site <- FtpSite
  MaxDepth <- NoLimit
  InboxCap = 1
  ChanCap = 1
  RespectRobots = FALSE
  MimeFilters = FALSE
  FetchMayFail = TRUE
  Preloaded = {}
SYMMETRY Symmetry
SPECIFICATION CrawlSpec
INVARIANTS PendingExact ClosedAfterLastSend NoDoubleDownload
PROPERTY ImplementsPool
