CONSTANTS
  Workers = {w1, w2}
  Urls <- DepthUrls
  Seed = "root"
  Site <- DepthSite
  MaxDepth = 2
  InboxCap = 1
  ChanCap = 1
  RespectRobots = FALSE
  MimeFilters = FALSE
  FetchMayFail = FALSE
  Preloaded = {}
SYMMETRY Symmetry
SPECIFICATION CrawlSpec
INVARIANTS Complete
