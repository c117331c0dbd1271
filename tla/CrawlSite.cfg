CONSTANTS
  Workers = {w1, w2}
  Urls <- WebUrls
  Seed = "root"
  Site <- WebSite
  MaxDepth = 2
  InboxCap = 1
  ChanCap = 1
  RespectRobots = TRUE
  MimeFilters = TRUE
  FetchMayFail = FALSE
  Preloaded = {}
SPECIFICATION CrawlFairSpec
INVARIANTS Complete NothingExtra
PROPERTIES Completes CancelReturns
