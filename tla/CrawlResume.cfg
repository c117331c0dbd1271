CONSTANTS
  Workers = {w1, w2}
  Urls <- DepthUrls
  Seed = "root"
  Site <- DepthSite
  MaxDepth <- NoLimit
  InboxCap = 1
  ChanCap = 1
  RespectRobots = FALSE
  MimeFilters = FALSE
  FetchMayFail = FALSE
  Preloaded = {"root"}
SYMMETRY Symmetry
SPECIFICATION CrawlSpec
INVARIANTS ResumeComplete
