CONSTANTS
  Urls <- SomeUrls
  Canon <- Keys
  Long <- LongKeys
  DiskMayFail = TRUE
  MaxRuns = 2
  Seed <- SeedUrl
  FollowExternal = TRUE
  Paths <- ShortPaths
  SeedPaths <- SomeSeeds
  Hosts <- SomeHosts
  Trees <- SomeTrees
  MaxVisits = 3
SPECIFICATION MirrorSpec
INVARIANTS ListingsExact KeysExact SubtreeOnly OutputInside OneFileEach
PROPERTIES SavedWhole GrowsOnly
