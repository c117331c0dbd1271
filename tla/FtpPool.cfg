CONSTANTS
  Workers = {w1, w2, w3}
  Keys = {k1, k2}
  Conns = {c1, c2, c3}
  PoolSize = 2
  MaxLists = 1
  ListMayFail = TRUE
  DialMayFail = TRUE
  NoConn = NoConn
SPECIFICATION FairSpec
INVARIANTS TokensExact ExclusiveUse ConnectionLimit NoneLeaked
PROPERTY ListingEnds
