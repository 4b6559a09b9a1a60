CONSTANTS
  a = a
  b = b
  c = c
  Url <- Pair
  DomainOf <- PairHost
  Links <- PairLinks
  Redirects <- PairRedirects
  Seeds <- JustA
  Worker = {w1, w2}
  Depth = {0, 1, 2}
  None = None
  SitemapUrls <- NoUrl
  QueueMax = 1
  DepthLimit = {2}
  RetryLimit = {1}
  MaxSessions = 1
  MaxFaults = 1
SPECIFICATION FairEngineSpec
INVARIANT ClosedClean
PROPERTY StopEnds
CHECK_DEADLOCK FALSE
