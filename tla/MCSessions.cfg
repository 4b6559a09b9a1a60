CONSTANTS
  a = a
  b = b
  c = c
  Url <- Pair
  DomainOf <- PairHost
  Links <- PairLinks
  Redirects <- PairRedirects
  Seeds <- JustA
  Worker = {w1}
  Depth = {0, 1, 2}
  None = None
  SitemapUrls <- JustB
  QueueMax = 1
  DepthLimit = {1, 2}
  RetryLimit = {0, 1}
  MaxSessions = 2
  MaxFaults = 1
SPECIFICATION EngineSpec
PROPERTY StoreSpec
CHECK_DEADLOCK FALSE
