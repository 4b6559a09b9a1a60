CONSTANTS
  a = a
  b = b
  c = c
  Url <- Site
  DomainOf <- Host
  Links <- PageLinks
  Redirects <- PageRedirects
  Seeds <- JustA
  Worker = {w1, w2}
  Depth = {0, 1, 2}
  None = None
  SitemapUrls <- NoUrl
  QueueMax = 2
  DepthLimit = {2}
  RetryLimit = {1}
  MaxSessions = 1
  MaxFaults = 0
SPECIFICATION FairEngineSpec
INVARIANTS EngineTypeOK OneOwner NoneStranded
PROPERTY CrawlEnds
CHECK_DEADLOCK FALSE
