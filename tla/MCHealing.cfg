CONSTANTS
  a = a
  b = b
  c = c
  Url <- Site
  DomainOf <- Host
  Links <- PageLinks
  Redirects <- PageRedirects
  Seeds <- JustA
  Worker = {w1, w2}
  Depth = {0, 1, 2}
  None = None
  SitemapUrls <- NoUrl
  QueueMax = 3
  DepthLimit = {2}
  RetryLimit = {1}
  MaxSessions = 2
  MaxFaults = 0
SPECIFICATION HistorySpec
INVARIANT LostChildrenHealed
CHECK_DEADLOCK FALSE
