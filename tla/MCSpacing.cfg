CONSTANTS
  Visitor = {v1, v2, v3}
  MaxConcurrency = 2
  Intervals = {1, 2}
  CrawlDelay = 3
  LongestDelay = 3
  StaleTtl = 2
SPECIFICATION ThrottleSpec
PROPERTY FetchesSpaced
