CONSTANTS
  Index = {i1, i2}
  MaxRestarts = 1
  FuseWindow = 1
  StuckTimeout = 1
  Gone = Gone
  Plugin = {p1, p2}
  Task = {t1, t2}
  MaxSubprocesses = 1
  MaxCrashRestarts = 1
  MaxMishaps = 1
  Nobody = Nobody
  MaxRetries = 2
  Proxy = {x1, x2}
  NoProxy = NoProxy
  PlainRetries = 2
  Site = {"a", "b"}
  SeedSites = {"a"}
  Doc = {"i", "j", "x", "y"}
  Candidates <- SomeCandidates
  Children <- SomeChildren
  Entries <- SomeEntries
  MaxRecursion = 1
  MaxUrls = 1
  FetchSlots = 1
  Crew = {w1}
  Leaf = {"p", "r"}
  ContentOf <- Texts
  Blank = "blank"
  BufferSize = 2
  MaxTroubles = 1
  MaxStarts = 1
  MaxCrawls = 2
  MaxClicks = 3
  Url = {u1, u2}
  DomainOf <- OneDomain
  QueueMax = 1
  Depth = {0}
  RetryLimit = {0, 1}
  None = None
  Layer = 0
  Landing <- AnyLanding
  MaxRuns = 2
  MaxPlan = 2
  MaxDone = 2
  Pages <- DialogPages
  Kind <- DialogKinds
  NoOne = NoOne
  MaxWorkers = 2
  MaxOpenings = 2
SPECIFICATION FairTasksSpec
INVARIANTS TasksTypeOK FuseBound SlotsHeld OwnReply NothingLeft PathKept BothPathsTried DiscoverySound GuiKnows TalliesMatch DialogSound
PROPERTIES EveryUseEnds NothingHangs
CHECK_DEADLOCK FALSE
