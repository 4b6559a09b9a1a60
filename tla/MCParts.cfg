CONSTANTS
  Url = {u1, u2}
  DomainOf <- OneDomain
  QueueMax = 1
  Depth = {0}
  RetryLimit = {1}
  None = None
  Visitor = {v1, v2, v3}
  MaxConcurrency = 2
  Intervals = {1}
  CrawlDelay = 2
  LongestDelay = 2
  StaleTtl = 1
  FailureThreshold = 3
  Cooldown = 2
  TrialTime = 2
  TrialFailures = 2
  Weight = {1, 3}
  Request = {r1, r2}
  Concurrency = 1
  Slots = 2
  Origin = {o1, o2, o3}
  Caller = {c1, c2, c3}
  Ttl = 2
  CacheMax = 2
  FetchMax = 1
  MaxCancels = 1
  Agent = {"ours", "*", "other"}
  Rule = {"short", "long", "same"}
  Length <- RuleLengths
  Path = {"deep", "flat"}
  Matches <- RulePaths
  Delay = {4, 5}
  MaxDelay = 4
  MaxLines = 4
  Owner = {p1, p2, p3}
  Offers <- ManyOffers
  DefaultOrder <- DefOrd
  Nothing = "none"
  Process = {q1, q2}
  Change = {k1, k2}
  Damaged = Damaged
  NoProcess = NoProcess
  MaxMishap = 2
  Crew = {w1, w2}
  Leaf = {"p", "q", "r"}
  ContentOf <- SomeTexts
  Blank = "blank"
  BufferSize = 2
  MaxTroubles = 1
  MaxStarts = 2
  Package = {1, 2, 3}
  Needs <- SomeGraphs
  Kinds <- SomeSorts
  Policy = {"none", "dangerous"}
  Optional = {"probes", "sitemaps", "diagnostics"}
  MaxUpsets = 3
  Mod = {"i", "p", "q", "l", "x", "y", "socket", "os"}
  Cause = {"socket", "os"}
  Inner <- SomeInner
  Starts <- SomeStarts
  LastName <- SomeNames
  Graphs <- SomeImports
  Grants <- SomeGrants
  Version <- SomeVersions
  Unscanned = Unscanned
  MaxWritten = 4
  MaxUnread = 2
  RuleFile <- Files
  Shelf <- Shelves
  Page = {"shallow", "deep", "else"}
  HostOf <- Hosts
  Above <- HostsAbove
  FitsPages <- Fits
  Size <- Sizes
  NameRank <- Ranks
  MaxRules = 2
  MaxGeneric = 1
  NoFile = NoFile
  MaxAnswers = 4
  Source = {"s", "t"}
  Manager = {"crawl", "tool"}
  Nobody = Nobody
  Absent = Absent
  User = User
  DegradeAfter = 2
  DailyLimit = 3
  MaxEdition = 2
  MaxEvents = 3
  Thread = {"x"}
  Task = {"y"}
  Capacity = 1
  TokenTicks = 2
  AiConcurrency = 1
  MaxWait = 2
  Label = {"p", "q"}
  Consumer = {"ai", "source"}
  EndLists <- EndpointLists
  Dir = {"d", "e", "f"}
  MaxPaths = 2
  Missing = Missing
  MaxEdits = 2
  MaxCommands = 1
  RuleText <- DeskRules
  Shipped <- ShippedRules
  Home <- HomePlaces
  Extra <- ExtraPlaces
  NoRule = NoRule
  NoState = NoState
  Free = Free
  MaxDesk = 3
  MaxPages = 2
  MaxPanels = 2
  MaxCalls = 2
  SettingFile <- SomeFiles
  EnvLayer <- SomeEnvs
  FlagLayer <- SomeFlags
  SetLayer <- SomeSets
  ProfileName = {"p"}
  Words = {"site", "dialog", "prefs", "file", "env", "flag", "set", "other", "direct_only", "proxy_only", "prefer_direct", "prefer_proxy"}
  NotSaid = NotSaid
  Junk = Junk
  MaxSteps = 3
  Signings <- SomeSignings
  WheelCount = 3
  SignedBy <- SomeWheels
  SideFiles <- SomeSides
  NoHash = NoHash
  NoPin = NoPin
  MaxChanges = 2
  Stream = {s1, s2}
  CallId = {"a", "b", "c"}
  Speech <- SomeSpeech
  ClientKind = {"openai", "anthropic", "google"}
  MaxOpened = 2
  Job = {j1, j2}
  FieldSets <- SomeFields
  FindsOnPage <- Finds
  PoolThreads = 1
  FallbackDepth = 3
  Provider = {"openai", "anthropic", "google"}
  ModelAnswer <- SomeAnswers
  MaxAttempts = 3
  MaxMakings = 1
SPECIFICATION PartsSpec
INVARIANTS PartsTypeOK QueueInFlightDisjoint PermitsSafe BreakerSound CapacityKept SenderServed NothingRunsOn RobotsSound RegistrySound PluginsSound AdmissionSound OutputKept RunClosesUp RulesSound WindowsSound SourcesKept ProfilesAndCalls LayersSound
PROPERTIES CompletedStaysDone LedgerSpec
CHECK_DEADLOCK FALSE
