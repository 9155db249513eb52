SPECIFICATION Spec
CONSTANTS
  Parts = {"metrics", "score", "stream", "sims", "agent", "process", "access", "router", "policy",
           "limits", "naming", "sweep"}
  None = None
  Junk = Junk
  Adapters = {"a1"}
  RouteJobs = {"j1"}
  MaxOutcomes = 2
  MinPct = 90
  LatencyThreshold = 100
  ScoredMetrics <- MCScoredMetrics
  EventCount = 6
  AnchorEvents = {2}
  Filters <- MCFilters
  Polls = {"p1", "p2"}
  Limit = 2
  SeenCap = 4
  MaxPerStamp = 1
  MaxLate = 1
  MaxDrops = 1
  Jobs = {"j1"}
  Seeds <- MCSeeds
  Chances = {0, 58560, 233280}
  MaxAttempts = 2
  MaxCrashes = 1
  MaxFaults = 1
  Locals = {TRUE, FALSE}
  Workers <- MCWorkers
  Handlers = {"h1", "h2", "h3"}
  WorkerOf <- MCWorkerOf
  MaxJobs = 4
  Requests = {"q1", "q2"}
  Environments <- MCEnvironments
  Callers <- MCCallers
  MaxFetches = 2
  Registry <- MCRegistry
  Markets <- MCMarkets
  Adjustment <- MCAdjustment
  Base = "X"
  Quote = "Z"
  MaxQuotes = 2
  MaxHops = 2
  Costs = {0, 1}
  PolicyPacks <- MCPolicyPacks
  PolicyContexts <- MCPolicyContexts
  LimitsOf <- MCLimitsOf
  NamingOf <- MCNamingOf
  Anchors = {"a1", "a2", "a3"}
  BatchSize = 2
CHECK_DEADLOCK FALSE
INVARIANTS TypeOK BetterNeverScoresWorse RepeatsAreFarApart NoGaps OrphansAreExplained ChancesAreHonoured FailureIsSafeToRetry NothingUsedAfterClose SigningClientIsShared FailureIsNotKept NothingMissed PolicyAcceptsRoutes NestingIsTransparent CompositionsOnlyRestrict PayloadIsCurrent
PROPERTIES StaleEntryGoes EventArrives ResultIsFinal CapsHoldAlone NewestAreChecked ShutdownEnds
