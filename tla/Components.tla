------------------------------ MODULE Components ------------------------------
(***************************************************************************)
(* The components that do not share state with each other, side by side.   *)
(* `part` says which component a behaviour is about, and x1 to x14 stand   *)
(* for that component's variables.  A component with theorems of its own   *)
(* is instantiated together with them; ComponentsProofs carries them over. *)
(***************************************************************************)
EXTENDS Integers, Sequences, FiniteSets, TLC

CONSTANTS
  Parts,  \* the components to check
  None,
  Junk,
  Adapters, RouteJobs, MaxOutcomes,                        \* operator metrics
  MinPct, LatencyThreshold,
  ScoredMetrics,                                           \* the metrics to score
  EventCount, AnchorEvents, Filters, Polls, Limit,         \* event stream
  SeenCap, MaxPerStamp, MaxLate, MaxDrops,
  Jobs, Seeds, Chances, MaxAttempts, MaxCrashes,           \* simulation runs
  MaxFaults,                                               \* and scheduled reconciliation
  Locals,                                                  \* agent runtime
  Workers, Handlers, WorkerOf, MaxJobs,                    \* worker process
  Requests, Environments, Callers, MaxFetches,             \* API access
  Registry, Markets, Adjustment, Base, Quote,              \* router
  MaxQuotes, MaxHops, Costs,
  PolicyPacks,   \* the packs to evaluate
  PolicyContexts,
  LimitsOf,      \* the constants of PolicyEvaluation, when the limits matter
  NamingOf,      \* and when a pack is named, edited and deleted: a record each
  Anchors, BatchSize                                       \* scheduled reconciliation

VARIABLES part, x1, x2, x3, x4, x5, x6, x7, x8, x9, x10, x11, x12, x13, x14

vars == <<part, x1, x2, x3, x4, x5, x6, x7, x8, x9, x10, x11, x12, x13, x14>>

\* A step of a component leaves the variables it does not have alone.
Rest14 == UNCHANGED part
Rest10 == Rest14 /\ UNCHANGED <<x11, x12, x13, x14>>
Rest9 == Rest10 /\ UNCHANGED x10
Rest8 == Rest9 /\ UNCHANGED x9
Rest6 == Rest8 /\ UNCHANGED <<x7, x8>>
Rest5 == Rest6 /\ UNCHANGED x6
Rest4 == Rest5 /\ UNCHANGED x5

NoX11 == x11 = "unused" /\ x12 = "unused" /\ x13 = "unused" /\ x14 = "unused"
NoX10 == x10 = "unused" /\ NoX11
NoX9 == x9 = "unused" /\ NoX10
NoX7 == x7 = "unused" /\ x8 = "unused" /\ NoX9
NoX6 == x6 = "unused" /\ NoX7
NoX5 == x5 = "unused" /\ NoX6
NoX2 == x2 = "unused" /\ x3 = "unused" /\ x4 = "unused" /\ NoX5
NoX3 == x3 = "unused" /\ x4 = "unused" /\ NoX5

----------------------------------------------------------------------------
(* Operator metrics *)

Metrics == INSTANCE OperatorMetrics WITH
  Absent <- None,
  window <- x1, unsettled <- x2, samples <- x3, cache <- x4, route <- x5, agg <- x6

MetricsInit == Metrics!Init /\ NoX7
MetricsStep == part = "metrics" /\ Metrics!Next /\ Rest6
MetricsFairness ==
  /\ WF_vars(part = "metrics" /\ Metrics!Aggregate /\ Rest6)
  /\ WF_vars(part = "metrics" /\ Metrics!AggStep /\ Rest6)
  /\ SF_vars(part = "metrics" /\ Metrics!Inserted /\ Rest6)
  /\ \A a \in Adapters :
       /\ SF_vars(part = "metrics" /\ Metrics!InsertSample(a) /\ Rest6)
       /\ SF_vars(part = "metrics" /\ Metrics!Invalidate(a) /\ Rest6)
       /\ WF_vars(part = "metrics" /\ Metrics!EntryExpires(a) /\ Rest6)
  /\ \A j \in RouteJobs : WF_vars(part = "metrics" /\ Metrics!RouteStep(j) /\ Rest6)

\* An entry filled by a read that lost the race against an invalidation is not
\* served for ever.
StaleEntryGoes == \A a \in Adapters : []<>(part = "metrics" => Metrics!UpToDate(a))

(* The score of a route *)

Score == INSTANCE OperatorScore WITH Absent <- None

ScoreInit == x1 \in ScoredMetrics /\ NoX2

\* A metric that either has a sample in both or in neither.
BothSampled(v, w) == (v = None) = (w = None)

\* Nothing about n is worse than about m: no lower success rate, no higher latency or
\* load, no older bond.
AtLeastAsGood(n, m) ==
  /\ BothSampled(n.successRate, m.successRate) /\ BothSampled(n.p95, m.p95)
  /\ BothSampled(n.unsettled, m.unsettled) /\ BothSampled(n.bondAge, m.bondAge)
  /\ n.bondVerified = m.bondVerified
  /\ m.successRate # None => n.successRate >= m.successRate
  /\ m.p95 # None => n.p95 <= m.p95
  /\ m.unsettled # None => n.unsettled <= m.unsettled
  /\ m.bondAge # None => n.bondAge <= m.bondAge

\* Raising the success rate, lowering latency, load or the age of a bond, or several
\* of these, lets an anchor in where it was let in before and never lowers its score.
BetterNeverScoresWorse ==
  part = "score" =>
    \A m \in ScoredMetrics :
      (AtLeastAsGood(m, x1) /\ ~Score!Blocks(x1.successRate)) =>
        ~Score!Blocks(m.successRate) /\ Score!ScoreAdjustment(m) >= Score!ScoreAdjustment(x1)

----------------------------------------------------------------------------
(* Event stream *)

Stream == INSTANCE EventStreamProofs WITH
  clock <- x1, stamp <- x2, wanted <- x3, open <- x4, start <- x5, cursor <- x6,
  seenIds <- x7, poll <- x8, written <- x9, drops <- x10

StreamInit == Stream!Init /\ NoX11
StreamStep == part = "stream" /\ Stream!Next /\ Rest10
StreamFairness ==
  /\ WF_vars(part = "stream" /\ (\E p \in Polls : Stream!Load(p)) /\ Rest10)
  /\ \A p \in Polls : WF_vars(part = "stream" /\ Stream!Write(p) /\ Rest10)

\* A row that several overlapping polls hand over is written again only when
\* SeenCap ids came in between.
RepeatsAreFarApart == part = "stream" => Stream!RepeatsAreFarApart

\* A connection that wrote an event wrote every earlier one it was asked for.
NoGaps == part = "stream" => Stream!NoGaps

\* No event of an open connection is awaited for ever.
EventArrives == \A e \in 1..EventCount : []<>(part = "stream" => ~Stream!Awaited(e))

----------------------------------------------------------------------------
(* Simulation runs *)

Sims == INSTANCE SimulationRunsProofs WITH
  scenario <- x1, job <- x2, runs <- x3, events <- x4, faults <- x5, lost <- x6

SimsInit == Sims!Init /\ NoX7
SimsStep == part = "sims" /\ Sims!Next /\ Rest6

\* Only a dead worker, or a statement of the catch that fails, leaves a run without
\* an end.
OrphansAreExplained == part = "sims" => Sims!OrphansAreExplained

\* Scenarios that cannot fail succeed and those that must fail fail.
ChancesAreHonoured == part = "sims" => Sims!ChancesAreHonoured

\* The outcome of a run is not taken back or replaced.
ResultIsFinal == [][part = "sims" => Sims!ResultStays]_vars

----------------------------------------------------------------------------
(* Agent runtime *)

Agent == INSTANCE AgentRun WITH
  local <- x1, live <- x2, pc <- x3, result <- x4, status <- x5, queued <- x6,
  events <- x7, seen <- x8, hooked <- x9, lost <- x10

AgentInit == Agent!Init /\ NoX11
AgentStep == part = "agent" /\ Agent!Next /\ Rest10

\* A caller that is told of a failure may submit the intent anew, unless a reply got
\* lost.
FailureIsSafeToRetry == part = "agent" => Agent!FailureIsSafeToRetry

\* An intent whose execution was observed is not reported as pending.
ExecutedIsReported == part = "agent" => Agent!ExecutedIsReported

----------------------------------------------------------------------------
(* Worker process *)

Process == INSTANCE WorkerProcess WITH
  handler <- x1, promise <- x2, memo <- x3, created <- x4, step <- x5, closing <- x6,
  closed <- x7, timedOut <- x8, jobs <- x9

ProcessInit == Process!Init /\ NoX10
ProcessStep == part = "process" /\ Process!Next /\ Rest9
ProcessFairness ==
  /\ WF_vars(part = "process" /\ Process!BeginClose /\ Rest9)
  /\ WF_vars(part = "process" /\ Process!TimesOut /\ Rest9)
  /\ WF_vars(part = "process" /\ Process!CloseEnds /\ Process!Closing = "signing" /\ Rest9)

\* A handler at work finds its resources open, unless closing its worker was given
\* up.
NothingUsedAfterClose == part = "process" => Process!NothingUsedAfterClose

\* Handlers that ask at the same time share one signing client, and the shutdown
\* finds it.
SigningClientIsShared == part = "process" => Process!SigningClientIsShared

\* The shutdown ends, whatever hangs.
ShutdownEnds == (part = "process" /\ x5 = 1) ~> (part = "process" /\ x5 = Process!Over)

----------------------------------------------------------------------------
(* API access *)

Access == INSTANCE Authorization WITH
  env <- x1, cache <- x2, fetches <- x3, request <- x4

AccessInit == Access!Init /\ NoX5
AccessStep == part = "access" /\ Access!Next /\ Rest4

\* The promise of a failed discovery does not stay in the cache.
FailureIsNotKept == part = "access" => Access!FailureIsNotKept

----------------------------------------------------------------------------
(* Router.  The plan it returns goes to the policy engine. *)

Routing == INSTANCE RouterProofs WITH
  market <- x1, usable <- x2, pc <- x3, todo <- x4, quotes <- x5, plans <- x6,
  dropped <- x7, best <- x8

RouterInit == Routing!Init /\ NoX9
RouterStep == part = "router" /\ Routing!Next /\ Rest8

\* Every route through the eligible adapters was quoted, and none beats the one
\* returned.
NothingMissed == part = "router" => Routing!NothingMissed

Engine == INSTANCE PolicyEngine

\* unsupported_route, which is there to catch a disconnected plan, accepts every
\* plan the router returns.
PolicyAcceptsRoutes ==
  (part = "router" /\ x3 = "done") =>
    Engine!UnsupportedRoute([base |-> Base, quote |-> Quote, plan |-> x8.path]) = "pass"

----------------------------------------------------------------------------
(* Policy engine: a pack and the context it is evaluated in *)

PolicyInit ==
  /\ x1 \in PolicyPacks
  /\ x2 \in {c \in PolicyContexts :
               x1.compositions # <<>> => c.venues = {} /\ c.plan[1].adapter = "a"}
  /\ NoX3

Decided(pack) ==
  Engine!Decide(x2, Engine!DefaultConfig, [found |-> TRUE, pack |-> pack])

Config == Engine!EffectiveConfig(Engine!DefaultConfig, Engine!CustomConfig(x1))
Packed == Engine!ApplyPack(Engine!NewEngine, x1)
VerdictOf(id) == Engine!EntryVerdict(Packed, x2, Config, id)

Acyclic ==
  LET C == Engine!Compositions(Packed) IN
  \E rank \in [C -> 1..Cardinality(C)] :
    \A id \in C : \A i \in DOMAIN Packed[id].children :
      Packed[id].children[i] \in C => rank[Packed[id].children[i]] < rank[id]

\* Unless compositions refer to each other in a cycle, one that is a child of
\* another, even several times, counts there for what it is on its own.
NestingIsTransparent ==
  (part = "policy" /\ Acyclic) =>
    \A id \in Engine!Compositions(Packed) :
      Engine!Children(Packed, id) # {} =>
        VerdictOf(id) = Engine!Combine(Packed[id].operator,
                                       {VerdictOf(ch) : ch \in Engine!Children(Packed, id)})

\* The compositions of a pack take permissions away and never give any.
CompositionsOnlyRestrict ==
  part = "policy" =>
    (Decided(x1) = "allowed" => Decided([x1 EXCEPT !.compositions = <<>>]) = "allowed")

\* "Restrict route steps to approved venue adapter ids when configured.": an allowed
\* plan has no step at a venue off the configured list.
VenuesAreRestricted ==
  (part = "policy" /\ Decided(x1) = "allowed" /\ Config.venueAllowlist # {}) =>
    \A i \in DOMAIN x2.plan : x2.plan[i].adapter \in Config.venueAllowlist

----------------------------------------------------------------------------
(* Policy evaluation, twice *)

Limits == INSTANCE PolicyEvaluationProofs WITH
  Intents <- LimitsOf.intents, Packs <- LimitsOf.packs, Contents <- LimitsOf.contents,
  Defaults <- LimitsOf.defaults, ContextOf <- LimitsOf.contextOf, Config <- LimitsOf.config,
  HopsOf <- LimitsOf.hopsOf, MaxRequests <- LimitsOf.requests, MaxEdits <- LimitsOf.edits,
  MaxReleases <- LimitsOf.releases, MaxEvictions <- LimitsOf.evictions,
  payload <- x1, status <- x2, packs <- x3, decision <- x4, job <- x5, handler <- x6,
  request <- x7, executing <- x8, trades <- x9, unsettled <- x10, rows <- x11,
  assigned <- x12, overwritten <- x13, spent <- x14

LimitsInit == Limits!Init
LimitsStep == part = "limits" /\ Limits!Next /\ Rest14

\* Executions that do not overlap keep the limits their decisions were checked
\* against.
CapsHoldAlone == [][part = "limits" => Limits!CapsHoldAlone]_vars

Naming == INSTANCE PolicyEvaluationProofs WITH
  Intents <- NamingOf.intents, Packs <- NamingOf.packs, Contents <- NamingOf.contents,
  Defaults <- NamingOf.defaults, ContextOf <- NamingOf.contextOf, Config <- NamingOf.config,
  HopsOf <- NamingOf.hopsOf, MaxRequests <- NamingOf.requests, MaxEdits <- NamingOf.edits,
  MaxReleases <- NamingOf.releases, MaxEvictions <- NamingOf.evictions,
  payload <- x1, status <- x2, packs <- x3, decision <- x4, job <- x5, handler <- x6,
  request <- x7, executing <- x8, trades <- x9, unsettled <- x10, rows <- x11,
  assigned <- x12, overwritten <- x13, spent <- x14

NamingInit == Naming!Init
NamingStep == part = "naming" /\ Naming!Next /\ Rest14

\* A payload that nobody replaced by an older one names the pack of the latest
\* request and is attributed to the pack it was decided under.
PayloadIsCurrent == part = "naming" => Naming!PayloadIsCurrent

----------------------------------------------------------------------------
(* Scheduled reconciliation *)

Sweep == INSTANCE AnchorSweep WITH
  age <- x1, listed <- x2, checked <- x3, todo <- x4, faults <- x5

SweepInit == Sweep!Init /\ NoX6
SweepStep == part = "sweep" /\ Sweep!Next /\ Rest5
SweepFairness ==
  /\ WF_vars(part = "sweep" /\ Sweep!Tick /\ Rest5)
  /\ WF_vars(part = "sweep" /\ Sweep!CheckNext /\ Rest5)

\* An anchor among the newest ones is not left with an unverified edit of its bond.
NewestAreChecked == \A a \in Anchors : []<>(part = "sweep" => Sweep!Attended(a))

----------------------------------------------------------------------------

MetricValues == Int \cup {None}

ASSUME ComponentsAssumption ==
  /\ Metrics!MetricsAssumption /\ Score!ScoreAssumption /\ Stream!StreamAssumption
  /\ Sims!SimulationAssumption /\ Agent!AgentAssumption /\ Process!ProcessAssumption
  /\ Access!AuthorizationAssumption /\ Routing!RouterAssumption
  /\ Limits!EvaluationAssumption /\ Naming!EvaluationAssumption /\ Sweep!SweepAssumption
  /\ ScoredMetrics \subseteq
       [successRate : MetricValues, p95 : MetricValues, unsettled : MetricValues,
        bondVerified : MetricValues, bondAge : MetricValues]
  /\ \A p \in PolicyPacks :
       /\ p = [rules |-> p.rules, compositions |-> p.compositions]
       /\ None \notin {p, [p EXCEPT !.compositions = <<>>]}
       /\ IsFiniteSet(DOMAIN p.compositions)

Init ==
  /\ part \in Parts
  /\ \/ part = "metrics" /\ MetricsInit
     \/ part = "score" /\ ScoreInit
     \/ part = "stream" /\ StreamInit
     \/ part = "sims" /\ SimsInit
     \/ part = "agent" /\ AgentInit
     \/ part = "process" /\ ProcessInit
     \/ part = "access" /\ AccessInit
     \/ part = "router" /\ RouterInit
     \/ part = "policy" /\ PolicyInit
     \/ part = "limits" /\ LimitsInit
     \/ part = "naming" /\ NamingInit
     \/ part = "sweep" /\ SweepInit

Next ==
  \/ MetricsStep \/ StreamStep \/ SimsStep \/ AgentStep \/ ProcessStep \/ AccessStep
  \/ RouterStep \/ LimitsStep \/ NamingStep \/ SweepStep

Spec ==
  /\ Init /\ [][Next]_vars
  /\ MetricsFairness /\ StreamFairness /\ ProcessFairness /\ SweepFairness

\* Type invariant: that of the component at hand.
TypeOK ==
  /\ part = "metrics" => Metrics!TypeOK
  /\ part = "stream" => Stream!TypeOK
  /\ part = "sims" => Sims!TypeOK
  /\ part = "agent" => Agent!TypeOK
  /\ part = "process" => Process!TypeOK
  /\ part = "access" => Access!TypeOK
  /\ part = "router" => Routing!TypeOK
  /\ part = "limits" => Limits!TypeOK
  /\ part = "naming" => Naming!TypeOK
  /\ part = "sweep" => Sweep!TypeOK
=============================================================================
