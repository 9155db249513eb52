--------------------------- MODULE OperatorMetrics ---------------------------
(***************************************************************************)
(* Operator metrics of one corridor: execution outcomes of the last 24     *)
(* hours, the aggregation job that turns them into metric samples, and the *)
(* Redis cache a live route job reads before it may use an anchor.  Time   *)
(* passes by what it ends: an outcome leaves the 24 hours, a cache entry   *)
(* its TTL.                                                                *)
(***************************************************************************)
EXTENDS Naturals, Sequences, FiniteSets

CONSTANTS
  Adapters,     \* the anchors of the registry
  RouteJobs,    \* live route jobs in progress at a time
  MaxOutcomes,  \* bound: outcomes of an anchor within 24 hours
  Absent        \* undefined: no sample

MetricsAssumption == MaxOutcomes \in Nat \ {0} /\ Absent \notin Nat

VARIABLES
  window,     \* the outcomes telemetry holds of the last 24 hours, oldest first
  unsettled,  \* the anchors with an execution that has not settled
  samples,    \* the latest operator.success_rate sample
  cache,      \* opmetrics:<adapter>:<corridor> in Redis
  route,      \* the route jobs and the executions they lead to
  agg         \* the aggregation job

vars == <<window, unsettled, samples, cache, route, agg>>

Rates == 0..100
Values == Rates \cup {Absent}

NoEntry == [entry |-> FALSE, rate |-> Absent]
Entry(v) == [entry |-> TRUE, rate |-> v]

Blocked(v) == v # Absent /\ v < 80

\* Where a job stands with the metrics of one anchor.
Ask == [at |-> "get", rate |-> Absent]
Missed == [at |-> "read", rate |-> Absent]
Read(v) == [at |-> "set", rate |-> v]
Have(v) == [at |-> "have", rate |-> v]

IdleRoute == [pc |-> "idle", fetch |-> [a \in Adapters |-> Ask], adapter |-> Absent]
IdleAgg == [pc |-> "idle", rates |-> [a \in Adapters |-> Absent], todo |-> {},
            touched |-> {}]

Init ==
  /\ window = [a \in Adapters |-> <<>>]
  /\ unsettled = {}
  /\ samples = [a \in Adapters |-> Absent]
  /\ cache = [a \in Adapters |-> NoEntry]
  /\ route = [j \in RouteJobs |-> IdleRoute]
  /\ agg = IdleAgg

Successes(w) == Cardinality({i \in DOMAIN w : w[i]})
SuccessRate(w) == (100 * Successes(w)) \div Len(w)

----------------------------------------------------------------------------
(* Route jobs *)

RouteStart(j) ==
  /\ route[j].pc = "idle"
  /\ route' = [route EXCEPT ![j].pc = "fetch"]
  /\ UNCHANGED <<window, unsettled, samples, cache, agg>>

At(j, a, where) == route[j].pc = "fetch" /\ route[j].fetch[a].at = where
Fetched(j, a, f) == route' = [route EXCEPT ![j].fetch[a] = f]

CacheGet(j, a) ==
  /\ At(j, a, "get")
  /\ Fetched(j, a, IF cache[a].entry THEN Have(cache[a].rate) ELSE Missed)
  /\ UNCHANGED <<window, unsettled, samples, cache, agg>>

\* The latest sample, however old it is.
ReadSamples(j, a) ==
  /\ At(j, a, "read")
  /\ Fetched(j, a, Read(samples[a]))
  /\ UNCHANGED <<window, unsettled, samples, cache, agg>>

CacheSet(j, a) ==
  /\ At(j, a, "set")
  /\ cache' = [cache EXCEPT ![a] = Entry(route[j].fetch[a].rate)]
  /\ Fetched(j, a, Have(route[j].fetch[a].rate))
  /\ UNCHANGED <<window, unsettled, samples, agg>>

\* Redis or the database fails: .catch(() => null), and no metric blocks.
FetchFails(j, a) ==
  /\ route[j].pc = "fetch" /\ route[j].fetch[a].at # "have"
  /\ Fetched(j, a, Have(Absent))
  /\ UNCHANGED <<window, unsettled, samples, cache, agg>>

Usable(j) == {a \in Adapters : ~Blocked(route[j].fetch[a].rate)}

\* The router takes one of the anchors it may use, or throws when there is none.
RoutePlan(j) ==
  /\ \A a \in Adapters : At(j, a, "have")
  /\ \/ \E a \in Usable(j) :
          route' = [route EXCEPT ![j] = [IdleRoute EXCEPT !.pc = "execute", !.adapter = a]]
     \/ /\ Usable(j) = {}
        /\ route' = [route EXCEPT ![j] = IdleRoute]
  /\ UNCHANGED <<window, unsettled, samples, cache, agg>>

\* The outcome is inserted without being awaited, and may be lost.
Outcome(a, ok) ==
  \/ UNCHANGED window
  \/ /\ Len(window[a]) < MaxOutcomes
     /\ window' = [window EXCEPT ![a] = Append(@, ok)]

Settles(a, ok) == unsettled' \in {unsettled} \cup (IF ok THEN {unsettled \cup {a}} ELSE {})

Execute(j, ok) ==
  /\ route[j].pc = "execute"
  /\ Outcome(route[j].adapter, ok)
  /\ Settles(route[j].adapter, ok)
  /\ route' = [route EXCEPT ![j] = IdleRoute]
  /\ UNCHANGED <<samples, cache, agg>>

\* A simulate-mode intent is routed without profiles and records its outcome too.
Simulated(a, ok) ==
  /\ Outcome(a, ok)
  /\ window' # window
  /\ UNCHANGED <<unsettled, samples, cache, route, agg>>

----------------------------------------------------------------------------
(* The aggregation job *)

Aggregate ==
  /\ agg.pc = "idle"
  /\ LET rows == {a \in Adapters : window[a] # <<>>} IN
     agg' = [pc |-> "insert",
             rates |-> [a \in Adapters |-> IF a \in rows THEN SuccessRate(window[a])
                                           ELSE Absent],
             todo |-> rows,
             touched |-> rows \cup unsettled]
  /\ UNCHANGED <<window, unsettled, samples, cache, route>>

InsertSample(a) ==
  /\ agg.pc = "insert" /\ a \in agg.todo
  /\ samples' = [samples EXCEPT ![a] = agg.rates[a]]
  /\ agg' = [agg EXCEPT !.todo = @ \ {a}]
  /\ UNCHANGED <<window, unsettled, cache, route>>

Inserted ==
  /\ agg.pc = "insert" /\ agg.todo = {}
  /\ agg' = [agg EXCEPT !.pc = "invalidate", !.todo = agg.touched]
  /\ UNCHANGED <<window, unsettled, samples, cache, route>>

\* A failed invalidation is ignored.
Invalidate(a) ==
  /\ agg.pc = "invalidate" /\ a \in agg.todo
  /\ cache' \in {cache, [cache EXCEPT ![a] = NoEntry]}
  /\ agg' = [agg EXCEPT !.todo = @ \ {a}]
  /\ UNCHANGED <<window, unsettled, samples, route>>

AggregateEnds ==
  /\ \/ agg.pc = "invalidate" /\ agg.todo = {}
     \/ agg.pc = "insert"       \* an insert throws or the process dies
  /\ agg' = IdleAgg
  /\ UNCHANGED <<window, unsettled, samples, cache, route>>

----------------------------------------------------------------------------
(* Time *)

OutcomeAges(a) ==
  /\ window[a] # <<>>
  /\ window' = [window EXCEPT ![a] = Tail(@)]
  /\ UNCHANGED <<unsettled, samples, cache, route, agg>>

\* Mutant of Expires: the entry is set without a TTL.
NeverExpires(a) == FALSE

Expires(a) == cache[a].entry
EntryExpires(a) ==
  /\ Expires(a)
  /\ cache' = [cache EXCEPT ![a] = NoEntry]
  /\ UNCHANGED <<window, unsettled, samples, route, agg>>

RouteStep(j) ==
  \/ RouteStart(j) \/ RoutePlan(j)
  \/ \E a \in Adapters : CacheGet(j, a) \/ ReadSamples(j, a) \/ CacheSet(j, a) \/ FetchFails(j, a)
  \/ \E ok \in BOOLEAN : Execute(j, ok)

AggStep ==
  \/ Aggregate \/ Inserted \/ AggregateEnds
  \/ \E a \in Adapters : InsertSample(a) \/ Invalidate(a)

Next ==
  \/ \E j \in RouteJobs : RouteStep(j)
  \/ AggStep
  \/ \E a \in Adapters : OutcomeAges(a) \/ EntryExpires(a)
  \/ \E a \in Adapters, ok \in BOOLEAN : Simulated(a, ok)

Spec == Init /\ [][Next]_vars

\* The repeated job keeps running and gets through now and then, a job in
\* progress goes on, and time passes.
FairSpec ==
  /\ Spec
  /\ WF_vars(Aggregate) /\ SF_vars(Inserted) /\ WF_vars(AggStep)
  /\ \A a \in Adapters : SF_vars(InsertSample(a)) /\ SF_vars(Invalidate(a))
  /\ \A j \in RouteJobs : WF_vars(RouteStep(j))
  /\ \A a \in Adapters : WF_vars(EntryExpires(a))

----------------------------------------------------------------------------
(* Properties *)

FetchTypes == [at : {"get", "read", "set", "have"}, rate : Values]

RouteTypes ==
  [pc : {"idle", "fetch"}, fetch : [Adapters -> FetchTypes], adapter : {Absent}]
    \cup [pc : {"execute"}, fetch : [Adapters -> FetchTypes], adapter : Adapters]

\* Type invariant: what is executed has an anchor.
TypeOK ==
  /\ window \in [Adapters -> Seq(BOOLEAN)]
  /\ \A a \in Adapters : Len(window[a]) <= MaxOutcomes
  /\ unsettled \subseteq Adapters
  /\ samples \in [Adapters -> Values]
  /\ cache \in [Adapters -> [entry : BOOLEAN, rate : Values]]
  /\ route \in [RouteJobs -> RouteTypes]
  /\ agg \in [pc : {"idle", "insert", "invalidate"}, rates : [Adapters -> Values],
              todo : SUBSET Adapters, touched : SUBSET Adapters]

\* An entry filled by a read that lost the race against an invalidation is not
\* served for ever, even when the anchor has left the aggregation and nothing
\* invalidates it again.
UpToDate(a) == cache[a] = NoEntry \/ cache[a].rate = samples[a]
StaleEntryGoes == \A a \in Adapters : []<>UpToDate(a)
=============================================================================
