# Verification of keeta-agent-stack

TLA+ models of the backend of keeta-agent-stack, the TLC runs that check them on
small instances, and TLAPS proofs, for every size, of each invariant and each action
property that the passing runs check. Each definition is translated from the source; `PROJECT.json` maps it to
the lines it stands for. Paths below are relative to `src/`.

Contents: [the system](#the-system) · [modules](#modules) · [pipeline](#the-intent-pipeline) ·
[webhooks](#webhook-delivery) · [anchors](#payment-anchors) ·
[the other components](#the-other-components) · [proofs](#what-is-proved) ·
[findings](#where-code-and-documentation-disagree) · [limits](#what-is-not-modelled) ·
[what is left](#what-is-left)

To repeat everything: `tlc -config X.cfg M` for each run of `PROJECT.json`, `tlapm M.tla`
for the eight modules named `*Proofs`.

## The system

A TypeScript monorepo. A Fastify API (`apps/api`) writes Postgres rows (drizzle,
`packages/storage`) and adds BullMQ jobs; a worker process (`apps/worker/src/run.ts`)
consumes them, calls venue adapters, and writes rows. Several API and worker processes
share one Postgres and one Redis; there is no other coordination. Nearly every handler
has the form *read a row, await, decide, update the row by id*; the interesting
behaviour is what happens between the await and the update.

| Component | State | Operations | Hard part | What makes it correct |
|---|---|---|---|---|
| Intent lifecycle (`types/schemas/lifecycle.ts`) | status enumeration, transition table | `canTransition` | the table is consulted with a status read earlier | status changes only along the table |
| Intent pipeline (`routes/intents.ts`, `run.ts`, `config/bullmq.ts`) | intents, plans, overrides, decisions, executions, journal; jobs with fixed ids; kill switch, paused strategies | create, quote/route/policy/execute stages, approve, hold, release, override | retries, stalls, lost locks, retained jobs, operators racing handlers, a venue reply lost | no submission without approval and decision; none over an open execution; executed means every hop is recorded |
| Webhook delivery (`run.ts`, `repositories/webhooks.ts`) | cursor setting, delivery rows, subscriptions | a repeated tick: fan out, list due, post, mark | overlapping ticks, ticks that die, equal and late `created_at`, blind cursor and row updates | no event skipped, every delivery ends, bounded posts, delivered is final |
| Payment anchors and bonds (`routes/anchors.ts`, `types/schemas/payment-anchor.ts`, `run.ts`, `keeta/anchor-bonds.ts`) | anchor row, bond rows | reconciliation tick, onboarding job, status/bond/anchor PATCH | three kinds of writers with stale reads; a batch limit | the verified column is backed; onboarding comes to rest; router and policy agree |
| Worker process (`run.ts`) | the shared signing client, resources open or closed | make the client, shut down | handlers at work while resources are closed one after the other | nothing is used after its close; the shutdown ends |
| Simulation runs (`routes/simulations.ts`, `packages/simulator`) | run rows, result rows | run, complete, store the result, fail | status and result are written apart; a signed remainder | a reader can tell what happened; the outcome is the one drawn |
| Operator metrics (`operator-metrics-cache.ts`) | metric samples, a read-through Redis cache | aggregate, invalidate, read, score | a fill races an invalidation; piecewise scores | a stale entry goes; better metrics never score worse |
| Policy engine and packs (`packages/policy`, `routes/policy-admin.ts`, `run.ts`) | packs, registry, the payload column | evaluate, name, edit, delete a pack | all/any/not over a graph; counters read when the policy is evaluated; two writers of one JSON column | compositions only restrict; limits hold without overlap; the payload is current |
| Router (`packages/routing`) | none after a call | discover, enumerate, quote, score | search bounds, failing quotes | every admissible route is quoted, the best returned |
| Event stream (`routes/events.ts`) | per connection: cursor, seen ids | poll, write | overlapping polls, late commits, a limit applied before the filter | each event once, none skipped |
| Agent runtime (`packages/agent-runtime`) | none after a call | post all stages, wait for a terminal event | lost replies, events nobody writes | what is reported is what happened |
| API authentication (`lib/auth.ts`) | the cached OIDC discovery promise | authorize | a failed promise shared by concurrent requests | a failure is not kept |
| Settlement reconciliation, metrics sampler, stuck-job sweep, telemetry flush, dead-letter logger | write-only rows | repeated ticks | none: no other component reads what they write | - |
| Keeta transfer and venue adapters | none here | execute, submit with retry | a submit whose reply is lost | decided by the Keeta network |
| Custody guards, MCP server, SDK, dashboard, docs | none | checks of configuration, request wrappers, views | none: request-local | - |

Interactions: the API adds jobs and the pipeline's workers read what the API's routes
write (approval, hold, pause, kill switch, override); the route stage calls the router,
which reads anchors and cached metrics; the policy stage reads packs, anchors, bonds and
execution rows; the pipeline's transactions write the audit events that webhook ticks and
the event stream read by `created_at`; agents are clients of the API and the stream;
operators are the environment of all of them.

## Modules

| Module | What it is |
|---|---|
| `Lifecycle` | the status table of `lifecycle.ts` |
| `IntentPipeline` | API routes, the four queues, the workers and the execute worker's failed listener |
| `IntentGate` | what the pipeline promises: cleared, then sent hop by hop, then settled |
| `WebhookDelivery` | the delivery tick, the events it reads, the endpoint |
| `PaymentAnchors` | one anchor with its bonds, the two anchor queues, the operator routes |
| `AnchorSweep` | which anchors a scheduled reconciliation lists |
| `WorkerProcess` | the signing client and the shutdown of one worker process |
| `SimulationRuns` | the simulation job and the generator behind its outcome |
| `OperatorMetrics`, `OperatorScore` | samples, cache and aggregation; the score as a function |
| `PolicyRules`, `PolicyEngine` | every default rule; packs, compositions and the decision (operators, no state) |
| `PolicyEvaluation` | the policy job, the requests that name a pack, the rows limits are counted over |
| `Router` | `buildPlans` |
| `EventStream` | one connection of `GET /events/stream` |
| `AgentRun` | `execute` of an agent, against workers that take jobs in any order |
| `Authorization` | `authorizeRequest` and the shared discovery |
| `Components` | the components that share no state with the pipeline, side by side, and what is asked of each |
| `MCIntentPipeline`, `MCWebhookDelivery`, `MCPaymentAnchors`, `MCComponents` | the instances TLC checks |
| `IntentPipelineProofs`, `WebhookDeliveryProofs`, `PaymentAnchorsProofs`, `SimulationRunsProofs`, `PolicyEvaluationProofs`, `RouterProofs`, `EventStreamProofs` | the theorems about one module |
| `ComponentsProofs` | the theorems about `Components`, with the proofs about `WorkerProcess`, `Authorization`, `AgentRun`, `OperatorMetrics`, `OperatorScore`, `AnchorSweep` and `PolicyEngine` |

`IntentPipeline` composes `Lifecycle` (EXTENDS) and implements `IntentGate` (INSTANCE with
a refinement mapping). `PolicyEvaluation` decides with `PolicyEngine`, and `Components` hands
the router's plans to the engine's `UnsupportedRoute`. The other components touch the
pipeline only through data that the models take as input: events appear in any order the
database can produce, and to `IntentPipeline` a policy decision is any Boolean.

A handler is split at its awaits. What it read before an await sits in its `run`,
`handler` or `request` record and may be stale when a later step uses it. A database
transaction is one step. Each `Mutant of X` operator is a plausible bug: substituting it
for `X` makes TLC find the property named in `PROJECT.json` violated.

The components without an MC module of their own are twelve instances inside
`Components`: the variable `part` says which instance a behaviour is about and never
changes, `x1` to `x14` stand for that instance's variables, and each property is that of the
instance, conditional on `part`. Their state spaces therefore add up, and do not multiply.
`MCComponents` has the values of the constants only. A behaviour of `Components` is one of
the instance that `part` names, so a theorem about that module carries over: a component with
a proof module is instantiated together with its theorems.

## The intent pipeline

### State and actions

| Model | Code |
|---|---|
| `status`, `approval` | `execution_intents.status`, `.approval_status` |
| `plans`, `override` | `route_plans` in order (a plan is its number of hops), latest `route_overrides` |
| `decisions`, `decision` | `policy_decisions`, the latest |
| `rows`, `lastRow`, `journal` | `executions` (plan, step, outcome), the latest, `execution_journal_entries` |
| `killSwitch`, `paused` | `system_settings`, strategies |
| `job`, `deadLetters` | the BullMQ job `<stage>-<intent>`; `job_failures` and the dead-letter queue |
| `run`, `request` | handler activations; a hold or release request in progress |
| `abandoned` | intents with an `execution.dedup_skipped` audit row, or whose `failed` listener was cut off (history, read by `ExecuteReachesVerdict` only) |
| `published` | how often the venue really carried out a step (not visible to the code) |

`Pickup`, `Ack`, `Retried`, `Stalled`, `Evict`, `LoseLock`, `Crash` are BullMQ as `bullmq.ts`
configures it: bounded attempts, `maxStalledCount`, retention of finished jobs (an `add`
under an id that still exists is ignored), a lock that may expire under a live handler
whose verdict Redis then refuses. `ReadIntent`/`QuoteCommit`/`RouteCommit`/`PolicyPlan`/
`PolicyCommit` are the first three handlers; `Exec*` the execute handler guard by guard, then
step by step through the route; `Throw` any rejected await; `FailedRead`/`FailedCommit` the
`failed` listener, which runs with no job behind it, and `FailedRejected` its read or
transaction rejected, which the code swallows (`run.ts:1946`). The API is `Enqueue`, `Approve`,
`HoldRead`/`HoldCommit`, `ReleaseRead`/`ReleasePlan`/`ReleaseCommit`/`ReleaseEnqueue`,
`OverrideRoute`, `SetPaused`, `SetKillSwitch`; `RequestRejected` is a rejected await of a hold or
release, which ends the request where it stands. `Faults` switches the rejections of the worker
on, `RequestFaults` those of the requests.

Abstractions. The failed listener's failure row and dead-letter job are one step with its
read, and are stored or lost together; the journal append is best effort as in the code. An adapter's reply is `ok` or
`failed`, and a `failed` reply says nothing about whether the step was carried out; every `ok`
row of this repository has a status that blocks a second submission. Plan and override are
read in one step, which is sound because overrides are never removed. One hold or release
request per intent is in progress at a time. Left out: signing, quote contents, and audit,
telemetry and snapshot rows, which the pipeline never reads back. The `policyPackId` payload
is in `PolicyEvaluation`.

### Runs

| Run | Environment | Checks |
|---|---|---|
| `pipeline_polling` | a client that polls, approval required, two hops, two attempts, three crashes, an override, a pause | `TypeOK`; `StatusFollowsLifecycle`: the stale-read commits never take the column off the table; `ExecutedPlanWasAllowed`: the plan executed is one a decision allowed, unless an operator overrode it |
| `pipeline_hold` | all stages posted at once, holds, releases, requests rejected half-way, approvals, two hops, a worker that outlives its lock | `GateSpec`: the pipeline implements `IntentGate`; `ExecutedIsFullyRecorded` |
| `pipeline_retries` | throwing handlers, retries, eviction, overrides, pauses, kill switch | `NoSubmitOverOpenExecution` |
| `pipeline_settles` | fairness, rejected awaits in handlers and listener, two crashes | `EveryJobSettles`, `ExecuteReachesVerdict` |
| `pipeline_release`, `pipeline_duplicates` | minimal | the disagreements below |

`StatusFollowsLifecycle` and `ExecutedPlanWasAllowed` are claimed for polling clients only,
because they fail otherwise: with all stages posted at once, or a hold in between, a
commit based on a stale read moves the column backwards; after an override the executed plan
is not the one the policy saw. `GateSpec` and `ExecutedIsFullyRecorded` are what survives there.
`NoSubmitOverOpenExecution` needs that no worker outlives its lock (`~Zombies`).

Bounds. One intent, since handlers of different intents share only the kill switch and
pauses, both of which vary freely (what they share in the policy stage is in
`PolicyEvaluation`, with two intents); two activations, because a job has one owner, so two is
what it takes for a zombie and its successor, or for two stages, to overlap. Two hops where
the loop matters (first, last, in between a crash), else one. Attempts 1 or 2 for 5 in the
code and stalls 0 or 1 for 2: the counter logic has a first, a last and one past the last.
`MaxLosses` (crashes and lost locks) and `MaxEvictions` make the state finite. The theorems
have none of these bounds. Deadlock is not checked: when clients stop asking, all stops.

Fairness (`FairSpec`): workers run their handlers and take waiting jobs, BullMQ's stalled
check runs (it is a timer in every worker), and a hold or release request begun goes on.
Clients, operators, faults and crashes owe nothing. `EveryJobSettles` then says that bounded
attempts and stalls end every job. `ExecuteReachesVerdict` says that an execute job leaves its
intent `executed` or `failed`: a plan carried out, a failed step, a guard that refuses, attempts
used up, a job that stalled too often, and a process that dies anywhere else all come to one of
the two. It names the two ways an intent is left in `policy_checked` for ever, and says there is
no third: a run met an `ok` row of an earlier attempt and returned at the duplicate check
(`run.ts:1664-1674`; that attempt had thrown or died after the row), or the `failed` listener died
or met a rejected await. `abandoned` records these two events and nothing else, so neither a
crash nor a row by itself excuses a missing verdict.

## Webhook delivery

State: `clock`, `stamp`, `visible` (events: `created_at` is fixed when a transaction begins,
visible when it commits), `active` subscriptions, `deliveries` and their order `inserted`,
`cursor` (a row of `system_settings`), `tick` (ticks in progress), `posts` (requests an
endpoint saw). The tick: `Start` reads the cursor; `ListEvents` runs once per source, the two
in any order (`Promise.all`); `ListSubscriptions`; `InsertDelivery` for each pair, conflicts
ignored; `WriteCursor`, blindly; `ListDue`; for each delivery `CheckSubscription`, `Post`,
`Mark`. `Abort` ends a tick anywhere. `ComesDue` is the end of a back-off.

| Run | Environment | Checks |
|---|---|---|
| `webhook_fanout` | two overlapping ticks, one may die, two of three events may share a `created_at`, batch of two | `TypeOK`; `NothingSkipped`: a cursor written blindly by racing ticks never passes an event without a delivery |
| `webhook_retries` | one tick at a time, one death, a failing endpoint, a paused subscription | `SendsAreBounded`, `DeliveredIsFinal`, `EveryDeliverySettles`, `EveryEventFansOut` |

What is not claimed, and was seen to fail: `DeliveredIsFinal` and `SendsAreBounded` with two
overlapping ticks (both post the same delivery; the slower blind update undoes the faster);
`NothingSkipped` when transactions commit later than a newer `created_at` (`LateCommits`), or
when audit and anchor events are read by separate queries between which an event of each
appears (`AnchorEvents` not empty); `EveryEventFansOut` when as many events as a batch holds
share a `created_at` (the scan is `>=`, so it reads the same batch for ever).

Bounds: three events and a batch of two make a batch that is full, one that is not, and a
tie across its edge. Fairness: the job repeats, its handler runs, back-offs end.
Left out: creating subscriptions and editing their event types, signatures and headers.
The branch for a missing subscription or event is dead: foreign keys, and nothing deletes
them. A 2xx answer whose row cannot be written ends in the same catch as a failed fetch.

## Payment anchors

State: `status` and `terms` (no terms, terms without a fee, with a fee) of one anchor, its
`bonds` oldest first, `run` (jobs of the reconciliation and the onboarding queue), `request`
(API requests between two awaits). `ReadBond`/`ReconcileBond` are `reconcileAnchorBondRecord`;
`ReadAnchor`/`Evaluate`/`Advance` one iteration of the onboarding loop, with `Advice` the whole
decision table of `evaluatePaymentAnchorOnboarding`; `StatusRead`/`StatusGuard`/`StatusWrite`,
`BondRead`/`BondWrite` and `PatchAnchor` the operator routes. Anchors do not read each other, so
one is modelled. An anchor may be created in any status, as the route allows.

| Run | Environment | Checks |
|---|---|---|
| `anchor_bonds` | strict mode, a reconciliation and an onboarding job, one of which may die, two operator requests at a time | `TypeOK`; `VerifiedIsBacked`; `OnboardingSettles`; `RoutedAnchorsPassPolicy`; `ReconciliationSettles` |

`VerifiedIsBacked` holds for operators who neither claim `verified` themselves nor send an
empty lock reference (`Careful`); with an empty reference TLC finds a reconciliation that
marks a row verified by the reference it saw before. `OnboardingSettles` says the limit of
six iterations is never what ends the loop: four would not do (the mutant). `RoutedAnchorsPassPolicy`
compares the router's readiness test, which trusts the stored column, with the policy rule,
which inspects the bond again. `ReconciliationSettles` is checked for operators who give no
`verificationSource`. With one (`Sources = {"database"}`) it fails: in strict mode, without a
lock reference, the verifier's `strict-missing` is stored as `undefined`, so the column keeps
its value, differs from what is found at every tick, and every tick inserts another
`payment_anchor.bond_reconciled` event.

Bounds: two operator writes (`MaxCalls`) are enough to make the two inserts race, and for one
read to be overtaken by a write while a job holds another. One reconciliation and one
onboarding job, since jobs of the same queue do the same steps. Fairness: the tick repeats,
jobs and requests that began go on.
Left out: events, telemetry and metric samples of anchors (write-only); corridors, assets
and dynamic scores of the router (`OperatorScore`).

`AnchorSweep` has the rest of the tick: `age` is the place of an anchor when `payment_anchors` is
ordered by `updated_at`, the newest first; `Tick` lists the first `BatchSize` with the places at
which the tick will check them, `CheckNext` and `TickFails` walk the list, `PatchBond` edits a bond without
touching `updated_at`, `PatchAnchor` and `ChangeStatus` move an anchor to the front. A PATCH of
an anchor adds no job, and only POST `/anchors/:id/reconcile` (`CheckOne`) checks one at once.

## The other components

One run, `components`, checks them all.

| Instance | Actions ↔ code | Properties | Bounds |
|---|---|---|---|
| `metrics` (`OperatorMetrics`) | `RouteStart`, `CacheGet`, `ReadSamples`, `CacheSet`, `RoutePlan`: the route job's fetch of each anchor's metrics; `Execute`, `Simulated`, `OutcomeAges`: the rows of 24 hours; `Aggregate`, `InsertSample`, `Inserted`, `Invalidate`, `AggregateEnds`: the aggregation; `EntryExpires`: the TTL | `StaleEntryGoes`: a value put back by a read that lost the race with an invalidation is not served for ever | one anchor, one route job, two outcomes: a race needs one reader and one writer |
| `score` (`OperatorScore`) | `ScoreAdjustment`, a pure function | `BetterNeverScoresWorse`: over all improvements of one metric, and blocking is monotone | values on both sides of every threshold and cap |
| `stream` (`EventStream`) | `InsertEvent` (possibly late), `Load`, `Write` of a poll, `Drop`/`Reconnect` | `NoGaps`, `RepeatsAreFarApart`, `EventArrives` | six events, limit 2 (4 fetched), 4 seen ids for 1000, two polls: the set overflows and a poll overtakes another |
| `sims` (`SimulationRuns`) | the job's statements one by one; `Caught` the catch, `Throws` a failure outside the try, `Crash`; `Rand` JavaScript's signed remainder | `OrphansAreExplained`, `ResultIsFinal`, `ChancesAreHonoured` | one job, two attempts, one crash, one fault; four seeds that draw on both sides of the chance, one of them negative |
| `agent` (`AgentRun`) | `LocalPass`, `CreateIntent`, `Post`, `PostFails` (reply lost or not), `StreamEvent`, `StreamEnds`, `Conclude`; `StageRuns`, `ExecuteRuns` the workers | `FailureIsSafeToRetry` | one intent, all stages |
| `process` (`WorkerProcess`) | `Pickup`, `AskSigner`, `SignerMade`, `GotSigner`, `Finish`; `Shutdown`, `BeginClose`, `CloseEnds`, `TimesOut` | `NothingUsedAfterClose`, `SigningClientIsShared`, `ShutdownEnds` | two workers, three handlers, four jobs: two execute handlers share the client |
| `access` (`Authorization`) | `Arrive`, `LocalAnswer`, `StartDiscovery`, `JoinDiscovery`, `FetchEnds`, `Discovered`, `DiscoveryFails`, `Leave` | `FailureIsNotKept` | two requests and two fetches: a late waiter meets a newer entry |
| `router` (`Router`) | `Visit` (one call of `visit`: the path held and its extensions), `VisitEnds`, `GetQuote`, `QuoteFails` (`success: false`), `Rejects` (a rejected promise of an adapter or callback: no plan at all), `AddPlan`, `Sort` | `NothingMissed` against `Routes`, a definition by quantification over all sequences of edges; `PolicyAcceptsRoutes` | three adapters of which two are discovered, two hops, a way back to the base asset |
| `policy` (`PolicyEngine`, `PolicyRules`) | pure: `ApplyPack`, `EffectiveConfig`, `Decide` | `NestingIsTransparent`, `CompositionsOnlyRestrict` | all packs of two compositions over two rules and each other, cycles included |
| `limits` (`PolicyEvaluation`) | `Begin`, `CountDaily`, `CountUnsettled`, `Resolve`, `Commit`: the policy job; `ExecuteBegin`, `ExecuteHop`, `Midnight` | `CapsHoldAlone`: executions that do not overlap keep the limits they were checked against | two intents, one of two hops, one pack with either of two contents |
| `naming` (`PolicyEvaluation`) | `PostRead`, `PostWrite`, `PostAdd`: `POST /policy`; `PatchPack`, `DeletePack`, `Hold`, `Release`, `Evict` | `PayloadIsCurrent`: a payload nobody replaced by an older one names the latest request's pack and the pack it was decided under | one intent, two packs, one request, edit, release, eviction |
| `sweep` (`AnchorSweep`) | above | `NewestAreChecked` | three anchors, a batch of two |

`TypeOK` is that of the instance at hand. Fairness: aggregation ticks repeat and go on, a
fetch that is retried for ever succeeds at last (strong fairness of its inserts and of the
invalidation, which a fault may interrupt any finite number of times), TTLs end; polls repeat
and their queries answer; time-outs fire, and destroying the signing client, which has no time-out, is
synchronous (`ShutdownEnds` needs no handler to finish); reconciliation ticks repeat. Each is a timer, a repeatable job or a step of
a handler that has begun.

What the models say besides, seen while the properties were fitted to the code:

- Stream: `EventArrives` is about events within reach of the cursor (`WithinReach`). When more
  than `2 · limit` other events of a table follow the cursor, a filtered stream stalls, since the
  lists are limited before they are filtered (`events.ts:49-86`) and the cursor moves only with
  what is written. At least `limit` events of one `created_at` stall it too, and an event
  committed late, behind the cursor, is never delivered.
  A query for one payment anchor, whose rows the database picks before it limits them, is left out.
- Simulation: a failure probability of 0 always fails when the seed folds to a negative
  int32 (`simulate.ts:11-20,33`), because the number drawn is negative.
- Policy: limits count execution rows, so each hop counts as a trade, and executions that
  overlap overshoot. `POST /policy` rewrites the payload it read, so it loses what the handler
  stored meanwhile, or the handler loses the name (`intents.ts:183-191`, `run.ts:1520-1531`); a
  second request finds the job `policy-<id>` retained and is ignored. A decision made without
  a pack leaves the previous effective pack on the payload. A pack stored without a schema may
  hold any value; `Junk` stands for one no rule understands.
- Metrics: an anchor blocked for its success rate gets no live executions. When its outcomes
  of the last 24 hours have aged away, the aggregation finds no row of it and inserts no sample,
  so the latest one, which blocks it, stays the latest: the "rolling 24h" rate
  (`operator-metrics-cache.ts:8`) does not roll.
- Release: the status is written before the job is added (`intents.ts:305-334`), so a rejected add
  leaves the intent `routed` or `quoted` with no job, and a second release is refused.
- Agent: after a lost reply or a failed listing it reports `failed` although the intent may
  execute (`lost` excuses that in `FailureIsSafeToRetry`).
- Authentication: the verifier is set up before the token is looked at, so while discovery
  fails every caller is answered 401, one with a valid ops key or bypass token included
  (`auth.ts:238-239,280-284`).
- Sweep: a bond PATCH neither touches `updated_at` nor adds a job, so an anchor beyond the
  batch is never reconciled.

## What is proved

All theorems are for every value of the constants that satisfies the named assumptions:
any number of intents, workers, hops, attempts, crashes, ticks, jobs and requests. `tlapm`
checks every leaf.

| Theorem | States | Under |
|---|---|---|
| `IntentPipelineProofs!TypeCorrect` | `Spec => []TypeOK` | `PipelineAssumption` |
| `IntentPipelineProofs!Invariance` | `Spec => []Inv` | the same |
| `IntentPipelineProofs!ExecutedIsRecorded` | `Spec => []ExecutedIsFullyRecorded` | the same |
| `IntentPipelineProofs!NoOverlappingSubmit` | `Spec => []NoSubmitOverOpenExecution` | no worker outlives its lock |
| `IntentPipelineProofs!GateRefinement` | `Spec => GateSpec` | `PipelineAssumption` |
| `IntentPipelineProofs!PollingInvariance` | `Spec => []PollInv` | `Polling` |
| `IntentPipelineProofs!ExecutedPlanAllowed` | `Spec => []ExecutedPlanWasAllowed` | `Polling` |
| `IntentPipelineProofs!LifecycleFollowed` | `Spec => StatusFollowsLifecycle` | `Polling` |
| `WebhookDeliveryProofs!WebhookTypes` | `Spec => []TypeOK` | `WebhookAssumption` |
| `WebhookDeliveryProofs!CursorSkipsNothing` | `Spec => []NothingSkipped` | one source, commits in the order of `created_at` |
| `WebhookDeliveryProofs!PostsAreBounded`, `DeliveredStays` | `Spec => []SendsAreBounded`, `Spec => DeliveredIsFinal` | one tick at a time |
| `PaymentAnchorsProofs!AnchorTypes`, `VerifiedBonds`, `RoutedAnchorsPass` | `TypeOK`, `VerifiedIsBacked`, `RoutedAnchorsPassPolicy`, always | `AnchorAssumption` |
| `PaymentAnchorsProofs!OnboardingCompletes` | `Spec => []OnboardingSettles` | `None` is not a status |
| `SimulationRunsProofs!SimulationTypes`, `OrphansExplained`, `ResultsAreFinal`, `ChancesHonoured` | `TypeOK`, `OrphansAreExplained`, `ChancesAreHonoured` always, `ResultIsFinal` | `SimulationAssumption` |
| `PolicyEvaluationProofs!EvaluationTypes`, `PayloadStaysCurrent`, `CapsAreKept` | `TypeOK`, `PayloadIsCurrent` always, `CapsHoldAlone` at each step | `EvaluationAssumption` |
| `RouterProofs!RouterTypes`, `NoRouteIsMissed`, `RoutesAreReturned` | `TypeOK`, `NothingMissed`, `BestIsARoute`, always | `RouterAssumption` |
| `EventStreamProofs!StreamTypes`, `StreamHasNoGaps`, `RepeatsAreRare` | `TypeOK`, `NoGaps`, `RepeatsAreFarApart`, always | `StreamAssumption` |
| `ComponentsProofs!ComponentTypes` | `Spec => []TypeOK` | `ComponentsAssumption` |
| `ComponentsProofs!OpenWhileUsed`, `OneSigningClient` | `NothingUsedAfterClose`, `SigningClientIsShared`, always | the same |
| `ComponentsProofs!FailuresAreDropped` | `Spec => []FailureIsNotKept` | the same |
| `ComponentsProofs!RetryIsSafe` | `Spec => []FailureIsSafeToRetry` | the same |
| `ComponentsProofs!BetterScores` | `Spec => []BetterNeverScoresWorse` | the same |
| `ComponentsProofs!RoutesAreAccepted` | `Spec => []PolicyAcceptsRoutes` | the same |
| `ComponentsProofs!CompositionsRestrict`, `NestingIsSound` | `CompositionsOnlyRestrict`, `NestingIsTransparent`, always | the same |
| `ComponentsProofs!OrphansExplained`, `ChancesHonoured`, `ResultsAreFinal`, `NoEventIsSkipped`, `RepeatsAreRare`, `NoRouteIsMissed`, `CapsAreKept`, `PayloadStaysCurrent` | the theorems of the components' own modules, as properties of the run `components` | the same |

`ComponentsAssumption` is the conjunction of the assumptions of the instances, and says of the
metrics and packs given to the pure functions that they are records, `None` is no pack,
and a pack has finitely many compositions. TLC evaluates it in every run of `MCComponents`.

**Pipeline.** The properties are not inductive. "Executed implies recorded" is about a
status that one step writes, on the strength of rows earlier steps wrote; so `Inv` adds what
a handler knows at each place: `OneOwner` (a job has one owner, and without zombies a handler
at work is its owner), `GuardsPassed` (behind a guard, an approval and an allowing decision
still stand, although both are read by separate awaits), `OnPlan` (the step loop walks a
stored plan), `RowsFollowLoop` (each step behind the loop has its row), `TablesInv` (rows and
venue agree). What makes it inductive is that plans, rows, decisions, approvals and venue
counts only grow. The proof follows that: `Growing` (one step of any kind preserves those
facts), `LockStep` (ownership), `StandingStill` and `MovingOn` (a run that another run's step
leaves alone, a run that steps), `TablesStep`, `SubmitStep` (two handlers of one intent cannot
both be past the duplicate check, by `OneOwner`); `InvStep` combines them. The refinement
follows from `Inv`: a step that submits is a `Send`, one that approves or decides a `Clear`, the
journal append a `Settle`, everything else a stutter.

**Polling clients.** `Polling == ~Eager /\ ~Zombies /\ MaxEvictions = 0 /\ "hold" \notin Operators`:
a client posts a stage when it sees the status the stage starts from, no worker outlives
its lock, no finished job is dropped, nobody holds. `PollInv` adds to `Inv` that an intent has
one handler that may still write its status (`OneReporter`, `SingleWalk`: the stages follow one
another, because a stage's job id is used once) and that what this handler read still stands
(`ReadStands`). Then a commit on a stale read cannot exist, and both properties follow.
Dropping any conjunct of `Polling` loses a property: those are the hazards of
`run.ts:1255`.

**Webhooks.** `TInv` is type correctness with the due list and `RetriesLeft` (a row is pending
only while attempts are left). For the cursor, `FanInv` says of each tick that every event it
owes before the cursor it is about to write has a row or is in its list (`FanOK`), and that
stamps follow the order of commits (`StampsOK`); a blind write of an older cursor is harmless
because everything before it already has a row. For one tick at a time, `SentInv` ties the
posts of a delivery to its attempt count, the attempt being made and the ticks that died.

**Anchors.** `VerifiedIsBacked` is not inductive because a reconciliation writes `verified`
from the bond it read. `LocksStay` supplies the missing link: a lock reference a job saw is
still in the row it will write, because no writer removes one when operators are `Careful`.
`OnboardingCompletes` is about the decision table: `OnwardCases` lists where advice leads,
`FiveTurns` follows any chain of advice and `ReachedInFive` shows that it has come to rest
after five turns, so six iterations are enough whatever the anchor.

**Worker process.** `IInv`: what is closed is what lies before `step` (`ClosedSoFar`), a worker
behind it is idle or was given up (`WorkersAreDone`), and a client being made is awaited by a
handler (`ClientIsAwaited`).

**Simulations.** `Inv` says of an active job what its row looks like at each place (`RowOK`), that
a stored result is the outcome drawn (`Drawn`), and counts orphans. A row is touched by its own
job only (`OthersStay`); a step makes at most its own row an orphan, and only by a crash or a
failure outside the try (`OrphanStep`, `OrphanCount`). `RandRange` bounds the generator.

**Authentication.** A failed entry in the cache has a request that waited for it and has still
to delete it (`EntryIsAwaited`).

**Policy evaluation.** A limit is counted at one await, decided at a later one and executed by
another job. `LimitsAreKept` carries what was counted along: as long as no row came in between
(`at = rows`), what the handler counted is not below today's count (`Counts`), an allowing
decision keeps its limits (`Keeps`), and so does what an execution read of it (`Executes`).
`PayloadIsCurrent` is inductive given the shapes of request and handler (`Shapes`), because
`overwritten` records each time one of the two writers writes back an older payload.

**Event stream.** The rows of a poll are loaded long before they are written, and other polls write
and move the cursor meanwhile. `PollsAreComplete` is what stays true of them: an event the
connection owes is among them, written, or no earlier than any of them. A load preserves it
because a limited list leaves out only later rows (`FirstComeFirst`), and a write then
cannot leave a gap. `IdsAreKept` says that `seenIds` is the end of what was written, so an id that
is looked up in vain was last written more than `SeenCap` writes ago. Two facts of the
model are used: each filter lets through all events or those of one table (`StreamAssumption`,
`querySchema`), and an event that becomes visible late is not owed.

**Router.** Soundness and completeness of the search: what it holds is a trail from the base asset
that repeats no asset (`Trail`), and each route is on its way through `todo` as one of its own
prefixes (`Reached`). The step that visits a prefix replaces it by the next longer one, since
a route's next edge is always an extension (`Extensions`). A route is defined without the search.

**Policy packs.** Rules stay what they are when compositions are added (`RulesStay`), so what is allowed
with compositions is allowed without them. For nesting, `VerdictsExist` shows that the
recursion of `CompositionVerdicts` has a solution, by induction on how many compositions are not
yet above the one being evaluated; `AboveIsIrrelevant` shows, by induction on the rank of an
acyclic pack, that a verdict does not depend on what is above. `NestingIsTransparent` follows.
Both inductions take a least counterexample (`LeastExists`, from the well-foundedness of the
naturals) instead of an induction theorem.

**Agent.** `FailuresAreFinal` ties the agent's result to the server: the execute job exists only once
the agent waits, and a failed intent has no job left.

**Scores.** Each term of the score is monotonic by itself (`RateMonotone`, `LatencyMonotone`,
`CapacityMonotone`, `BondMonotone`); rounding is (`RoundedMonotone`); the sum is then.

**Types of metrics and sweeps.** `SuccessRateType`: a rate computed from outcomes is a percentage.
`ToFrontPlaces`: moving an anchor to the front leaves one place per anchor; `BatchPlaces`: a batch has
no two anchors of one place.

Model-checked only: liveness (`EveryJobSettles`, `ExecuteReachesVerdict`, `EveryDeliverySettles`,
`EveryEventFansOut`, `ReconciliationSettles`, `StaleEntryGoes`, `EventArrives`, `NewestAreChecked`,
`ShutdownEnds`), which is beyond the prover. Every invariant and action property of the passing
runs has a theorem.

## Where code and documentation disagree

| Run | Claim | Code |
|---|---|---|
| `pipeline_release` | release lets "the pipeline resume from the next backend stage" (`apps/mcp/TOOLS.md`) | the job is added under a fixed id; if that stage ran before the hold, the retained job swallows it |
| `pipeline_duplicates` | the check is enough "to skip duplicate submit" (`repositories/executions.ts`) | a crash between the venue call and the row leaves nothing to find |
| `agent_reports` | "Fires after a terminal execution event arrives" (`agent-runtime/src/factory.ts`) | on success the worker writes `execution.completed`, which the agent does not wait for: it times out and reports `pending` |
| `policy_venues` | "Restrict route steps to approved venue adapter ids" (`policy/src/engine.ts`) | when the intent lists venues, the rule compares that list and never looks at the route |

Without a run of their own:

- The kill switch "kills instantly" (`docs/web/SECURITY_WEBSITE_CLAIM_MAP.md`), but it is read
  once per job (`run.ts:1606`): later hops of a route are still submitted.
- "Suspended anchors require operator review" (`payment-anchor.ts`), but the onboarding loop's
  update by id overwrites a suspension that lands after its read (`run.ts:663`).
- The fan-out's cursor passes an event whose transaction commits after a later `created_at`
  (`run.ts:2298`, `LateCommits`).
- Quote, route and policy workers have no failed listener (`run.ts:1904`), although
  `config/queues.ts` calls the dead-letter queue the "final resting place for jobs that exhausted
  retries".
- A released anchor without a fee is advised to go to `commercial_defined`, which the table
  refuses, at every onboarding run.
- Rows inserted as pending or submitted stay unsettled: the reconciliation tick only writes
  an audit event (`run.ts:2100`, `executions.ts:51`), so `unsettled_cap` denies every later intent
  once there are enough of them.

## What is not modelled

See `components` in `PROJECT.json`.

- Settlement reconciliation, metrics sampler, stuck-job sweep, telemetry flush, dead-letter
  logger: they write rows, metrics and logs that no other component reads.
- Keeta transfer and venue adapters: the pipeline has `adapter.execute` with its replies and
  whether the step was carried out. The transfer's send is retried after a timeout
  (`transactions.ts:95-114`) and may be a second one; what the network does with it is outside
  this repository.
- Custody guards, wallets, tracing, health endpoints: checks of configuration or I/O.
- MCP server, SDK, dashboard, OpenAPI document, docs build, test harness and mock adapters:
  stateless wrappers, views and data. Routes that only read or only insert a row (`me`, fees,
  oracle, wallets, ops queries, creating subscriptions, packs and anchors) are environment.

The map covers about an eighth of the repository's lines. Of the rest, most is the kind named
above: an API description, clients with one wrapper per endpoint, a documentation generator,
dashboard views, test harnesses, schemas, adapters that format requests. They hold no
state that outlives a call and run nothing concurrently; a model of them would restate them.

## What is left

1. A liveness argument in the form of safety: for `ShutdownEnds` and `EveryJobSettles`, a measure that
   each step of a fair action lowers, proved as an action property.
2. A transfer module that refines the venue's reply of `ExecSubmit`, once the ledger's answer to a
   repeated block is part of the repository.
3. Corridors in `OperatorMetrics` and `PaymentAnchors` (a key per corridor instead of one per
   anchor), and two intents in `IntentPipeline` with the limits of `PolicyEvaluation`.
4. A composition of `AgentRun` with `IntentPipeline` in place of `StageRuns` and `ExecuteRuns`.
