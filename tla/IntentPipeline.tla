--------------------------- MODULE IntentPipeline ---------------------------
(***************************************************************************)
(* The execution pipeline of an intent: the API routes that create and     *)
(* steer it, the four BullMQ queues its jobs travel through (quote, route, *)
(* policy, execute) and the worker that processes them.                    *)
(*                                                                         *)
(* A handler is split at its awaits: what it reads is kept in its run and  *)
(* may be stale when the transaction that ends the handler commits.  A     *)
(* database transaction is one step.  Audit, telemetry, snapshot and       *)
(* metric rows are write-only for this component and are left out.         *)
(***************************************************************************)
EXTENDS Lifecycle, Naturals, Sequences

CONSTANTS
  Intents,        \* execution intents (all already created)
  Runs,           \* handler activations the workers can have at a time
  Live,           \* the intents whose mode is "live"; the others simulate
  NeedsApproval,  \* the intents created with requiresApproval
  Strategies,     \* strategies, and the strategy of each intent (or None)
  StrategyOf,
  MaxHops,        \* longest route plan
  MaxAttempts,    \* job option "attempts"
  MaxStalled,     \* worker option "maxStalledCount"
  MaxEvictions,   \* bound: how many finished jobs the retention limits drop
  MaxLosses,      \* bound: how many runs lose their process or their lock
  Eager,          \* clients post every stage at once instead of polling
  Faults,         \* an await of a worker may be rejected (database, venue, no route)
  RequestFaults,  \* an await of a hold or release request may be rejected
  Crashes,        \* a worker process may die
  Zombies,        \* a worker may outlive the lock of its job
  Operators,      \* the operator calls made in this instance
  None

ASSUME PipelineAssumption ==
  /\ None \notin Intents
  /\ None \notin {"hold", "release", "routed", "quoted", "policy", "route"}
  /\ Live \subseteq Intents
  /\ NeedsApproval \subseteq Intents
  /\ StrategyOf \in [Intents -> Strategies \cup {None}]
  /\ MaxHops \in Nat \ {0}
  /\ MaxAttempts \in Nat \ {0}
  /\ MaxStalled \in Nat
  /\ MaxEvictions \in Nat
  /\ MaxLosses \in Nat
  /\ {Eager, Faults, RequestFaults, Crashes, Zombies} \subseteq BOOLEAN

VARIABLES
  \* Postgres
  status,         \* execution_intents.status
  approval,       \* execution_intents.approval_status
  plans,          \* route_plans of an intent, oldest first: the hops of each
  override,       \* plan of the latest route_overrides row, 0 if there is none
  decisions,      \* policy_decisions of an intent
  decision,       \* the latest of them, or None
  rows,           \* executions of an intent
  lastRow,        \* outcome of the latest of them, or None
  journal,        \* intents with an execution_journal_entries row
  killSwitch,     \* system_settings.execution_kill_switch
  paused,         \* paused strategies
  \* Redis
  job,            \* the job with the fixed id <stage>-<intent>, per queue
  deadLetters,    \* intents with a job_failures row and a dead-letter job
  evictions,      \* jobs dropped by retention so far
  losses,         \* runs that lost their process or their lock so far
  abandoned,      \* history: intents skipped as duplicates (audit row
                  \* execution.dedup_skipped) or whose "failed" listener was cut off
  \* processes
  run,            \* the worker's handler activations
  request,        \* the hold or release request in progress for an intent
  \* outside
  published       \* how often the venue carried out each step of an intent

intentVars == <<status, approval>>
planVars   == <<plans, override, decisions, decision>>
execVars   == <<rows, lastRow, journal, published>>
opsVars    == <<killSwitch, paused>>
queueVars  == <<job, deadLetters, evictions, losses, abandoned>>
vars == <<intentVars, planVars, execVars, opsVars, queueVars, run, request>>

----------------------------------------------------------------------------
(* Stages, jobs and runs *)

Stages == {"quote", "route", "policy", "execute"}

\* The status a stage starts from and the one its handler writes.
Before(s) ==
  CASE s = "quote" -> "created" [] s = "route" -> "quoted"
    [] s = "policy" -> "routed" [] s = "execute" -> "policy_checked"
After(s) ==
  CASE s = "quote" -> "quoted" [] s = "route" -> "routed"
    [] s = "policy" -> "policy_checked" [] s = "execute" -> "executed"

\* The counters of a finished job are never read again and are dropped.
JobIn(state) == [state |-> state, attempts |-> 0, stalls |-> 0]
NoJob    == JobIn("none")
FreshJob == JobIn("waiting")
Waiting(attempts, stalls) == [state |-> "waiting", attempts |-> attempts, stalls |-> stalls]

Idle == [pc |-> "idle", intent |-> None, stage |-> None, seen |-> None,
         plan |-> 0, step |-> 0, reply |-> None, owner |-> FALSE]

\* The places where a handler may throw: between its first read and its last
\* commit.  The journal append is wrapped in try/catch.
Working == {"begin", "intent", "strategy", "decision", "plan", "commit", "dedup",
            "submit", "record", "complete"}
Verdicts == {"done", "error", "fatal"}
PCs == {"idle", "journal", "on_failed", "fail_commit"} \cup Working \cup Verdicts

Outcomes == {"ok", "failed"}
Steps == 1..MaxHops

At(r, s, pc) == run[r].stage = s /\ run[r].pc = pc
Target(r)    == run[r].intent

\* Mutant of Moved: the activation forgets which job it answers for.
MovedAnonymously(a, pc) ==
  IF pc \in Verdicts THEN [Idle EXCEPT !.owner = a.owner, !.pc = pc] ELSE [a EXCEPT !.pc = pc]

\* The next place in a handler; its locals are gone once it has a verdict.
Moved(a, pc) ==
  IF pc \in Verdicts
  THEN [Idle EXCEPT !.intent = a.intent, !.stage = a.stage, !.owner = a.owner, !.pc = pc]
  ELSE [a EXCEPT !.pc = pc]
Goto(r, pc) == run' = [run EXCEPT ![r] = Moved(run[r], pc)]

\* getRoutePlanForIntent and the override that replaces it; 0 if no plan.
ChosenPlan(i) == IF override[i] # 0 THEN override[i] ELSE Len(plans[i])

\* hasBlockingExecutionForIntent: only the latest row is looked at.
HasBlockingExecution(i) == lastRow[i] = "ok"

\* Mutant of Added: a generated jobId, every request starts a new job.
AddedAgain(jobs, i, s) == [jobs EXCEPT ![i][s] = FreshJob]

\* queue.add with a fixed jobId: ignored while a job of that id exists, a
\* retained finished one included.
Added(jobs, i, s) ==
  IF jobs[i][s].state = "none" THEN [jobs EXCEPT ![i][s] = FreshJob] ELSE jobs

Init ==
  /\ status = [i \in Intents |-> "created"]
  /\ approval = [i \in Intents |-> IF i \in NeedsApproval THEN "pending" ELSE "not_required"]
  /\ plans = [i \in Intents |-> <<>>]
  /\ override = [i \in Intents |-> 0]
  /\ decisions = [i \in Intents |-> {}]
  /\ decision = [i \in Intents |-> None]
  /\ rows = [i \in Intents |-> {}]
  /\ lastRow = [i \in Intents |-> None]
  /\ journal = {}
  /\ killSwitch = FALSE
  /\ paused = {}
  /\ job = [i \in Intents |-> [s \in Stages |-> NoJob]]
  /\ deadLetters = {}
  /\ evictions = 0
  /\ losses = 0
  /\ abandoned = {}
  /\ run = [r \in Runs |-> Idle]
  /\ request = [i \in Intents |-> None]
  /\ published = [i \in Intents |-> [k \in Steps |-> 0]]

----------------------------------------------------------------------------
(* Queue machinery (BullMQ) *)

\* A worker takes a waiting job.  One that stalled too often is failed as
\* unrecoverable without running the handler.
Pickup(r, i, s) ==
  /\ run[r].pc = "idle"
  /\ job[i][s].state = "waiting"
  /\ job' = [job EXCEPT ![i][s].state = "active"]
  /\ run' = [run EXCEPT ![r] =
       [Idle EXCEPT !.intent = i, !.stage = s, !.owner = TRUE,
          !.pc = IF job[i][s].stalls > MaxStalled THEN "fatal" ELSE "begin"]]
  /\ UNCHANGED <<intentVars, planVars, execVars, opsVars, deadLetters, evictions, losses, abandoned, request>>

\* The verdict of a handler reaches Redis.  Without the lock it is refused and
\* changes nothing.  A plain error is retried while attempts are left.
Retried(r) ==
  run[r].pc = "error" /\ job[Target(r)][run[r].stage].attempts + 1 < MaxAttempts

Ack(r) ==
  /\ run[r].pc \in Verdicts
  /\ LET i == Target(r)
         s == run[r].stage
         kept == run[r].owner
         ended == ~Retried(r) /\ run[r].pc # "done"
     IN /\ job' = IF ~kept THEN job
                  ELSE IF run[r].pc = "done" THEN [job EXCEPT ![i][s] = JobIn("completed")]
                  ELSE IF ended THEN [job EXCEPT ![i][s] = JobIn("failed")]
                  ELSE [job EXCEPT ![i][s] = Waiting(@.attempts + 1, @.stalls)]
        \* Only the execute worker listens to "failed".
        /\ run' = [run EXCEPT ![r] =
             IF kept /\ ended /\ s = "execute"
             THEN [run[r] EXCEPT !.pc = "on_failed", !.owner = FALSE]
             ELSE Idle]
  /\ UNCHANGED <<intentVars, planVars, execVars, opsVars, deadLetters, evictions, losses, abandoned, request>>

\* The "failed" listener has work left for the intent of a run.
Listening(r) == run[r].pc \in {"on_failed", "fail_commit"}

\* The process of a run dies; its job stays active until it is found stalled.
Crash(r) ==
  /\ Crashes
  /\ losses < MaxLosses
  /\ run[r].pc # "idle"
  /\ run' = [run EXCEPT ![r] = Idle]
  /\ losses' = losses + 1
  /\ abandoned' = IF Listening(r) THEN abandoned \cup {Target(r)} ELSE abandoned
  /\ UNCHANGED <<intentVars, planVars, execVars, opsVars, job, deadLetters, evictions, request>>

\* The lock of a job expires under a process that is still alive.
LoseLock(r) ==
  /\ Zombies
  /\ losses < MaxLosses
  /\ run[r].owner
  /\ run' = [run EXCEPT ![r].owner = FALSE]
  /\ losses' = losses + 1
  /\ UNCHANGED <<intentVars, planVars, execVars, opsVars, job, deadLetters, evictions, abandoned, request>>

\* Mutant of Stalled: a job that already stalled too often is left active.
StalledOnce(i, s) ==
  /\ job[i][s].state = "active"
  /\ job[i][s].stalls < MaxStalled
  /\ \A r \in Runs : ~(run[r].owner /\ Target(r) = i /\ run[r].stage = s)
  /\ job' = [job EXCEPT ![i][s] = Waiting(@.attempts, @.stalls + 1)]
  /\ UNCHANGED <<intentVars, planVars, execVars, opsVars, deadLetters, evictions, losses, abandoned, run, request>>

\* The stalled check puts an active job nobody holds back in the queue.
Stalled(i, s) ==
  /\ job[i][s].state = "active"
  /\ \A r \in Runs : ~(run[r].owner /\ Target(r) = i /\ run[r].stage = s)
  /\ job' = [job EXCEPT ![i][s] =
       Waiting(@.attempts, IF @.stalls > MaxStalled THEN @.stalls ELSE @.stalls + 1)]
  /\ UNCHANGED <<intentVars, planVars, execVars, opsVars, deadLetters, evictions, losses, abandoned, run, request>>

\* removeOnComplete / removeOnFail: later jobs push a finished one out.
Evict(i, s) ==
  /\ evictions < MaxEvictions
  /\ job[i][s].state \in {"completed", "failed"}
  /\ job' = [job EXCEPT ![i][s] = NoJob]
  /\ evictions' = evictions + 1
  /\ UNCHANGED <<intentVars, planVars, execVars, opsVars, deadLetters, losses, abandoned, run, request>>

----------------------------------------------------------------------------
(* The quote, route and policy handlers *)

\* Read the row and check the transition against the status read.
ReadIntent(r) ==
  /\ run[r].pc = "begin"
  /\ run[r].stage # "execute"
  /\ LET now == status[Target(r)]
         next == IF ~CanTransition(now, After(run[r].stage)) THEN "fatal"
                 ELSE IF run[r].stage = "policy" THEN "plan" ELSE "commit"
     IN run' = [run EXCEPT ![r] = Moved([run[r] EXCEPT !.seen = now], next)]
  /\ UNCHANGED <<intentVars, planVars, execVars, opsVars, queueVars, request>>

\* The policy handler picks the plan it will evaluate (possibly none).
PolicyPlan(r) ==
  /\ At(r, "policy", "plan")
  /\ run' = [run EXCEPT ![r] = Moved([run[r] EXCEPT !.plan = ChosenPlan(Target(r))], "commit")]
  /\ UNCHANGED <<intentVars, planVars, execVars, opsVars, queueVars, request>>

\* transitionIntent: the check is against the status read when the handler
\* began, the update is unconditional.
Transition(i, from, to) ==
  /\ CanTransition(from, to)
  /\ status' = [status EXCEPT ![i] = to]

QuoteCommit(r) ==
  /\ At(r, "quote", "commit")
  /\ Transition(Target(r), run[r].seen, "quoted")
  /\ Goto(r, "done")
  /\ UNCHANGED <<approval, planVars, execVars, opsVars, queueVars, request>>

RouteCommit(r) ==
  /\ At(r, "route", "commit")
  /\ \E hops \in 1..MaxHops : plans' = [plans EXCEPT ![Target(r)] = Append(@, hops)]
  /\ Transition(Target(r), run[r].seen, "routed")
  /\ Goto(r, "done")
  /\ UNCHANGED <<approval, override, decisions, decision, execVars, opsVars, queueVars, request>>

\* The decision is stored and the status advances whether it allows or blocks.
PolicyCommit(r) ==
  /\ At(r, "policy", "commit")
  /\ \E allowed \in BOOLEAN :
       LET verdict == [plan |-> run[r].plan, allowed |-> allowed]
       IN /\ decision' = [decision EXCEPT ![Target(r)] = verdict]
          /\ decisions' = [decisions EXCEPT ![Target(r)] = @ \cup {verdict}]
  /\ Transition(Target(r), run[r].seen, "policy_checked")
  /\ Goto(r, "done")
  /\ UNCHANGED <<approval, plans, override, execVars, opsVars, queueVars, request>>

----------------------------------------------------------------------------
(* The execute handler *)

ExecKillSwitch(r) ==
  /\ At(r, "execute", "begin")
  /\ Goto(r, IF killSwitch THEN "fatal" ELSE "intent")
  /\ UNCHANGED <<intentVars, planVars, execVars, opsVars, queueVars, request>>

\* The guards on the intent row.  Every guard ends in the same unrecoverable
\* error, so their order is immaterial.
NotHeld(i)    == status[i] # "held"
Approved(i)   == i \in Live \cap NeedsApproval => approval[i] = "approved"

\* Mutant of Executable: the approval of a live intent is not asked for.
ExecutableUnapproved(i) == NotHeld(i) /\ CanTransition(status[i], "executed")

Executable(i) == NotHeld(i) /\ Approved(i) /\ CanTransition(status[i], "executed")

ExecIntent(r) ==
  /\ At(r, "execute", "intent")
  /\ LET next == IF Executable(Target(r)) THEN "strategy" ELSE "fatal"
     IN run' = [run EXCEPT ![r] = Moved([run[r] EXCEPT !.seen = status[Target(r)]], next)]
  /\ UNCHANGED <<intentVars, planVars, execVars, opsVars, queueVars, request>>

ExecStrategy(r) ==
  /\ At(r, "execute", "strategy")
  /\ Goto(r, IF StrategyOf[Target(r)] \in paused THEN "fatal" ELSE "decision")
  /\ UNCHANGED <<intentVars, planVars, execVars, opsVars, queueVars, request>>

\* Mutant of Allows: a decision is required, whatever it says.
Decided(d) == d # None

Allows(d) == d # None /\ d.allowed

ExecDecision(r) ==
  /\ At(r, "execute", "decision")
  /\ Goto(r, IF Allows(decision[Target(r)]) THEN "plan" ELSE "fatal")
  /\ UNCHANGED <<intentVars, planVars, execVars, opsVars, queueVars, request>>

\* No plan is a plain error.
ExecPlan(r) ==
  /\ At(r, "execute", "plan")
  /\ LET plan == ChosenPlan(Target(r))
         next == IF plan = 0 THEN "error" ELSE "dedup"
     IN run' = [run EXCEPT ![r] = Moved([run[r] EXCEPT !.plan = plan, !.step = 1], next)]
  /\ UNCHANGED <<intentVars, planVars, execVars, opsVars, queueVars, request>>

\* Mutant of Skips: the duplicate check is made for the wrong mode.
SkipsSimulated(i) == i \notin Live /\ HasBlockingExecution(i)

\* A live intent with a blocking execution is not submitted again.
Skips(i) == i \in Live /\ HasBlockingExecution(i)

ExecDedup(r) ==
  /\ At(r, "execute", "dedup")
  /\ Goto(r, IF Skips(Target(r)) THEN "done" ELSE "submit")
  /\ abandoned' = IF Skips(Target(r)) THEN abandoned \cup {Target(r)} ELSE abandoned
  /\ UNCHANGED <<intentVars, planVars, execVars, opsVars, job, deadLetters, evictions, losses, request>>

\* adapter.execute: a step reported "ok" was carried out, one reported
\* "failed" may have been (the reply of the venue was lost).
ExecSubmit(r) ==
  /\ At(r, "execute", "submit")
  /\ \E reply \in Outcomes, carriedOut \in BOOLEAN :
       /\ reply = "ok" => carriedOut
       /\ run' = [run EXCEPT ![r].reply = reply, ![r].pc = "record"]
       /\ published' = IF carriedOut
                       THEN [published EXCEPT ![Target(r)][run[r].step] = @ + 1]
                       ELSE published
  /\ UNCHANGED <<intentVars, planVars, rows, lastRow, journal, opsVars, queueVars, request>>

\* Mutant of LastStep: the loop stops one hop early.
LastButOneStep(i, p, k) == k + 1 >= plans[i][p]

LastStep(i, p, k) == k >= plans[i][p]

\* The execution row, and on failure the intent's status, in one transaction.
ExecRecord(r) ==
  /\ At(r, "execute", "record")
  /\ LET i == Target(r)
         reply == run[r].reply
         last == LastStep(i, run[r].plan, run[r].step)
         next == IF reply = "failed" THEN "done" ELSE IF last THEN "complete" ELSE "submit"
     IN /\ rows' = [rows EXCEPT ![i] =
             @ \cup {[plan |-> run[r].plan, step |-> run[r].step, outcome |-> reply]}]
        /\ lastRow' = [lastRow EXCEPT ![i] = reply]
        /\ IF reply = "failed" THEN Transition(i, run[r].seen, "failed") ELSE UNCHANGED status
        /\ run' = [run EXCEPT ![r] =
             Moved([run[r] EXCEPT !.reply = None, !.step = IF last THEN @ ELSE @ + 1], next)]
  /\ UNCHANGED <<approval, planVars, journal, published, opsVars, queueVars, request>>

\* Mutant of ExecComplete: the transition to "executed" is left out.
ExecCompleteUnmarked(r) ==
  /\ At(r, "execute", "complete")
  /\ Goto(r, "journal")
  /\ UNCHANGED <<intentVars, planVars, execVars, opsVars, queueVars, request>>

ExecComplete(r) ==
  /\ At(r, "execute", "complete")
  /\ Transition(Target(r), run[r].seen, "executed")
  /\ Goto(r, "journal")
  /\ UNCHANGED <<approval, planVars, execVars, opsVars, queueVars, request>>

\* Best effort: the append may fail without any effect on the job.
ExecJournal(r) ==
  /\ At(r, "execute", "journal")
  /\ \/ journal' = journal \cup {Target(r)}
     \/ Faults /\ UNCHANGED journal
  /\ Goto(r, "done")
  /\ UNCHANGED <<intentVars, planVars, rows, lastRow, published, opsVars, queueVars, request>>

\* Any await of a handler may throw before its last commit.
Throw(r) ==
  /\ Faults
  /\ run[r].pc \in Working
  /\ Goto(r, "error")
  /\ UNCHANGED <<intentVars, planVars, execVars, opsVars, queueVars, request>>

(* The execute worker's "failed" listener: fire and forget, no job behind it *)

\* The dead-letter records and the status update are promises of their own, and
\* each may be rejected without a trace: .catch(() => undefined).
FailedRead(r) ==
  /\ run[r].pc = "on_failed"
  /\ \/ deadLetters' = deadLetters \cup {Target(r)}
     \/ Faults /\ UNCHANGED deadLetters
  /\ run' = [run EXCEPT ![r].seen = status[Target(r)], ![r].pc = "fail_commit"]
  /\ UNCHANGED <<intentVars, planVars, execVars, opsVars, job, evictions, losses, abandoned, request>>

MarksFailed(seen) == CanTransition(seen, "failed")

FailedCommit(r) ==
  /\ run[r].pc = "fail_commit"
  /\ IF MarksFailed(run[r].seen)
     THEN status' = [status EXCEPT ![Target(r)] = "failed"]
     ELSE UNCHANGED status
  /\ run' = [run EXCEPT ![r] = Idle]
  /\ UNCHANGED <<approval, planVars, execVars, opsVars, queueVars, request>>

\* A rejected read or transaction ends the listener with the status as it was.
FailedRejected(r) ==
  /\ Faults
  /\ Listening(r)
  /\ deadLetters' \in {deadLetters} \cup
       (IF run[r].pc = "on_failed" THEN {deadLetters \cup {Target(r)}} ELSE {})
  /\ abandoned' = abandoned \cup {Target(r)}
  /\ run' = [run EXCEPT ![r] = Idle]
  /\ UNCHANGED <<intentVars, planVars, execVars, opsVars, job, evictions, losses, request>>

----------------------------------------------------------------------------
(* The API *)

\* POST /intents/:id/<stage>: no check of the status.  A client that polls
\* posts a stage only when the previous one shows in the status.
Enqueue(i, s) ==
  /\ Eager \/ status[i] = Before(s)
  /\ job' = Added(job, i, s)
  /\ UNCHANGED <<intentVars, planVars, execVars, opsVars, deadLetters, evictions, losses, abandoned, run, request>>

Approve(i) ==
  /\ "approve" \in Operators
  /\ approval' = [approval EXCEPT ![i] = "approved"]
  /\ UNCHANGED <<status, planVars, execVars, opsVars, queueVars, run, request>>

\* POST /hold and /release read the row, then update it unconditionally;
\* release then adds the job of the stage that follows.
HoldRead(i) ==
  /\ "hold" \in Operators
  /\ request[i] = None
  /\ CanTransition(status[i], "held")
  /\ request' = [request EXCEPT ![i] = "hold"]
  /\ UNCHANGED <<intentVars, planVars, execVars, opsVars, queueVars, run>>

HoldCommit(i) ==
  /\ request[i] = "hold"
  /\ status' = [status EXCEPT ![i] = "held"]
  /\ request' = [request EXCEPT ![i] = None]
  /\ UNCHANGED <<approval, planVars, execVars, opsVars, queueVars, run>>

ReleaseRead(i) ==
  /\ "hold" \in Operators
  /\ request[i] = None
  /\ status[i] = "held"
  /\ request' = [request EXCEPT ![i] = "release"]
  /\ UNCHANGED <<intentVars, planVars, execVars, opsVars, queueVars, run>>

\* release goes back to "routed" if a plan exists, else to "quoted".
ReleasePlan(i) ==
  /\ request[i] = "release"
  /\ request' = [request EXCEPT ![i] = IF Len(plans[i]) > 0 THEN "routed" ELSE "quoted"]
  /\ UNCHANGED <<intentVars, planVars, execVars, opsVars, queueVars, run>>

ReleaseCommit(i) ==
  /\ request[i] \in {"routed", "quoted"}
  /\ status' = [status EXCEPT ![i] = request[i]]
  /\ request' = [request EXCEPT ![i] = IF @ = "routed" THEN "policy" ELSE "route"]
  /\ UNCHANGED <<approval, planVars, execVars, opsVars, queueVars, run>>

ReleaseEnqueue(i) ==
  /\ request[i] \in {"policy", "route"}
  /\ job' = Added(job, i, request[i])
  /\ request' = [request EXCEPT ![i] = None]
  /\ UNCHANGED <<intentVars, planVars, execVars, opsVars, deadLetters, evictions, losses, abandoned, run>>

\* A rejected await ends the request where it stands: a released intent may be
\* left without the job of its next stage.
RequestRejected(i) ==
  /\ RequestFaults
  /\ request[i] # None
  /\ request' = [request EXCEPT ![i] = None]
  /\ UNCHANGED <<intentVars, planVars, execVars, opsVars, queueVars, run>>

OverrideRoute(i) ==
  /\ "override" \in Operators
  /\ \E p \in 1..Len(plans[i]) : override' = [override EXCEPT ![i] = p]
  /\ UNCHANGED <<intentVars, plans, decisions, decision, execVars, opsVars, queueVars, run, request>>

SetPaused(s) ==
  /\ "pause" \in Operators
  /\ paused' \in {paused \cup {s}, paused \ {s}}
  /\ UNCHANGED <<intentVars, planVars, execVars, killSwitch, queueVars, run, request>>

SetKillSwitch ==
  /\ "kill" \in Operators
  /\ killSwitch' \in BOOLEAN
  /\ UNCHANGED <<intentVars, planVars, execVars, paused, queueVars, run, request>>

----------------------------------------------------------------------------

Handler(r) ==
  \/ ReadIntent(r) \/ PolicyPlan(r)
  \/ QuoteCommit(r) \/ RouteCommit(r) \/ PolicyCommit(r)
  \/ ExecKillSwitch(r) \/ ExecIntent(r) \/ ExecStrategy(r) \/ ExecDecision(r)
  \/ ExecPlan(r) \/ ExecDedup(r)
  \/ ExecSubmit(r) \/ ExecRecord(r) \/ ExecComplete(r) \/ ExecJournal(r)
  \/ FailedRead(r) \/ FailedCommit(r)
  \/ Ack(r)

Api(i) ==
  \/ \E s \in Stages : Enqueue(i, s)
  \/ Approve(i)
  \/ HoldRead(i) \/ HoldCommit(i)
  \/ ReleaseRead(i) \/ ReleasePlan(i) \/ ReleaseCommit(i) \/ ReleaseEnqueue(i)
  \/ RequestRejected(i)
  \/ OverrideRoute(i)

Next ==
  \/ \E r \in Runs : Handler(r) \/ Throw(r) \/ FailedRejected(r) \/ Crash(r) \/ LoseLock(r)
  \/ \E r \in Runs, i \in Intents, s \in Stages : Pickup(r, i, s)
  \/ \E i \in Intents, s \in Stages : Stalled(i, s) \/ Evict(i, s)
  \/ \E i \in Intents : Api(i)
  \/ \E s \in Strategies : SetPaused(s)
  \/ SetKillSwitch

Spec == Init /\ [][Next]_vars

\* Workers keep running their handlers and taking jobs, the stalled check
\* keeps running, and the API finishes a release it began.  Clients, operators,
\* faults and crashes owe nothing.
Fairness ==
  /\ \A r \in Runs : WF_vars(Handler(r))
  /\ \A i \in Intents, s \in Stages :
       /\ WF_vars(\E r \in Runs : Pickup(r, i, s))
       /\ WF_vars(Stalled(i, s))
  /\ \A i \in Intents  :
       WF_vars(HoldCommit(i) \/ ReleasePlan(i) \/ ReleaseCommit(i) \/ ReleaseEnqueue(i))

FairSpec == Spec /\ Fairness

----------------------------------------------------------------------------
(* Properties *)

Verdict == [plan : Nat, allowed : BOOLEAN]
RowType == [plan : Nat, step : Nat, outcome : Outcomes]
JobType == [state : {"none", "waiting", "active", "completed", "failed"},
            attempts : Nat, stalls : Nat]
RunType == [pc : PCs, intent : Intents \cup {None}, stage : Stages \cup {None},
            seen : Statuses \cup {None}, plan : Nat, step : Nat,
            reply : Outcomes \cup {None}, owner : BOOLEAN]

TablesOK ==
  /\ status \in [Intents -> Statuses]
  /\ approval \in [Intents -> {"not_required", "pending", "approved"}]
  /\ plans \in [Intents -> Seq(Steps)]
  /\ override \in [Intents -> Nat]
  /\ decisions \in [Intents -> SUBSET Verdict]
  /\ decision \in [Intents -> Verdict \cup {None}]
  /\ rows \in [Intents -> SUBSET RowType]
  /\ lastRow \in [Intents -> Outcomes \cup {None}]
  /\ journal \subseteq Intents
  /\ killSwitch \in BOOLEAN
  /\ paused \subseteq Strategies
  /\ request \in [Intents -> {None, "hold", "release", "routed", "quoted", "policy", "route"}]
  /\ published \in [Intents -> [Steps -> Nat]]

QueuesOK ==
  /\ job \in [Intents -> [Stages -> JobType]]
  /\ deadLetters \subseteq Intents
  /\ evictions \in Nat
  /\ losses \in Nat
  /\ abandoned \subseteq Intents

\* A run at work has an intent and a stage, and the locals its next step reads.
RunOK(a) ==
  /\ a \in RunType
  /\ a.pc # "idle" => a.intent \in Intents /\ a.stage \in Stages
  /\ a.pc = "record" => a.reply \in Outcomes

RunsOK == run \in [Runs -> RunType] /\ \A r \in Runs : RunOK(run[r])

\* Every variable keeps the shape the schema and the queues give it, and every
\* handler activation the locals its next step reads.
TypeOK == TablesOK /\ QueuesOK /\ RunsOK

\* An intent is cleared once some policy decision allowed it and, if it is live
\* and requires approval, an admin approved it.
Cleared(i) == Approved(i) /\ \E d \in decisions[i] : d.allowed

SentSteps(i) == {k \in Steps : published[i][k] > 0}

\* The pipeline implements the gate: whatever the interleaving of workers,
\* retries, holds, overrides and crashes, adapter.execute is reached only
\* behind the approval and policy guards of the execute handler, hop by hop.
Gate == INSTANCE IntentGate WITH
  cleared <- {i \in Intents : Cleared(i)},
  sent    <- [i \in Intents |-> SentSteps(i)],
  settled <- journal

GateSpec == Gate!Spec

\* The rows of a plan's first n steps, as the step loop records them.
RecordedUpTo(i, p, n) ==
  \A k \in 1..n : [plan |-> p, step |-> k, outcome |-> "ok"] \in rows[i]

FullyRecorded(i) ==
  \E p \in 1..Len(plans[i]) : RecordedUpTo(i, p, plans[i][p])

\* "executed" is never written, and the journal never appended to, before
\* every step of one route plan of the intent has its successful execution row:
\* a skipped, failed or half-finished loop does not look executed.
ExecutedIsFullyRecorded ==
  \A i \in Intents : status[i] = "executed" \/ i \in journal => FullyRecorded(i)

\* While no worker outlives its lock, a run about to submit the first step of a
\* live intent still finds what it found at its dedup check: no execution row
\* that blocks a second submission (hasBlockingExecutionForIntent).
NoSubmitOverOpenExecution ==
  \A r \in Runs :
    (run[r].pc = "submit" /\ run[r].step = 1 /\ Target(r) \in Live)
      => ~HasBlockingExecution(Target(r))

----------------------------------------------------------------------------
(* The inductive invariant behind the safety properties above *)

InFlight == {"dedup", "submit", "record", "complete", "journal"}

\* A job has one owner at most, and is active while it has one; without zombies
\* every handler at work owns its job.
OneOwner ==
  /\ \A r \in Runs : run[r].owner =>
       run[r].pc # "idle" /\ job[Target(r)][run[r].stage].state = "active"
  /\ \A q, r \in Runs :
       run[q].owner /\ run[r].owner /\ Target(q) = Target(r) /\ run[q].stage = run[r].stage => q = r
  /\ ~Zombies => \A r \in Runs : run[r].pc \in Working \cup Verdicts \cup {"journal"} => run[r].owner

\* An execute handler past a guard: the guard still stands.
GuardsPassed(r) ==
  /\ run[r].pc \in InFlight => run[r].stage = "execute"
  /\ run[r].stage = "execute" /\ run[r].pc \in {"strategy", "decision", "plan"} \cup InFlight
       => Approved(Target(r))
  /\ run[r].stage = "execute" /\ run[r].pc \in {"plan"} \cup InFlight
       => \E d \in decisions[Target(r)] : d.allowed

\* An execute handler in the step loop walks along a stored plan.
OnPlan(r) ==
  run[r].pc \in InFlight =>
    /\ run[r].plan \in 1..Len(plans[Target(r)])
    /\ run[r].step \in 1..plans[Target(r)][run[r].plan]

\* Every step behind the loop has its row, and the venue carried out a step it
\* reported.
RowsFollowLoop(r) ==
  /\ run[r].pc \in {"dedup", "submit", "record"} => RecordedUpTo(Target(r), run[r].plan, run[r].step - 1)
  /\ run[r].pc \in {"complete", "journal"}
       => RecordedUpTo(Target(r), run[r].plan, plans[Target(r)][run[r].plan])
  /\ run[r].pc = "record" /\ run[r].reply = "ok" => published[Target(r)][run[r].step] > 0

RunInv(r) == GuardsPassed(r) /\ OnPlan(r) /\ RowsFollowLoop(r)

\* The tables agree with each other and with the venue.
TablesInv(i) ==
  /\ decision[i] # None => decision[i] \in decisions[i]
  /\ override[i] <= Len(plans[i])
  /\ \A e \in rows[i] : e.outcome = "ok" => e.step \in Steps /\ published[i][e.step] > 0

Inv ==
  /\ TypeOK
  /\ OneOwner
  /\ \A r \in Runs : RunInv(r)
  /\ \A i \in Intents : TablesInv(i)
  /\ ExecutedIsFullyRecorded
  /\ ~Zombies => NoSubmitOverOpenExecution

----------------------------------------------------------------------------
(* Properties of particular settings, and liveness *)

\* Every change of the status column is a transition of lifecycle.ts.
StatusFollowsLifecycle ==
  [][\A i \in Intents : status'[i] # status[i] => CanTransition(status[i], status'[i])]_status

\* A plan whose steps reach a venue is one a policy decision allowed.
ExecutedPlanWasAllowed ==
  \A i \in Intents : override[i] = 0 => \A e \in rows[i] :
    \E d \in decisions[i] : d.plan = e.plan /\ d.allowed

\* Whatever throws, dies or stalls, a job is processed or given up for good:
\* attempts and stalls are bounded and a stalled job is found.
EveryJobSettles ==
  \A i \in Intents, s \in Stages :
    (job[i][s].state \in {"waiting", "active"}) ~> (job[i][s].state \in {"none", "completed", "failed"})

\* A worker that takes an execute job of an intent leaves it executed or failed:
\* an outcome recorded, a guard that refuses, attempts used up, a process that
\* dies before the first row all come to a verdict.  The exceptions are the
\* two places where the code drops the intent: the run that meets a row of an
\* earlier attempt and returns at the duplicate check, and the "failed" listener
\* that dies or meets a rejected await.
ExecuteReachesVerdict ==
  \A i \in Intents :
    (job[i]["execute"].state = "waiting") ~> (status[i] \in {"executed", "failed"} \/ i \in abandoned)

----------------------------------------------------------------------------
(* Claims of the documentation that the code does not keep *)

\* "Release a previously held intent and allow the pipeline to resume from the
\* next backend stage": a released intent leaves the status it was released to.
ReleaseResumes ==
  \A i \in Intents :
    (request[i] = "policy" /\ status[i] = "routed") ~> (status[i] # "routed")

\* A live step that progressed on-chain is not submitted a second time.
NoDuplicateSubmission ==
  \A i \in Live : \A k \in Steps : published[i][k] <= 1
=============================================================================
