------------------------------ MODULE AgentRun ------------------------------
(***************************************************************************)
(* execute of a KeetaAgent: the local pass over route, policy and          *)
(* simulation, then the five requests of the pipeline posted one after the *)
(* other, and the wait for a terminal event.  The workers of the pipeline  *)
(* take their jobs in any order; IntentPipeline has them in detail.        *)
(***************************************************************************)
EXTENDS Naturals, FiniteSets

CONSTANT Locals  \* whether the agent has { registry, policy }: a subset of BOOLEAN

AgentAssumption == Locals \subseteq BOOLEAN

VARIABLES
  local,    \* the agent runs route, policy and simulation itself first
  live,     \* the intent's mode is live
  pc,       \* where execute stands
  result,   \* what it returned
  status,   \* status of the intent in the control plane
  queued,   \* the stages with a job that waits
  events,   \* the intent's audit events since the cursor
  seen,     \* those the agent has recorded
  hooked,   \* afterExecution ran
  lost      \* a reply the agent needed got lost

vars == <<local, live, pc, result, status, queued, events, seen, hooked, lost>>
serverVars == <<status, queued, events>>

Stages == <<"quote", "route", "policy", "execute">>
From == [quote |-> "created", route |-> "quoted", policy |-> "routed",
         execute |-> "policy_checked"]
To == [quote |-> "quoted", route |-> "routed", policy |-> "policy_checked",
       execute |-> "executed"]

TerminalEvents == {"intent.executed", "intent.failed", "execution.confirmed",
                   "execution.failed"}
FailedEvents == {"intent.failed", "execution.failed"}
Terminal(E) == E \cap TerminalEvents # {}
WorkerEvents == {"execution.step_completed", "execution.completed", "execution.failed",
                 "execution.job_failed"}

Init ==
  /\ local \in Locals /\ live \in BOOLEAN
  /\ pc = "start" /\ result = "none"
  /\ status = "none" /\ queued = {} /\ events = {}
  /\ seen = {} /\ hooked = FALSE /\ lost = FALSE

Returns(kind) == pc' = "done" /\ result' = kind

----------------------------------------------------------------------------
(* The agent *)

\* quoteAndRoute, evaluatePolicy and runSimulation of the AgentRuntime.
LocalPass ==
  /\ pc = "start"
  /\ \/ ~local /\ pc' = "create" /\ UNCHANGED result
     \/ local /\ Returns("denied")
     \/ local /\ ~live /\ Returns("simulated")
     \/ local /\ live /\ pc' = "create" /\ UNCHANGED result
  /\ UNCHANGED <<local, live, serverVars, seen, hooked, lost>>

\* A hook or a local step throws: execute runs onError and returns failed.
LocalThrows ==
  /\ pc \in {"start", "create", "quote"} \/ (pc = "observed" /\ Terminal(seen))
  /\ Returns("failed")
  /\ UNCHANGED <<local, live, serverVars, seen, hooked, lost>>

CreateIntent ==
  /\ pc = "create"
  /\ status' = "created"
  /\ pc' = "quote"
  /\ UNCHANGED <<local, live, result, queued, events, seen, hooked, lost>>

AfterPost(stage) ==
  CASE stage = "quote" -> "route" [] stage = "route" -> "policy"
    [] stage = "policy" -> "execute" [] stage = "execute" -> "wait"

\* The cursor is taken before the execute request: no earlier event is terminal.
Post(stage) ==
  /\ pc = stage
  /\ queued' = queued \cup {stage}
  /\ pc' = AfterPost(stage)
  /\ UNCHANGED <<local, live, result, status, events, seen, hooked, lost>>

\* The request is refused, or served and the reply lost.
PostFails(stage) ==
  /\ pc = stage
  /\ \/ UNCHANGED <<queued, lost>>
     \/ queued' = queued \cup {stage} /\ lost' = TRUE
  /\ Returns("submission_failed")
  /\ UNCHANGED <<local, live, status, events, seen, hooked>>

\* An event of the stream; a terminal one closes it.
StreamEvent(e) ==
  /\ pc = "wait" /\ e \in events \ seen
  /\ seen' = seen \cup {e}
  /\ pc' = IF Terminal({e}) THEN "observed" ELSE "wait"
  /\ UNCHANGED <<local, live, result, serverVars, hooked, lost>>

\* The stream ends or pollTimeoutMs is over; the events are listed once more, or
\* the list does not come back.
StreamEnds ==
  /\ pc = "wait"
  /\ \/ seen' = seen \cup events /\ pc' = "observed" /\ UNCHANGED <<result, lost>>
     \/ lost' = TRUE /\ Returns("failed") /\ UNCHANGED seen
  /\ UNCHANGED <<local, live, serverVars, hooked>>

\* Mutant of Conclude: a wait without a verdict is a failure.
ConcludeFailed ==
  /\ pc = "observed"
  /\ hooked' = Terminal(seen)
  /\ Returns(IF seen \cap FailedEvents = {} /\ Terminal(seen) THEN "executed" ELSE "failed")
  /\ UNCHANGED <<local, live, serverVars, seen, lost>>

Conclude ==
  /\ pc = "observed"
  /\ hooked' = Terminal(seen)
  /\ Returns(IF seen \cap FailedEvents # {} THEN "failed"
             ELSE IF Terminal(seen) THEN "executed" ELSE "pending")
  /\ UNCHANGED <<local, live, serverVars, seen, lost>>

----------------------------------------------------------------------------
(* The pipeline *)

\* The handler moves the intent on, or finds it in another status and gives the
\* job up for good (UnrecoverableError).
StageRuns(stage) ==
  /\ stage \in queued \ {"execute"}
  /\ queued' = queued \ {stage}
  /\ status' = IF status = From[stage] THEN To[stage] ELSE status
  /\ UNCHANGED <<local, live, pc, result, events, seen, hooked, lost>>

ExecuteRuns ==
  /\ "execute" \in queued
  /\ queued' = queued \ {"execute"}
  /\ \/ /\ status = From["execute"]
        /\ status' = "executed"
        /\ events' = events \cup {"execution.step_completed", "execution.completed"}
     \/ /\ status = From["execute"]   \* the adapter reports a failure
        /\ status' = "failed"
        /\ events' = events \cup {"execution.failed"}
     \/ /\ status = From["execute"]   \* attempts are exhausted
        /\ status' = "failed"
        /\ events' = events \cup {"execution.job_failed"}
     \/ /\ status # From["execute"]   \* Cannot execute from status ...
        /\ status' = "failed"
        /\ events' = events \cup {"execution.job_failed"}
  /\ UNCHANGED <<local, live, pc, result, seen, hooked, lost>>

AgentStep ==
  \/ LocalPass \/ LocalThrows \/ CreateIntent \/ StreamEnds \/ Conclude
  \/ \E stage \in DOMAIN From : Post(stage) \/ PostFails(stage)
  \/ \E e \in WorkerEvents : StreamEvent(e)

Next == AgentStep \/ ExecuteRuns \/ \E stage \in DOMAIN From : StageRuns(stage)

Spec == Init /\ [][Next]_vars

----------------------------------------------------------------------------
(* Properties *)

Kinds == {"none", "denied", "simulated", "executed", "pending", "failed", "submission_failed"}

\* Type invariant.
TypeOK ==
  /\ {local, live, hooked, lost} \subseteq BOOLEAN
  /\ pc \in {"start", "create", "wait", "observed", "done"} \cup DOMAIN From
  /\ result \in Kinds
  /\ status \in {"none", "created", "quoted", "routed", "policy_checked", "executed", "failed"}
  /\ queued \subseteq DOMAIN From
  /\ events \subseteq WorkerEvents /\ seen \subseteq events

\* After a failure that the agent reports, be it the submission or the execution,
\* the intent is never executed: the caller may submit it anew, unless a reply got
\* lost on the way.
FailureIsSafeToRetry ==
  (result \in {"denied", "failed", "submission_failed"} /\ ~lost) => status # "executed"

\* FailureIsSafeToRetry, made inductive: the execution is asked for once, by the last
\* post; an execution that failed is over; and whoever reports a failure without a
\* lost reply has not asked, or has seen that it failed.
FailuresAreFinal ==
  /\ (result = "none") = (pc # "done")
  /\ ("execute" \in queued \/ status \in {"executed", "failed"})
       => pc \in {"wait", "observed", "done"}
  /\ "execution.failed" \in events => status = "failed" /\ "execute" \notin queued
  /\ (result \in {"denied", "failed", "submission_failed"} /\ ~lost)
       => status # "executed" /\ "execute" \notin queued

\* "kind: 'executed'": an intent that was executed while the agent waited is
\* reported as such.
ExecutedIsReported ==
  (result = "pending") => "execution.completed" \notin seen
=============================================================================
