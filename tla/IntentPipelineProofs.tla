------------------------ MODULE IntentPipelineProofs ------------------------
(***************************************************************************)
(* Theorems about the intent pipeline, for every set of intents, number of *)
(* worker activations, route length, retry bound and fault setting.        *)
(***************************************************************************)
EXTENDS IntentPipeline, TLAPS

\* What Moved does to an activation: only its place changes, or with a verdict
\* its locals are cleared; the job it works on and its lock stay.
LEMMA MovedFacts ==
  ASSUME NEW a \in RunType, NEW pc \in PCs
  PROVE  /\ Moved(a, pc) \in RunType
         /\ Moved(a, pc).pc = pc
         /\ Moved(a, pc).intent = a.intent
         /\ Moved(a, pc).stage = a.stage
         /\ Moved(a, pc).owner = a.owner
         /\ pc \notin Verdicts => /\ Moved(a, pc).plan = a.plan
                                  /\ Moved(a, pc).step = a.step
                                  /\ Moved(a, pc).reply = a.reply
                                  /\ Moved(a, pc).seen = a.seen
BY DEF Moved, RunType, PCs, Working, Verdicts, Idle, Outcomes

\* The records the actions store in a queue or in a worker are well formed.
LEMMA Shapes ==
  /\ NoJob \in JobType /\ FreshJob \in JobType
  /\ JobIn("completed") \in JobType /\ JobIn("failed") \in JobType
  /\ RunOK(Idle) /\ Idle.pc = "idle"
BY DEF NoJob, FreshJob, JobIn, JobType, Idle, RunType, RunOK, PCs

\* An activation that moves on within its handler stays well formed.
LEMMA MovedOK ==
  ASSUME NEW a \in RunType, a.intent \in Intents, a.stage \in Stages,
         NEW pc \in PCs \ {"idle", "record"}
  PROVE  RunOK(Moved(a, pc))
BY MovedFacts DEF RunOK

\* The initial state is well typed.
LEMMA InitTypeOK == Init => TypeOK
<1> SUFFICES ASSUME Init PROVE TypeOK
  OBVIOUS
<1>1. plans \in [Intents -> Seq(Steps)] /\ published \in [Intents -> [Steps -> Nat]]
  BY DEF Init
<1>2. TablesOK
  BY <1>1 DEF Init, TablesOK, Statuses
<1>3. QueuesOK /\ RunsOK
  BY Shapes DEF Init, QueuesOK, RunsOK, RunOK
<1> QED
  BY <1>2, <1>3 DEF TypeOK

\* Storing a well-formed activation keeps all activations well formed.
LEMMA RunStored ==
  ASSUME RunsOK, NEW r \in Runs, NEW a, RunOK(a), run' = [run EXCEPT ![r] = a]
  PROVE  RunsOK'
BY DEF RunsOK, RunOK

\* Storing a well-formed job keeps the queues well formed.
LEMMA JobStored ==
  ASSUME QueuesOK, NEW i \in Intents, NEW s \in Stages, NEW j \in JobType,
         job' = [job EXCEPT ![i][s] = j], UNCHANGED <<deadLetters, evictions, losses, abandoned>>
  PROVE  QueuesOK'
BY DEF QueuesOK

\* The job an activation works on is one of the queues' jobs.
LEMMA RunTarget ==
  ASSUME RunsOK, NEW r \in Runs, run[r].pc # "idle"
  PROVE  Target(r) \in Intents /\ run[r].stage \in Stages
BY DEF RunsOK, RunOK, RunType, Target

\* The queue machinery keeps the variables well typed.
LEMMA QueueTypeStep ==
  ASSUME TypeOK, NEW r, NEW i, NEW s,
         \/ r \in Runs /\ i \in Intents /\ s \in Stages /\ Pickup(r, i, s)
         \/ r \in Runs /\ (Ack(r) \/ FailedRejected(r) \/ Crash(r) \/ LoseLock(r))
         \/ i \in Intents /\ s \in Stages /\ (Stalled(i, s) \/ Evict(i, s))
  PROVE  TypeOK'
<1> USE DEF intentVars, planVars, execVars, opsVars
<1>1. TablesOK'
  BY DEF Pickup, Ack, FailedRejected, Listening, Crash, LoseLock, Stalled, Evict, TypeOK, TablesOK
<1>2. CASE r \in Runs /\ i \in Intents /\ s \in Stages /\ Pickup(r, i, s)
  <2> DEFINE a == [Idle EXCEPT !.intent = i, !.stage = s, !.owner = TRUE,
                     !.pc = IF job[i][s].stalls > MaxStalled THEN "fatal" ELSE "begin"]
             j == [job[i][s] EXCEPT !.state = "active"]
  <2>1. RunOK(a)
    BY <1>2 DEF RunOK, RunType, Idle, PCs, Working, Verdicts
  <2>2. j \in JobType /\ job' = [job EXCEPT ![i][s] = j]
    <3>1. job \in [Intents -> [Stages -> JobType]]
      BY DEF TypeOK, QueuesOK
    <3>2. job[i][s] \in JobType
      BY <1>2, <3>1
    <3>3. job' = [job EXCEPT ![i][s].state = "active"]
      BY <1>2 DEF Pickup
    <3>4. job' = [job EXCEPT ![i][s] = j]
      BY <1>2, <3>1, <3>3
    <3> QED
      BY <3>2, <3>4 DEF JobType
  <2>3. RunsOK'
    BY <1>2, <2>1, RunStored DEF Pickup, TypeOK
  <2>4. QueuesOK'
    BY <1>2, <2>2, JobStored DEF Pickup, TypeOK
  <2> QED
    BY <1>1, <2>3, <2>4 DEF TypeOK
<1>3. CASE r \in Runs /\ Ack(r)
  <2>1. Target(r) \in Intents /\ run[r].stage \in Stages
    BY <1>3, RunTarget DEF Ack, Verdicts, TypeOK
  <2>2. RunOK([run[r] EXCEPT !.pc = "on_failed", !.owner = FALSE])
    BY <1>3 DEF Ack, Verdicts, TypeOK, RunsOK, RunOK, RunType, PCs
  <2>3. RunsOK'
    BY <1>3, <2>2, Shapes, RunStored DEF Ack, TypeOK
  <2> DEFINE j == Waiting(job[Target(r)][run[r].stage].attempts + 1, job[Target(r)][run[r].stage].stalls)
  <2>4. j \in JobType
    BY <2>1 DEF TypeOK, QueuesOK, JobType, Waiting
  <2>5. \/ job' = job
        \/ \E k \in {j, JobIn("completed"), JobIn("failed")} :
             job' = [job EXCEPT ![Target(r)][run[r].stage] = k]
    BY <1>3, <2>1 DEF Ack, TypeOK, QueuesOK, JobType
  <2>6. QueuesOK'
    BY <1>3, <2>1, <2>4, <2>5, Shapes, JobStored DEF Ack, TypeOK, QueuesOK
  <2> QED
    BY <1>1, <2>3, <2>6 DEF TypeOK
<1>4. CASE r \in Runs /\ (FailedRejected(r) \/ Crash(r) \/ LoseLock(r))
  <2>1. RunOK([run[r] EXCEPT !.owner = FALSE])
    BY <1>4 DEF TypeOK, RunsOK, RunOK, RunType
  <2>2. RunsOK'
    BY <1>4, <2>1, Shapes, RunStored DEF FailedRejected, Listening, Crash, LoseLock, TypeOK
  <2>3. Listening(r) => Target(r) \in Intents
    BY <1>4, RunTarget DEF Listening, TypeOK
  <2>4. QueuesOK'
    BY <1>4, <2>3 DEF FailedRejected, Crash, LoseLock, TypeOK, QueuesOK
  <2> QED
    BY <1>1, <2>2, <2>4 DEF TypeOK
<1>5. CASE i \in Intents /\ s \in Stages /\ Stalled(i, s)
  <2> DEFINE j == Waiting(job[i][s].attempts,
                    IF job[i][s].stalls > MaxStalled THEN job[i][s].stalls ELSE job[i][s].stalls + 1)
  <2>1. j \in JobType
    BY <1>5, PipelineAssumption DEF TypeOK, QueuesOK, JobType, Waiting
  <2>2. job' = [job EXCEPT ![i][s] = j]
    BY <1>5 DEF Stalled, TypeOK, QueuesOK
  <2>3. QueuesOK'
    BY <1>5, <2>1, <2>2, JobStored DEF Stalled, TypeOK
  <2>4. RunsOK'
    BY <1>5 DEF Stalled, TypeOK, RunsOK
  <2> QED
    BY <1>1, <2>3, <2>4 DEF TypeOK
<1>6. CASE i \in Intents /\ s \in Stages /\ Evict(i, s)
  BY <1>1, <1>6, Shapes DEF Evict, TypeOK, QueuesOK, RunsOK
<1> QED
  BY <1>2, <1>3, <1>4, <1>5, <1>6

\* The quote, route and policy handlers keep the variables well typed.
LEMMA StageTypeStep ==
  ASSUME TypeOK, NEW r \in Runs,
         \/ ReadIntent(r) \/ PolicyPlan(r)
         \/ QuoteCommit(r) \/ RouteCommit(r) \/ PolicyCommit(r)
  PROVE  TypeOK'
<1> USE DEF intentVars, planVars, execVars, opsVars, queueVars
<1> DEFINE i == Target(r)
<1>1. RunOK(run[r]) /\ run[r].pc # "idle" /\ i \in Intents
  <2>1. run[r].pc # "idle"
    BY DEF ReadIntent, PolicyPlan, QuoteCommit, RouteCommit, PolicyCommit, At
  <2> QED
    BY <2>1, RunTarget DEF TypeOK, RunsOK
<1>2. status[i] \in Statuses /\ plans[i] \in Seq(Steps) /\ ChosenPlan(i) \in Nat
  BY <1>1 DEF TypeOK, TablesOK, ChosenPlan
<1>3. QueuesOK'
  BY DEF ReadIntent, PolicyPlan, QuoteCommit, RouteCommit, PolicyCommit, TypeOK, QueuesOK
<1>4. RunsOK'
  <2>1. CASE ReadIntent(r)
    <3> DEFINE a == [run[r] EXCEPT !.seen = status[i]]
               next == IF ~CanTransition(status[i], After(run[r].stage)) THEN "fatal"
                       ELSE IF run[r].stage = "policy" THEN "plan" ELSE "commit"
    <3>1. RunOK(a) /\ a.pc # "idle"
      BY <1>1, <1>2 DEF RunOK, RunType
    <3>2. next \in PCs \ {"idle", "record"}
      BY DEF PCs, Working, Verdicts
    <3>3. RunOK(Moved(a, next))
      BY <3>1, <3>2, MovedOK DEF RunOK
    <3> QED
      BY <2>1, <3>3, RunStored DEF ReadIntent, TypeOK
  <2>2. CASE PolicyPlan(r)
    <3> DEFINE a == [run[r] EXCEPT !.plan = ChosenPlan(i)]
    <3>1. RunOK(a) /\ a.pc # "idle"
      BY <1>1, <1>2 DEF RunOK, RunType
    <3>2. RunOK(Moved(a, "commit"))
      BY <3>1, MovedOK DEF RunOK, PCs, Working
    <3> QED
      BY <2>2, <3>2, RunStored DEF PolicyPlan, TypeOK
  <2>3. CASE QuoteCommit(r) \/ RouteCommit(r) \/ PolicyCommit(r)
    <3>1. RunOK(Moved(run[r], "done"))
      BY <1>1, MovedOK DEF RunOK, PCs, Verdicts
    <3> QED
      BY <2>3, <3>1, RunStored DEF QuoteCommit, RouteCommit, PolicyCommit, Goto, TypeOK
  <2> QED
    BY <2>1, <2>2, <2>3
<1>5. TablesOK'
  <2>1. CASE ReadIntent(r) \/ PolicyPlan(r)
    BY <2>1 DEF ReadIntent, PolicyPlan, TypeOK, TablesOK
  <2>2. CASE QuoteCommit(r)
    BY <1>1, <2>2 DEF QuoteCommit, Transition, TypeOK, TablesOK, Statuses
  <2>3. CASE RouteCommit(r)
    <3>1. PICK hops \in 1..MaxHops : plans' = [plans EXCEPT ![i] = Append(@, hops)]
      BY <2>3 DEF RouteCommit
    <3>2. Append(plans[i], hops) \in Seq(Steps)
      BY <1>2 DEF Steps
    <3>3. plans' \in [Intents -> Seq(Steps)]
      BY <3>1, <3>2 DEF TypeOK, TablesOK
    <3> QED
      BY <1>1, <2>3, <3>3 DEF RouteCommit, Transition, TypeOK, TablesOK, Statuses
  <2>4. CASE PolicyCommit(r)
    <3>1. PICK allowed \in BOOLEAN :
            /\ decision' = [decision EXCEPT ![i] = [plan |-> run[r].plan, allowed |-> allowed]]
            /\ decisions' = [decisions EXCEPT
                               ![i] = @ \cup {[plan |-> run[r].plan, allowed |-> allowed]}]
      BY <2>4 DEF PolicyCommit
    <3>2. [plan |-> run[r].plan, allowed |-> allowed] \in Verdict
      BY <1>1 DEF RunOK, RunType, Verdict
    <3>3. decision' \in [Intents -> Verdict \cup {None}] /\ decisions' \in [Intents -> SUBSET Verdict]
      BY <3>1, <3>2 DEF TypeOK, TablesOK
    <3> QED
      BY <1>1, <2>4, <3>3 DEF PolicyCommit, Transition, TypeOK, TablesOK, Statuses
  <2> QED
    BY <2>1, <2>2, <2>3, <2>4
<1> QED
  BY <1>3, <1>4, <1>5 DEF TypeOK

\* The execute handler keeps the variables well typed.
LEMMA ExecTypeStep ==
  ASSUME TypeOK, NEW r \in Runs,
         \/ ExecKillSwitch(r) \/ ExecIntent(r) \/ ExecStrategy(r) \/ ExecDecision(r)
         \/ ExecPlan(r) \/ ExecDedup(r) \/ ExecSubmit(r) \/ ExecRecord(r) \/ ExecComplete(r) \/ ExecJournal(r)
         \/ Throw(r) \/ FailedRead(r) \/ FailedCommit(r)
  PROVE  TypeOK'
<1> USE DEF intentVars, planVars, execVars, opsVars, queueVars
<1> DEFINE i == Target(r)
<1>1. RunOK(run[r]) /\ run[r].pc # "idle" /\ i \in Intents
  <2>1. run[r].pc # "idle"
    BY DEF ExecKillSwitch, ExecIntent, ExecStrategy, ExecDecision, ExecPlan, ExecDedup, ExecSubmit, ExecRecord,
           ExecComplete, ExecJournal, Throw, FailedRead, FailedCommit, At, Working
  <2> QED
    BY <2>1, RunTarget DEF TypeOK, RunsOK
<1>2. status[i] \in Statuses /\ plans[i] \in Seq(Steps) /\ ChosenPlan(i) \in Nat
  BY <1>1 DEF TypeOK, TablesOK, ChosenPlan
<1>3. QueuesOK'
  BY <1>1 DEF ExecKillSwitch, ExecIntent, ExecStrategy, ExecDecision, ExecPlan, ExecDedup, ExecSubmit, ExecRecord,
         ExecComplete, ExecJournal, Throw, FailedRead, FailedCommit, TypeOK, QueuesOK
<1>4. RunsOK'
  <2>1. CASE \/ ExecKillSwitch(r) \/ ExecStrategy(r) \/ ExecDecision(r) \/ ExecDedup(r)
             \/ ExecComplete(r) \/ ExecJournal(r) \/ Throw(r)
    <3>1. \A pc \in {"fatal", "intent", "decision", "plan", "submit", "journal", "done", "error"} : RunOK(Moved(run[r], pc))
      BY <1>1, MovedOK DEF RunOK, PCs, Working, Verdicts
    <3> QED
      BY <2>1, <3>1, RunStored
         DEF ExecKillSwitch, ExecStrategy, ExecDecision, ExecDedup, ExecComplete, ExecJournal, Throw, Goto, TypeOK
  <2>2. CASE ExecIntent(r)
    <3> DEFINE a == [run[r] EXCEPT !.seen = status[i]]
    <3>1. RunOK(a) /\ a.pc # "idle"
      BY <1>1, <1>2 DEF RunOK, RunType
    <3>2. RunOK(Moved(a, "strategy")) /\ RunOK(Moved(a, "fatal"))
      BY <3>1, MovedOK DEF RunOK, PCs, Working, Verdicts
    <3> QED
      BY <2>2, <3>2, RunStored DEF ExecIntent, TypeOK
  <2>3. CASE ExecPlan(r)
    <3> DEFINE a == [run[r] EXCEPT !.plan = ChosenPlan(i), !.step = 1]
    <3>1. RunOK(a) /\ a.pc # "idle"
      BY <1>1, <1>2 DEF RunOK, RunType
    <3>2. RunOK(Moved(a, "error")) /\ RunOK(Moved(a, "dedup"))
      BY <3>1, MovedOK DEF RunOK, PCs, Working, Verdicts
    <3> QED
      BY <2>3, <3>2, RunStored DEF ExecPlan, TypeOK
  <2>4. CASE ExecSubmit(r)
    <3>1. PICK reply \in Outcomes : run' = [run EXCEPT ![r].reply = reply, ![r].pc = "record"]
      BY <2>4 DEF ExecSubmit
    <3> DEFINE a == [run[r] EXCEPT !.reply = reply, !.pc = "record"]
    <3>2. RunOK(a)
      BY <1>1 DEF RunOK, RunType, PCs, Working
    <3>3. run' = [run EXCEPT ![r] = a]
      BY <3>1 DEF TypeOK, RunsOK
    <3> QED
      BY <3>2, <3>3, RunStored DEF TypeOK
  <2>5. CASE ExecRecord(r)
    <3> DEFINE last == LastStep(i, run[r].plan, run[r].step)
               k == IF last THEN run[r].step ELSE run[r].step + 1
               a == [run[r] EXCEPT !.reply = None, !.step = k]
               next == IF run[r].reply = "failed" THEN "done" ELSE IF last THEN "complete" ELSE "submit"
    <3>1. a \in RunType /\ a.intent \in Intents /\ a.stage \in Stages
      <4>1. k \in Nat
        BY <1>1 DEF RunOK, RunType
      <4> HIDE DEF k
      <4> QED
        BY <1>1, <4>1 DEF RunOK, RunType
    <3>2. RunOK(Moved(a, next))
      BY <3>1, MovedOK DEF RunOK, PCs, Working, Verdicts
    <3> QED
      BY <2>5, <3>2, RunStored DEF ExecRecord, TypeOK
  <2>6. CASE FailedRead(r)
    <3> DEFINE a == [run[r] EXCEPT !.seen = status[i], !.pc = "fail_commit"]
    <3>1. RunOK(a)
      BY <1>1, <1>2 DEF RunOK, RunType, PCs
    <3>2. run' = [run EXCEPT ![r] = a]
      BY <2>6 DEF FailedRead, TypeOK, RunsOK
    <3> QED
      BY <3>1, <3>2, RunStored DEF TypeOK
  <2>7. CASE FailedCommit(r)
    BY <2>7, Shapes, RunStored DEF FailedCommit, TypeOK
  <2> QED
    BY <2>1, <2>2, <2>3, <2>4, <2>5, <2>6, <2>7
<1>5. TablesOK'
  <2>1. CASE \/ ExecKillSwitch(r) \/ ExecIntent(r) \/ ExecStrategy(r) \/ ExecDecision(r)
             \/ ExecPlan(r) \/ ExecDedup(r) \/ Throw(r) \/ FailedRead(r)
    BY <2>1 DEF ExecKillSwitch, ExecIntent, ExecStrategy, ExecDecision, ExecPlan, ExecDedup, Throw, FailedRead, Goto, TypeOK, TablesOK
  <2>2. CASE ExecSubmit(r)
    <3>1. published' \in [Intents -> [Steps -> Nat]]
      <4>1. CASE published' = [published EXCEPT ![i][run[r].step] = @ + 1]
        <5> DEFINE sent == [published[i] EXCEPT ![run[r].step] = @ + 1]
        <5>1. published[i] \in [Steps -> Nat]
          BY <1>1 DEF TypeOK, TablesOK
        <5>2. sent \in [Steps -> Nat]
          <6>1. CASE run[r].step \in Steps
            <7>1. published[i][run[r].step] + 1 \in Nat
              BY <5>1, <6>1
            <7> QED
              BY <5>1, <7>1
          <6>2. CASE run[r].step \notin Steps
            BY <5>1, <6>2
          <6> QED
            BY <6>1, <6>2
        <5>3. published' = [published EXCEPT ![i] = sent]
          BY <1>1, <4>1, <5>1 DEF TypeOK, TablesOK
        <5> QED
          BY <5>2, <5>3 DEF TypeOK, TablesOK
      <4>2. CASE published' = published
        BY <4>2 DEF TypeOK, TablesOK
      <4> QED
        BY <2>2, <4>1, <4>2 DEF ExecSubmit
    <3> QED
      BY <2>2, <3>1 DEF ExecSubmit, TypeOK, TablesOK
  <2>3. CASE ExecRecord(r)
    <3> DEFINE e == [plan |-> run[r].plan, step |-> run[r].step, outcome |-> run[r].reply]
    <3>1. e \in RowType /\ run[r].reply \in Outcomes
      BY <1>1, <2>3 DEF ExecRecord, At, RunOK, RunType, RowType
    <3>2. rows' \in [Intents -> SUBSET RowType] /\ lastRow' \in [Intents -> Outcomes \cup {None}]
      BY <2>3, <3>1 DEF ExecRecord, TypeOK, TablesOK
    <3>3. status' \in [Intents -> Statuses]
      BY <2>3 DEF ExecRecord, Transition, TypeOK, TablesOK, Statuses
    <3> QED
      BY <2>3, <3>2, <3>3 DEF ExecRecord, TypeOK, TablesOK
  <2>4. CASE ExecComplete(r) \/ FailedCommit(r)
    BY <2>4 DEF ExecComplete, FailedCommit, Transition, TypeOK, TablesOK, Statuses
  <2>5. CASE ExecJournal(r)
    BY <1>1, <2>5 DEF ExecJournal, TypeOK, TablesOK
  <2> QED
    BY <2>1, <2>2, <2>3, <2>4, <2>5
<1> QED
  BY <1>3, <1>4, <1>5 DEF TypeOK

\* The API routes keep the variables well typed.
LEMMA ApiTypeStep ==
  ASSUME TypeOK, NEW i \in Intents, Api(i)
  PROVE  TypeOK'
<1> USE DEF intentVars, planVars, execVars, opsVars, queueVars, Api
<1>1. RunsOK'
  BY DEF Enqueue, Approve, HoldRead, HoldCommit, ReleaseRead, ReleasePlan, ReleaseCommit, ReleaseEnqueue, RequestRejected,
         OverrideRoute, TypeOK, RunsOK
<1>2. TablesOK'
  <2>1. status' \in [Intents -> Statuses] /\ approval' \in [Intents -> {"not_required", "pending", "approved"}]
    <3>1. CASE ReleaseCommit(i) \/ HoldCommit(i)
      <4>1. \E st \in Statuses : status' = [status EXCEPT ![i] = st]
        BY <3>1 DEF ReleaseCommit, HoldCommit, Statuses
      <4> QED
        BY <3>1, <4>1 DEF ReleaseCommit, HoldCommit, TypeOK, TablesOK
    <3>2. CASE Approve(i)
      BY <3>2 DEF Approve, TypeOK, TablesOK
    <3> QED
      BY <3>1, <3>2 DEF Enqueue, HoldRead, ReleaseRead, ReleasePlan, ReleaseEnqueue, RequestRejected, OverrideRoute, TypeOK, TablesOK
  <2>2. request' \in [Intents -> {None, "hold", "release", "routed", "quoted", "policy", "route"}]
    <3> DEFINE Values == {None, "hold", "release", "routed", "quoted", "policy", "route"}
    <3>1. request' = request \/ \E v \in Values : request' = [request EXCEPT ![i] = v]
      <4>1. CASE HoldRead(i) \/ HoldCommit(i) \/ ReleaseRead(i) \/ ReleaseEnqueue(i) \/ RequestRejected(i)
        BY <4>1 DEF HoldRead, HoldCommit, ReleaseRead, ReleaseEnqueue, RequestRejected
      <4>2. CASE ReleasePlan(i)
        BY <4>2 DEF ReleasePlan
      <4>3. CASE ReleaseCommit(i)
        BY <4>3 DEF ReleaseCommit
      <4> QED
        BY <4>1, <4>2, <4>3 DEF Enqueue, Approve, OverrideRoute
    <3> QED
      BY <3>1 DEF TypeOK, TablesOK
  <2>3. override' \in [Intents -> Nat]
    <3>1. CASE OverrideRoute(i)
      <4>1. Len(plans[i]) \in Nat
        BY DEF TypeOK, TablesOK
      <4> QED
        BY <3>1, <4>1 DEF OverrideRoute, TypeOK, TablesOK
    <3>2. CASE ~OverrideRoute(i)
      <4>1. override' = override
        BY <3>2 DEF Enqueue, Approve, HoldRead, HoldCommit, ReleaseRead, ReleasePlan, ReleaseCommit,
               ReleaseEnqueue, RequestRejected
      <4> QED
        BY <4>1 DEF TypeOK, TablesOK
    <3> QED
      BY <3>1, <3>2
  <2> QED
    BY <2>1, <2>2, <2>3 DEF Enqueue, Approve, HoldRead, HoldCommit, ReleaseRead, ReleasePlan, ReleaseCommit,
           ReleaseEnqueue, RequestRejected, OverrideRoute, TypeOK, TablesOK
<1>3. \A t \in Stages : Added(job, i, t) \in [Intents -> [Stages -> JobType]]
  BY Shapes DEF TypeOK, QueuesOK, Added
<1>4. QueuesOK'
  BY <1>3 DEF Enqueue, Approve, HoldRead, HoldCommit, ReleaseRead, ReleasePlan, ReleaseCommit, ReleaseEnqueue, RequestRejected,
         OverrideRoute, TypeOK, QueuesOK, Stages
<1> QED
  BY <1>1, <1>2, <1>4 DEF TypeOK

\* The operator controls, and a step that changes nothing, keep the variables
\* well typed.
LEMMA ControlTypeStep ==
  ASSUME TypeOK, (\E s \in Strategies : SetPaused(s)) \/ SetKillSwitch \/ UNCHANGED vars
  PROVE  TypeOK'
BY DEF SetPaused, SetKillSwitch, vars, intentVars, planVars, execVars, opsVars, queueVars,
       TypeOK, TablesOK, QueuesOK, RunsOK

\* Every step keeps the variables well typed.
LEMMA TypeStep == TypeOK /\ [Next]_vars => TypeOK'
BY QueueTypeStep, StageTypeStep, ExecTypeStep, ApiTypeStep, ControlTypeStep DEF Next, Handler

\* The variables of the pipeline always have the shapes of the schema, of the
\* queues and of the handlers' locals.
THEOREM TypeCorrect == Spec => []TypeOK
<1>1. Init => TypeOK
  BY InitTypeOK
<1>2. TypeOK /\ [Next]_vars => TypeOK'
  BY TypeStep
<1> QED
  BY <1>1, <1>2, PTL DEF Spec

----------------------------------------------------------------------------
(***************************************************************************)
(* The safety theorems of the intent pipeline.  The invariant Inv is       *)
(* inductive; the theorems at the end follow from it.                      *)
(***************************************************************************)

\* The steps of a handler before it answers BullMQ.
Walk(r) ==
  \/ ReadIntent(r) \/ PolicyPlan(r)
  \/ QuoteCommit(r) \/ RouteCommit(r) \/ PolicyCommit(r)
  \/ ExecKillSwitch(r) \/ ExecIntent(r) \/ ExecStrategy(r) \/ ExecDecision(r)
  \/ ExecPlan(r) \/ ExecDedup(r)
  \/ ExecSubmit(r) \/ ExecRecord(r) \/ ExecComplete(r) \/ ExecJournal(r)
  \/ Throw(r)

\* What a step of a handler does to the activations: one of them moves on, to a
\* place that depends on the action, and keeps its job and its lock.
Moves(r, pcs) ==
  /\ run' \in [Runs -> RunType]
  /\ \A q \in Runs \ {r} : run'[q] = run[q]
  /\ run'[r].intent = run[r].intent
  /\ run'[r].stage = run[r].stage
  /\ run'[r].owner = run[r].owner
  /\ run'[r].pc \in pcs

\* Moved, applied to an activation with some new locals, is such a step.
LEMMA MovedMoves ==
  ASSUME TypeOK, NEW r \in Runs, NEW a \in RunType, NEW pc \in PCs,
         a.intent = run[r].intent, a.stage = run[r].stage, a.owner = run[r].owner,
         run' = [run EXCEPT ![r] = Moved(a, pc)]
  PROVE  /\ Moves(r, {pc})
         /\ pc \notin Verdicts => /\ run'[r].plan = a.plan
                                  /\ run'[r].step = a.step
BY MovedFacts DEF Moves, TypeOK, RunsOK

\* A step that is Moved of the activation as it is.
LEMMA GotoMoves ==
  ASSUME TypeOK, NEW r \in Runs, NEW pc \in PCs, Goto(r, pc)
  PROVE  /\ Moves(r, {pc})
         /\ pc \notin Verdicts => /\ run'[r].plan = run[r].plan
                                  /\ run'[r].step = run[r].step
BY MovedMoves DEF Goto, TypeOK, RunsOK

\* Where each step of the first three handlers leads.
LEMMA StageMoves ==
  ASSUME TypeOK, NEW r \in Runs
  PROVE  /\ ReadIntent(r) => Moves(r, {"fatal", "plan", "commit"})
         /\ PolicyPlan(r) => Moves(r, {"commit"})
         /\ QuoteCommit(r) \/ RouteCommit(r) \/ PolicyCommit(r) => Moves(r, {"done"})
<1>1. run[r] \in RunType
  BY DEF TypeOK, RunsOK
<1>2. ASSUME ReadIntent(r) PROVE Moves(r, {"fatal", "plan", "commit"})
  <2> DEFINE a == [run[r] EXCEPT !.seen = status[Target(r)]]
             next == IF ~CanTransition(status[Target(r)], After(run[r].stage)) THEN "fatal"
                     ELSE IF run[r].stage = "policy" THEN "plan" ELSE "commit"
  <2>1. run[r].pc # "idle"
    BY <1>2 DEF ReadIntent
  <2>2. status[Target(r)] \in Statuses
    BY <2>1, RunTarget DEF TypeOK, TablesOK
  <2>3. /\ a \in RunType
        /\ a.intent = run[r].intent /\ a.stage = run[r].stage /\ a.owner = run[r].owner
    BY <1>1, <2>2 DEF RunType
  <2>4. next \in PCs
    BY DEF PCs, Working, Verdicts
  <2>5. Moves(r, {next})
    BY <1>2, <2>3, <2>4, MovedMoves DEF ReadIntent
  <2> QED
    BY <2>5 DEF Moves
<1>3. ASSUME PolicyPlan(r) PROVE Moves(r, {"commit"})
  <2> DEFINE a == [run[r] EXCEPT !.plan = ChosenPlan(Target(r))]
  <2>1. ChosenPlan(Target(r)) \in Nat
    BY <1>3, RunTarget DEF PolicyPlan, At, ChosenPlan, TypeOK, TablesOK
  <2>2. /\ a \in RunType
        /\ a.intent = run[r].intent /\ a.stage = run[r].stage /\ a.owner = run[r].owner
    BY <1>1, <2>1 DEF RunType
  <2> QED
    BY <1>3, <2>2, MovedMoves DEF PolicyPlan, PCs, Working
<1>4. ASSUME QuoteCommit(r) \/ RouteCommit(r) \/ PolicyCommit(r) PROVE Moves(r, {"done"})
  BY <1>4, GotoMoves DEF QuoteCommit, RouteCommit, PolicyCommit, PCs, Verdicts
<1> QED
  BY <1>2, <1>3, <1>4

\* Where the guards of the execute handler, and a throw, lead.
LEMMA GuardMoves ==
  ASSUME TypeOK, NEW r \in Runs
  PROVE  /\ ExecKillSwitch(r) => Moves(r, {"fatal", "intent"})
         /\ ExecIntent(r) => Moves(r, {IF Executable(Target(r)) THEN "strategy" ELSE "fatal"})
         /\ ExecStrategy(r) => Moves(r, {"decision", "fatal"})
         /\ ExecDecision(r) => Moves(r, {IF Allows(decision[Target(r)]) THEN "plan" ELSE "fatal"})
         /\ Throw(r) => Moves(r, {"error"})
<1>1. run[r] \in RunType
  BY DEF TypeOK, RunsOK
<1>2. ASSUME ExecKillSwitch(r) PROVE Moves(r, {"fatal", "intent"})
  BY <1>2, GotoMoves DEF ExecKillSwitch, PCs, Working, Verdicts, Moves
<1>3. ASSUME ExecIntent(r)
      PROVE  Moves(r, {IF Executable(Target(r)) THEN "strategy" ELSE "fatal"})
  <2> DEFINE a == [run[r] EXCEPT !.seen = status[Target(r)]]
             next == IF Executable(Target(r)) THEN "strategy" ELSE "fatal"
  <2>1. status[Target(r)] \in Statuses
    BY <1>3, RunTarget DEF ExecIntent, At, TypeOK, TablesOK
  <2>2. /\ a \in RunType
        /\ a.intent = run[r].intent /\ a.stage = run[r].stage /\ a.owner = run[r].owner
    BY <1>1, <2>1 DEF RunType
  <2>3. next \in PCs
    BY DEF PCs, Working, Verdicts
  <2> QED
    BY <1>3, <2>2, <2>3, MovedMoves DEF ExecIntent
<1>4. ASSUME ExecDecision(r)
      PROVE  Moves(r, {IF Allows(decision[Target(r)]) THEN "plan" ELSE "fatal"})
  BY <1>4, GotoMoves DEF ExecDecision, PCs, Working, Verdicts
<1>5. ASSUME Throw(r) PROVE Moves(r, {"error"})
  BY <1>5, GotoMoves DEF Throw, PCs, Verdicts
<1>6. ASSUME ExecStrategy(r) PROVE Moves(r, {"decision", "fatal"})
  BY <1>6, GotoMoves DEF ExecStrategy, PCs, Working, Verdicts, Moves
<1> QED
  BY <1>2, <1>3, <1>4, <1>5, <1>6

\* Where the step loop of the execute handler leads, with its plan and step.
LEMMA LoopMoves ==
  ASSUME TypeOK, NEW r \in Runs
  PROVE  /\ ExecPlan(r) =>
              /\ Moves(r, {IF ChosenPlan(Target(r)) = 0 THEN "error" ELSE "dedup"})
              /\ run'[r].pc = "dedup" => run'[r].plan = ChosenPlan(Target(r)) /\ run'[r].step = 1
         /\ ExecDedup(r) =>
              /\ Moves(r, {IF Skips(Target(r)) THEN "done" ELSE "submit"})
              /\ run'[r].pc = "submit" => run'[r].plan = run[r].plan /\ run'[r].step = run[r].step
         /\ ExecSubmit(r) =>
              /\ Moves(r, {"record"})
              /\ run'[r].plan = run[r].plan
              /\ run'[r].step = run[r].step
         /\ ExecRecord(r) =>
              /\ Moves(r, {IF run[r].reply = "failed" THEN "done"
                           ELSE IF LastStep(Target(r), run[r].plan, run[r].step)
                           THEN "complete" ELSE "submit"})
              /\ run'[r].pc \in {"complete", "submit"} => run'[r].plan = run[r].plan
              /\ run'[r].pc = "complete" => run'[r].step = run[r].step
              /\ run'[r].pc = "submit" => run'[r].step = run[r].step + 1
         /\ ExecComplete(r) =>
              /\ Moves(r, {"journal"})
              /\ run'[r].plan = run[r].plan
              /\ run'[r].step = run[r].step
         /\ ExecJournal(r) => Moves(r, {"done"})
<1>1. run[r] \in RunType
  BY DEF TypeOK, RunsOK
<1>2. ASSUME ExecPlan(r)
      PROVE  /\ Moves(r, {IF ChosenPlan(Target(r)) = 0 THEN "error" ELSE "dedup"})
             /\ run'[r].pc = "dedup" => run'[r].plan = ChosenPlan(Target(r)) /\ run'[r].step = 1
  <2> DEFINE a == [run[r] EXCEPT !.plan = ChosenPlan(Target(r)), !.step = 1]
             next == IF ChosenPlan(Target(r)) = 0 THEN "error" ELSE "dedup"
  <2>1. ChosenPlan(Target(r)) \in Nat
    BY <1>2, RunTarget DEF ExecPlan, At, ChosenPlan, TypeOK, TablesOK
  <2>2. /\ a \in RunType
        /\ a.intent = run[r].intent /\ a.stage = run[r].stage /\ a.owner = run[r].owner
        /\ a.plan = ChosenPlan(Target(r)) /\ a.step = 1
    BY <1>1, <2>1 DEF RunType
  <2>3. next \in PCs /\ "dedup" \notin Verdicts
    BY DEF PCs, Working, Verdicts
  <2>4. run' = [run EXCEPT ![r] = Moved(a, next)]
    BY <1>2 DEF ExecPlan
  <2> HIDE DEF a, next
  <2>5. /\ Moves(r, {next})
        /\ next \notin Verdicts => run'[r].plan = a.plan /\ run'[r].step = a.step
    BY <2>2, <2>3, <2>4, MovedMoves
  <2> QED
    BY <2>2, <2>3, <2>5 DEF Moves, next
<1>3. ASSUME ExecSubmit(r)
      PROVE  Moves(r, {"record"}) /\ run'[r].plan = run[r].plan /\ run'[r].step = run[r].step
  <2>1. PICK reply \in Outcomes : run' = [run EXCEPT ![r].reply = reply, ![r].pc = "record"]
    BY <1>3 DEF ExecSubmit
  <2> DEFINE a == [run[r] EXCEPT !.reply = reply, !.pc = "record"]
  <2>2. /\ a \in RunType /\ a.pc = "record"
        /\ a.intent = run[r].intent /\ a.stage = run[r].stage /\ a.owner = run[r].owner
        /\ a.plan = run[r].plan /\ a.step = run[r].step
    BY <1>1 DEF RunType, PCs, Working
  <2>3. run' = [run EXCEPT ![r] = a]
    BY <2>1 DEF TypeOK, RunsOK
  <2> HIDE DEF a
  <2> QED
    BY <2>2, <2>3 DEF Moves, TypeOK, RunsOK
<1>4. ASSUME ExecRecord(r)
      PROVE  /\ Moves(r, {IF run[r].reply = "failed" THEN "done"
                          ELSE IF LastStep(Target(r), run[r].plan, run[r].step)
                          THEN "complete" ELSE "submit"})
             /\ run'[r].pc \in {"complete", "submit"} => run'[r].plan = run[r].plan
             /\ run'[r].pc = "complete" => run'[r].step = run[r].step
             /\ run'[r].pc = "submit" => run'[r].step = run[r].step + 1
  <2> DEFINE last == LastStep(Target(r), run[r].plan, run[r].step)
             k == IF last THEN run[r].step ELSE run[r].step + 1
             a == [run[r] EXCEPT !.reply = None, !.step = k]
             next == IF run[r].reply = "failed" THEN "done" ELSE IF last THEN "complete" ELSE "submit"
  <2>1. k \in Nat
    BY <1>1 DEF RunType
  <2>2. run' = [run EXCEPT ![r] = Moved(a, next)]
    BY <1>4 DEF ExecRecord
  <2>3. next \in PCs /\ "submit" \notin Verdicts /\ "complete" \notin Verdicts
    BY DEF PCs, Working, Verdicts
  <2>4. (next = "complete" => k = run[r].step) /\ (next = "submit" => k = run[r].step + 1)
    OBVIOUS
  <2> HIDE DEF k
  <2>5. /\ a \in RunType
        /\ a.intent = run[r].intent /\ a.stage = run[r].stage /\ a.owner = run[r].owner
        /\ a.plan = run[r].plan /\ a.step = k
    BY <1>1, <2>1 DEF RunType
  <2> HIDE DEF a, next
  <2>6. /\ Moves(r, {next})
        /\ next \notin Verdicts => run'[r].plan = a.plan /\ run'[r].step = a.step
    BY <2>2, <2>3, <2>5, MovedMoves
  <2>7. run'[r].pc = next
    BY <2>6 DEF Moves
  <2>8. /\ run'[r].pc \in {"complete", "submit"} => run'[r].plan = run[r].plan
        /\ run'[r].pc = "complete" => run'[r].step = run[r].step
        /\ run'[r].pc = "submit" => run'[r].step = run[r].step + 1
    BY <2>3, <2>4, <2>5, <2>6, <2>7
  <2> QED
    BY <2>6, <2>8 DEF next
<1>5. ASSUME ExecComplete(r)
      PROVE  Moves(r, {"journal"}) /\ run'[r].plan = run[r].plan /\ run'[r].step = run[r].step
  BY <1>5, GotoMoves DEF ExecComplete, PCs, Verdicts
<1>6. ASSUME ExecJournal(r) PROVE Moves(r, {"done"})
  BY <1>6, GotoMoves DEF ExecJournal, PCs, Verdicts
<1>7. ASSUME ExecDedup(r)
      PROVE  /\ Moves(r, {IF Skips(Target(r)) THEN "done" ELSE "submit"})
             /\ run'[r].pc = "submit" => run'[r].plan = run[r].plan /\ run'[r].step = run[r].step
  <2>1. CASE Skips(Target(r))
    BY <1>7, <2>1, GotoMoves DEF ExecDedup, PCs, Verdicts, Moves
  <2>2. CASE ~Skips(Target(r))
    BY <1>7, <2>2, GotoMoves DEF ExecDedup, PCs, Working, Verdicts
  <2> QED
    BY <2>1, <2>2
<1> QED
  BY <1>2, <1>3, <1>4, <1>5, <1>6, <1>7

\* A handler on its way stays at work on its job and leaves the queues alone.
LEMMA WalkMoves ==
  ASSUME TypeOK, NEW r \in Runs, Walk(r)
  PROVE  /\ run[r].pc \in Working \cup {"journal"}
         /\ Moves(r, PCs \ {"idle"})
         /\ job' = job
<1> USE DEF queueVars
<1>1. run[r].pc \in Working \cup {"journal"}
  BY DEF Walk, ReadIntent, PolicyPlan, QuoteCommit, RouteCommit, PolicyCommit, ExecKillSwitch,
         ExecIntent, ExecStrategy, ExecDecision, ExecPlan, ExecDedup, ExecSubmit, ExecRecord, ExecComplete, ExecJournal,
         Throw, At, Working
<1>2. job' = job
  BY DEF Walk, ReadIntent, PolicyPlan, QuoteCommit, RouteCommit, PolicyCommit, ExecKillSwitch,
         ExecIntent, ExecStrategy, ExecDecision, ExecPlan, ExecDedup, ExecSubmit, ExecRecord, ExecComplete, ExecJournal, Throw
<1>3. \E pcs : Moves(r, pcs) /\ pcs \subseteq PCs \ {"idle"}
  BY StageMoves, GuardMoves, LoopMoves DEF Walk, PCs, Working, Verdicts
<1> QED
  BY <1>1, <1>2, <1>3 DEF Moves

\* Every step keeps the lock discipline.
LEMMA LockStep ==
  ASSUME TypeOK, OneOwner, [Next]_vars
  PROVE  OneOwner'
<1> USE DEF queueVars, Target
<1>1. ASSUME NEW r \in Runs, Walk(r) PROVE OneOwner'
  <2>1. /\ run[r].pc \in Working \cup {"journal"} /\ run[r].pc # "idle"
        /\ Moves(r, PCs \ {"idle"})
        /\ job' = job
    BY <1>1, WalkMoves DEF Working
  <2> QED
    BY <2>1 DEF OneOwner, Moves
<1>2. ASSUME NEW r \in Runs, NEW i \in Intents, NEW s \in Stages, Pickup(r, i, s) PROVE OneOwner'
  <2>1. /\ run'[r].intent = i /\ run'[r].stage = s /\ run'[r].owner /\ run'[r].pc # "idle"
        /\ \A q \in Runs \ {r} : run'[q] = run[q]
    BY <1>2 DEF Pickup, Idle, TypeOK, RunsOK
  <2>2. /\ job'[i][s].state = "active"
        /\ \A k \in Intents, t \in Stages : k # i \/ t # s => job'[k][t] = job[k][t]
    BY <1>2 DEF Pickup, TypeOK, QueuesOK, JobType
  <2>3. \A q \in Runs : run[q].owner => ~(run[q].intent = i /\ run[q].stage = s)
    BY <1>2 DEF Pickup, OneOwner
  <2>4. \A q \in Runs : run[q].owner => run[q].intent \in Intents /\ run[q].stage \in Stages
    BY RunTarget DEF OneOwner, TypeOK
  <2> QED
    BY <2>1, <2>2, <2>3, <2>4 DEF OneOwner
<1>3. ASSUME NEW r \in Runs, Ack(r) PROVE OneOwner'
  <2> DEFINE i == run[r].intent
             s == run[r].stage
  <2>1. run[r].pc \in Verdicts
    BY <1>3 DEF Ack
  <2>2. /\ ~run'[r].owner /\ run'[r].pc \in {"idle", "on_failed"}
        /\ \A q \in Runs \ {r} : run'[q] = run[q]
    BY <1>3 DEF Ack, Idle, TypeOK, RunsOK, RunType
  <2>3. /\ ~run[r].owner => job' = job
        /\ \A k \in Intents, t \in Stages : k # i \/ t # s => job'[k][t] = job[k][t]
    BY <1>3 DEF Ack, TypeOK, QueuesOK
  <2>4. \A q \in Runs : run[q].owner => run[q].intent \in Intents /\ run[q].stage \in Stages
    BY RunTarget DEF OneOwner, TypeOK
  <2> QED
    BY <2>1, <2>2, <2>3, <2>4 DEF OneOwner, Working, Verdicts
<1>4. ASSUME NEW r \in Runs, FailedRejected(r) \/ Crash(r) PROVE OneOwner'
  BY <1>4 DEF FailedRejected, Listening, Crash, OneOwner, Idle, TypeOK, RunsOK, Working, Verdicts
<1>5. ASSUME NEW r \in Runs, LoseLock(r) PROVE OneOwner'
  BY <1>5 DEF LoseLock, OneOwner, TypeOK, RunsOK, RunType
<1>6. ASSUME NEW i \in Intents, NEW s \in Stages, Stalled(i, s) \/ Evict(i, s) PROVE OneOwner'
  <2>1. \A q \in Runs : run[q].owner => ~(run[q].intent = i /\ run[q].stage = s)
    BY <1>6 DEF Stalled, Evict, OneOwner
  <2>2. \A k \in Intents, t \in Stages : k # i \/ t # s => job'[k][t] = job[k][t]
    BY <1>6 DEF Stalled, Evict, TypeOK, QueuesOK
  <2>3. \A q \in Runs : run[q].owner => run[q].intent \in Intents /\ run[q].stage \in Stages
    BY RunTarget DEF OneOwner, TypeOK
  <2> QED
    BY <1>6, <2>1, <2>2, <2>3 DEF Stalled, Evict, OneOwner
<1>7. ASSUME NEW r \in Runs, FailedRead(r) \/ FailedCommit(r) PROVE OneOwner'
  <2>1. /\ job' = job
        /\ \A q \in Runs \ {r} : run'[q] = run[q]
        /\ run'[r].owner => run[r].owner /\ run'[r].intent = run[r].intent /\ run'[r].stage = run[r].stage
        /\ run'[r].owner => run'[r].pc # "idle"
        /\ run'[r].pc \in {"idle", "fail_commit"}
    BY <1>7 DEF FailedRead, FailedCommit, Idle, TypeOK, RunsOK, RunType
  <2> QED
    BY <2>1 DEF OneOwner, Working, Verdicts
<1>8. ASSUME NEW i \in Intents, Api(i) PROVE OneOwner'
  <2>1. run' = run
    BY <1>8 DEF Api, Enqueue, Approve, HoldRead, HoldCommit, ReleaseRead, ReleasePlan, ReleaseCommit,
           ReleaseEnqueue, RequestRejected, OverrideRoute
  <2>2. \A t \in Stages, k \in Intents, u \in Stages :
          job[k][u].state = "active" => Added(job, i, t)[k][u] = job[k][u]
    BY DEF Added, TypeOK, QueuesOK
  <2>3. job' = job \/ \E t \in Stages : job' = Added(job, i, t)
    BY <1>8 DEF Api, Enqueue, Approve, HoldRead, HoldCommit, ReleaseRead, ReleasePlan, ReleaseCommit,
           ReleaseEnqueue, RequestRejected, OverrideRoute, Stages
  <2>4. \A q \in Runs : run[q].owner => run[q].intent \in Intents /\ run[q].stage \in Stages
    BY RunTarget DEF OneOwner, TypeOK
  <2> QED
    BY <2>1, <2>2, <2>3, <2>4 DEF OneOwner
<1>9. ASSUME (\E s \in Strategies : SetPaused(s)) \/ SetKillSwitch \/ UNCHANGED vars PROVE OneOwner'
  BY <1>9 DEF SetPaused, SetKillSwitch, vars, OneOwner
<1> QED
  BY <1>1, <1>2, <1>3, <1>4, <1>5, <1>6, <1>7, <1>8, <1>9 DEF Next, Handler, Walk

\* What only ever grows: approvals, decisions, rows, plans and what a venue did.
Grows ==
  /\ \A i \in Intents : Approved(i) => Approved(i)'
  /\ \A i \in Intents : decisions[i] \subseteq decisions'[i]
  /\ \A i \in Intents : rows[i] \subseteq rows'[i]
  /\ \A i \in Intents : Len(plans[i]) <= Len(plans'[i])
  /\ \A i \in Intents : \A p \in 1..Len(plans[i]) : plans'[i][p] = plans[i][p]
  /\ \A i \in Intents : \A k \in Steps : published[i][k] <= published'[i][k]

grown == <<approval, decisions, rows, plans, published>>

\* The steps that touch what only grows.
LEMMA Growers ==
  ASSUME [Next]_vars
  PROVE  \/ UNCHANGED grown
         \/ \E r \in Runs : RouteCommit(r) \/ PolicyCommit(r) \/ ExecSubmit(r) \/ ExecRecord(r)
         \/ \E i \in Intents : Approve(i)
<1> USE DEF grown, intentVars, planVars, execVars
<1>1. ASSUME NEW r \in Runs, Handler(r) \/ Throw(r) \/ FailedRejected(r) \/ Crash(r) \/ LoseLock(r)
      PROVE  \/ UNCHANGED grown
             \/ RouteCommit(r) \/ PolicyCommit(r) \/ ExecSubmit(r) \/ ExecRecord(r)
  BY <1>1 DEF Handler, ReadIntent, PolicyPlan, QuoteCommit, ExecKillSwitch, ExecIntent, ExecStrategy,
         ExecDecision, ExecPlan, ExecDedup, ExecComplete, ExecJournal, FailedRead, FailedCommit, Ack, Throw, FailedRejected, Listening, Crash, LoseLock
<1>2. ASSUME NEW r \in Runs, NEW i \in Intents, NEW s \in Stages,
             Pickup(r, i, s) \/ Stalled(i, s) \/ Evict(i, s)
      PROVE  UNCHANGED grown
  BY <1>2 DEF Pickup, Stalled, Evict
<1>3. ASSUME NEW i \in Intents, NEW s \in Stages, Stalled(i, s) \/ Evict(i, s)
      PROVE  UNCHANGED grown
  BY <1>3 DEF Stalled, Evict
<1>4. ASSUME NEW i \in Intents, Api(i) PROVE UNCHANGED grown \/ Approve(i)
  BY <1>4 DEF Api, Enqueue, HoldRead, HoldCommit, ReleaseRead, ReleasePlan, ReleaseCommit, ReleaseEnqueue, RequestRejected, OverrideRoute
<1>5. ASSUME (\E s \in Strategies : SetPaused(s)) \/ SetKillSwitch \/ UNCHANGED vars
      PROVE  UNCHANGED grown
  BY <1>5 DEF SetPaused, SetKillSwitch, vars
<1> QED
  BY <1>1, <1>2, <1>3, <1>4, <1>5 DEF Next

\* Every step lets it grow only.
LEMMA Growing ==
  ASSUME TypeOK, [Next]_vars
  PROVE  Grows
<1>1. CASE UNCHANGED grown
  BY <1>1 DEF grown, Grows, Approved, TypeOK, TablesOK
<1>2. ASSUME NEW r \in Runs, RouteCommit(r) PROVE Grows
  <2>1. Target(r) \in Intents
    BY <1>2, RunTarget DEF RouteCommit, At, TypeOK
  <2>2. PICK hops \in 1..MaxHops : plans' = [plans EXCEPT ![Target(r)] = Append(@, hops)]
    BY <1>2 DEF RouteCommit
  <2>3. \A i \in Intents : plans[i] \in Seq(Steps)
    BY DEF TypeOK, TablesOK
  <2>4. /\ Len(plans'[Target(r)]) = Len(plans[Target(r)]) + 1
        /\ \A p \in 1..Len(plans[Target(r)]) : plans'[Target(r)][p] = plans[Target(r)][p]
    BY <2>1, <2>2, <2>3 DEF TypeOK, TablesOK
  <2>5. \A i \in Intents : i # Target(r) => plans'[i] = plans[i]
    BY <2>1, <2>2 DEF TypeOK, TablesOK
  <2>6. \A i \in Intents : /\ Len(plans[i]) <= Len(plans'[i])
                           /\ \A p \in 1..Len(plans[i]) : plans'[i][p] = plans[i][p]
    <3> TAKE i \in Intents
    <3>1. Len(plans[i]) \in Nat
      BY <2>3
    <3> QED
      BY <2>4, <2>5, <3>1
  <2> QED
    BY <1>2, <2>6 DEF RouteCommit, Grows, Approved, execVars, TypeOK, TablesOK
<1>3. ASSUME NEW r \in Runs, PolicyCommit(r) PROVE Grows
  <2>1. \E d : decisions' = [decisions EXCEPT ![Target(r)] = @ \cup {d}]
    BY <1>3 DEF PolicyCommit
  <2>2. \A i \in Intents : decisions[i] \subseteq decisions'[i]
    BY <2>1 DEF TypeOK, TablesOK
  <2> QED
    BY <1>3, <2>2 DEF PolicyCommit, Grows, Approved, execVars, TypeOK, TablesOK
<1>4. ASSUME NEW r \in Runs, ExecSubmit(r) PROVE Grows
  <2>1. \A i \in Intents : \A k \in Steps : published[i][k] <= published'[i][k]
    BY <1>4 DEF ExecSubmit, TypeOK, TablesOK
  <2> QED
    BY <1>4, <2>1 DEF ExecSubmit, Grows, Approved, intentVars, planVars, TypeOK, TablesOK
<1>5. ASSUME NEW r \in Runs, ExecRecord(r) PROVE Grows
  <2>1. \E e : rows' = [rows EXCEPT ![Target(r)] = @ \cup {e}]
    BY <1>5 DEF ExecRecord
  <2>2. \A i \in Intents : rows[i] \subseteq rows'[i]
    BY <2>1 DEF TypeOK, TablesOK
  <2> QED
    BY <1>5, <2>2 DEF ExecRecord, Grows, Approved, planVars, TypeOK, TablesOK
<1>6. ASSUME NEW i \in Intents, Approve(i) PROVE Grows
  BY <1>6 DEF Approve, Grows, Approved, planVars, execVars, TypeOK, TablesOK
<1> QED
  BY <1>1, <1>2, <1>3, <1>4, <1>5, <1>6, Growers

\* A step of a stored plan is a step.
LEMMA StepOnPlan ==
  ASSUME TypeOK, NEW r \in Runs, OnPlan(r), run[r].pc \in InFlight
  PROVE  /\ Target(r) \in Intents
         /\ plans[Target(r)] \in Seq(Steps)
         /\ plans[Target(r)][run[r].plan] \in Steps
         /\ run[r].step \in Steps
<1> DEFINE i == Target(r)
           hops == plans[i][run[r].plan]
<1>1. i \in Intents
  BY RunTarget DEF InFlight, TypeOK
<1>2. plans[i] \in Seq(Steps)
  BY <1>1 DEF TypeOK, TablesOK
<1>3. hops \in Steps
  BY <1>2 DEF OnPlan
<1>4. run[r].step \in 1..hops
  BY DEF OnPlan
<1> HIDE DEF hops
<1>5. run[r].step \in Steps
  BY <1>3, <1>4, PipelineAssumption DEF Steps
<1> QED
  BY <1>1, <1>2, <1>3, <1>5 DEF hops

\* An activation at rest, or not past the intent guard of the execute handler,
\* has nothing to keep.
LEMMA NothingToKeep ==
  ASSUME NEW r \in Runs, run'[r].pc \notin {"strategy", "decision", "plan"} \cup InFlight
  PROVE  RunInv(r)'
BY DEF RunInv, GuardsPassed, OnPlan, RowsFollowLoop, InFlight

\* An activation that does not move keeps what it had.
LEMMA StandingStill ==
  ASSUME TypeOK, TypeOK', Grows, NEW r \in Runs, RunInv(r),
         run'[r].intent = run[r].intent, run'[r].stage = run[r].stage, run'[r].pc = run[r].pc,
         run'[r].plan = run[r].plan, run'[r].step = run[r].step, run'[r].reply = run[r].reply
  PROVE  RunInv(r)'
<1> DEFINE i == Target(r)
<1>1. CASE run[r].pc \notin {"strategy", "decision", "plan"} \cup InFlight
  BY <1>1, NothingToKeep
<1>2. CASE run[r].pc \in {"strategy", "decision", "plan"} \cup InFlight
  <2>1. i \in Intents /\ Target(r)' = i
    BY <1>2, RunTarget DEF TypeOK, Target, InFlight
  <2>2. GuardsPassed(r)'
    BY <2>1 DEF RunInv, GuardsPassed, Grows
  <2>3. OnPlan(r)'
    <3>1. plans[i] \in Seq(Steps) /\ plans'[i] \in Seq(Steps)
      BY <2>1 DEF TypeOK, TablesOK
    <3>2. \A p \in 1..Len(plans[i]) : p \in 1..Len(plans'[i]) /\ plans'[i][p] = plans[i][p]
      BY <2>1, <3>1 DEF Grows
    <3> QED
      BY <2>1, <3>2 DEF RunInv, OnPlan
  <2>4. RowsFollowLoop(r)'
    <3>1. CASE run[r].pc \notin InFlight
      BY <3>1 DEF RowsFollowLoop, InFlight
    <3>2. CASE run[r].pc \in InFlight
      <4>1. run[r].plan \in 1..Len(plans[i]) /\ plans'[i][run[r].plan] = plans[i][run[r].plan]
        BY <2>1, <3>2 DEF RunInv, OnPlan, Grows
      <4>2. run[r].step \in Steps
        BY <2>1, <3>2, StepOnPlan DEF RunInv
      <4>3. \A n : RecordedUpTo(i, run[r].plan, n) => RecordedUpTo(i, run[r].plan, n)'
        BY <2>1 DEF RecordedUpTo, Grows
      <4>4. published[i][run[r].step] > 0 => published'[i][run[r].step] > 0
        BY <2>1, <4>2 DEF Grows, TypeOK, TablesOK
      <4> QED
        BY <2>1, <4>1, <4>3, <4>4 DEF RunInv, RowsFollowLoop
    <3> QED
      BY <3>1, <3>2
  <2> QED
    BY <2>2, <2>3, <2>4 DEF RunInv
<1> QED
  BY <1>1, <1>2

\* A handler that moves on establishes what its next place asks for.
LEMMA MovingOn ==
  ASSUME TypeOK, TypeOK', Grows, NEW r \in Runs, RunInv(r),
         \A i \in Intents : TablesInv(i), Walk(r)
  PROVE  RunInv(r)'
<1> DEFINE i == Target(r)
           p == run[r].plan
           k == run[r].step
<1> USE DEF intentVars, planVars, execVars
<1>1. i \in Intents /\ run[r].pc # "idle"
  BY WalkMoves, RunTarget DEF TypeOK, Working
<1>2. CASE ReadIntent(r)
  BY <1>2, StageMoves DEF ReadIntent, Moves, RunInv, GuardsPassed, OnPlan, RowsFollowLoop, InFlight
<1>3. CASE PolicyPlan(r) \/ QuoteCommit(r) \/ RouteCommit(r) \/ PolicyCommit(r) \/ ExecKillSwitch(r)
           \/ ExecJournal(r) \/ Throw(r)
  BY <1>3, StageMoves, GuardMoves, LoopMoves, NothingToKeep DEF Moves, InFlight
<1>4. CASE ExecIntent(r)
  <2>1. Executable(i) \/ run'[r].pc = "fatal"
    BY <1>4, GuardMoves DEF Moves
  <2>2. run'[r].pc \in {"strategy", "fatal"} /\ Target(r)' = i
    BY <1>4, GuardMoves DEF Moves, Target
  <2>3. Executable(i) => Approved(i)'
    BY <1>1, <2>2 DEF Executable, Grows
  <2> QED
    BY <2>1, <2>2, <2>3 DEF RunInv, GuardsPassed, OnPlan, RowsFollowLoop, InFlight
<1>10. CASE ExecStrategy(r)
  <2>1. At(r, "execute", "strategy") /\ Target(r)' = i /\ run'[r].pc \in {"decision", "fatal"}
    BY <1>10, GuardMoves DEF ExecStrategy, Moves, Target
  <2>2. Approved(i)'
    BY <1>1, <2>1 DEF At, RunInv, GuardsPassed, Grows
  <2> QED
    BY <2>1, <2>2 DEF RunInv, GuardsPassed, OnPlan, RowsFollowLoop, InFlight
<1>5. CASE ExecDecision(r)
  <2>1. At(r, "execute", "decision") /\ Target(r)' = i
    BY <1>5, GuardMoves DEF ExecDecision, Moves, Target
  <2>2. Approved(i)'
    BY <1>1, <2>1 DEF At, RunInv, GuardsPassed, Grows
  <2>3. Allows(decision[i]) => \E d \in decisions'[i] : d.allowed
    BY <1>1 DEF Allows, TablesInv, Grows
  <2>4. Allows(decision[i]) \/ run'[r].pc = "fatal"
    BY <1>5, GuardMoves DEF Moves
  <2>5. run'[r].pc \in {"plan", "fatal"}
    BY <1>5, GuardMoves DEF Moves
  <2> QED
    BY <2>1, <2>2, <2>3, <2>4, <2>5 DEF RunInv, GuardsPassed, OnPlan, RowsFollowLoop, InFlight
<1>6. CASE ExecPlan(r)
  <2>1. /\ At(r, "execute", "plan") /\ Target(r)' = i /\ run'[r].stage = "execute"
        /\ run'[r].pc \in {"error", "dedup"}
        /\ run'[r].pc = "dedup" => run'[r].plan = ChosenPlan(i) /\ run'[r].step = 1 /\ ChosenPlan(i) # 0
    BY <1>6, LoopMoves DEF ExecPlan, At, Moves, Target
  <2>2. Approved(i)' /\ \E d \in decisions'[i] : d.allowed
    BY <1>1, <2>1 DEF At, RunInv, GuardsPassed, Grows
  <2>3. plans[i] \in Seq(Steps) /\ override[i] \in Nat /\ override[i] <= Len(plans[i]) /\ plans' = plans
    BY <1>1, <1>6 DEF TypeOK, TablesOK, TablesInv, ExecPlan
  <2>4. ChosenPlan(i) # 0 => ChosenPlan(i) \in 1..Len(plans[i]) /\ plans[i][ChosenPlan(i)] \in Steps
    BY <2>3 DEF ChosenPlan
  <2>5. ChosenPlan(i) # 0 => 1 \in 1..plans[i][ChosenPlan(i)]
    BY <2>4 DEF Steps
  <2>6. RecordedUpTo(i, ChosenPlan(i), 1 - 1)'
    BY DEF RecordedUpTo
  <2>7. CASE run'[r].pc = "dedup"
    BY <2>1, <2>2, <2>3, <2>4, <2>5, <2>6, <2>7
       DEF RunInv, GuardsPassed, OnPlan, RowsFollowLoop, InFlight, RecordedUpTo
  <2>8. CASE run'[r].pc = "error"
    BY <2>8, NothingToKeep DEF InFlight
  <2> QED
    BY <2>1, <2>7, <2>8
<1>11. CASE ExecDedup(r)
  <2>1. At(r, "execute", "dedup") /\ Target(r)' = i /\ run'[r].stage = "execute"
    BY <1>11, LoopMoves DEF ExecDedup, At, Moves, Target
  <2>2. CASE run'[r].pc = "submit"
    <3>1. run'[r].plan = p /\ run'[r].step = k /\ plans' = plans /\ rows' = rows
      BY <1>11, <2>2, LoopMoves DEF ExecDedup
    <3>2. Approved(i)' /\ \E d \in decisions'[i] : d.allowed
      BY <1>1, <2>1 DEF At, RunInv, GuardsPassed, Grows, InFlight
    <3> QED
      BY <2>1, <2>2, <3>1, <3>2 DEF RunInv, GuardsPassed, OnPlan, RowsFollowLoop, InFlight, RecordedUpTo, At
  <2>3. CASE run'[r].pc = "done"
    BY <2>3, NothingToKeep DEF InFlight
  <2> QED
    BY <1>11, <2>2, <2>3, LoopMoves DEF Moves
<1>7. CASE ExecSubmit(r)
  <2>1. /\ At(r, "execute", "submit") /\ Target(r)' = i /\ run'[r].stage = "execute"
        /\ run'[r].pc = "record" /\ run'[r].plan = p /\ run'[r].step = k
    BY <1>7, LoopMoves DEF ExecSubmit, At, Moves, Target
  <2>2. Approved(i)' /\ \E d \in decisions'[i] : d.allowed
    BY <1>1, <2>1 DEF At, RunInv, GuardsPassed, Grows, InFlight
  <2>3. OnPlan(r) /\ i \in Intents /\ k \in Steps
    BY <2>1, StepOnPlan DEF RunInv, At, InFlight
  <2>4. run'[r].reply = "ok" => published'[i][k] > 0
    <3>1. PICK reply \in Outcomes, carriedOut \in BOOLEAN :
            /\ reply = "ok" => carriedOut
            /\ run' = [run EXCEPT ![r].reply = reply, ![r].pc = "record"]
            /\ published' = IF carriedOut THEN [published EXCEPT ![i][k] = @ + 1] ELSE published
      BY <1>7 DEF ExecSubmit
    <3>2. run'[r].reply = reply
      BY <3>1 DEF TypeOK, RunsOK, RunType
    <3>3. published[i] \in [Steps -> Nat]
      BY <2>3 DEF TypeOK, TablesOK
    <3> QED
      BY <2>3, <3>1, <3>2, <3>3 DEF TypeOK, TablesOK
  <2>5. plans' = plans /\ rows' = rows
    BY <1>7 DEF ExecSubmit
  <2>6. RecordedUpTo(i, p, k - 1)
    BY <2>1 DEF RunInv, RowsFollowLoop, At
  <2>7. GuardsPassed(r)'
    BY <2>1, <2>2 DEF GuardsPassed, InFlight
  <2>8. OnPlan(r)'
    BY <2>1, <2>3, <2>5 DEF OnPlan, InFlight, At
  <2>9. RowsFollowLoop(r)'
    BY <2>1, <2>4, <2>5, <2>6 DEF RowsFollowLoop, RecordedUpTo
  <2> QED
    BY <2>7, <2>8, <2>9 DEF RunInv
<1>8. CASE ExecRecord(r)
  <2> DEFINE hops == plans[i][p]
  <2>1. /\ At(r, "execute", "record") /\ Target(r)' = i /\ run'[r].stage = "execute"
        /\ run[r].reply \in Outcomes
    BY <1>8, LoopMoves DEF ExecRecord, At, Moves, Target, TypeOK, RunsOK, RunOK
  <2>2. CASE run[r].reply = "failed"
    BY <1>8, <2>2, LoopMoves, NothingToKeep DEF Moves, InFlight
  <2>3. CASE run[r].reply = "ok"
    <3>1. /\ run'[r].pc = IF k >= hops THEN "complete" ELSE "submit"
          /\ run'[r].plan = p
          /\ run'[r].step = IF k >= hops THEN k ELSE k + 1
      BY <1>8, <2>3, LoopMoves DEF Moves, LastStep
    <3>2. OnPlan(r) /\ i \in Intents /\ hops \in Steps /\ k \in 1..hops
      BY <2>1, StepOnPlan DEF RunInv, At, InFlight, OnPlan
    <3>3. Approved(i)' /\ \E d \in decisions'[i] : d.allowed
      BY <1>1, <2>1 DEF At, RunInv, GuardsPassed, Grows, InFlight
    <3>4. plans' = plans /\ rows'[i] = rows[i] \cup {[plan |-> p, step |-> k, outcome |-> "ok"]}
      BY <1>8, <2>3, <3>2 DEF ExecRecord, TypeOK, TablesOK
    <3>5. RecordedUpTo(i, p, k - 1)
      BY <2>1 DEF RunInv, RowsFollowLoop, At
    <3>6. k \in Nat /\ hops \in Nat
      BY <3>2 DEF Steps
    <3>7. \A n \in 1..k : [plan |-> p, step |-> n, outcome |-> "ok"] \in rows'[i]
      <4> TAKE n \in 1..k
      <4>1. n \in 1..(k - 1) \/ n = k
        BY <3>6
      <4> QED
        BY <3>4, <3>5, <4>1 DEF RecordedUpTo
    <3>8. p \in 1..Len(plans[i])
      BY <2>1, <3>2 DEF OnPlan, At, InFlight
    <3> HIDE DEF hops
    <3>9. CASE k >= hops
      <4>1. k = hops
        BY <3>2, <3>6, <3>9
      <4>2. OnPlan(r)'
        BY <2>1, <3>1, <3>2, <3>4, <3>8, <3>9 DEF OnPlan, hops
      <4>3. RowsFollowLoop(r)'
        BY <2>1, <3>1, <3>4, <3>7, <3>9, <4>1 DEF RowsFollowLoop, hops, RecordedUpTo
      <4>4. GuardsPassed(r)'
        BY <2>1, <3>1, <3>3 DEF GuardsPassed, InFlight
      <4> QED
        BY <4>2, <4>3, <4>4 DEF RunInv
    <3>10. CASE ~(k >= hops)
      <4>1. k + 1 \in 1..hops /\ (k + 1) - 1 = k
        BY <3>2, <3>6, <3>10
      <4>2. OnPlan(r)'
        BY <2>1, <3>1, <3>2, <3>4, <3>8, <3>10, <4>1 DEF OnPlan, hops
      <4>3. RowsFollowLoop(r)'
        BY <2>1, <3>1, <3>4, <3>7, <3>10, <4>1 DEF RowsFollowLoop, hops, RecordedUpTo
      <4>4. GuardsPassed(r)'
        BY <2>1, <3>1, <3>3 DEF GuardsPassed, InFlight
      <4> QED
        BY <4>2, <4>3, <4>4 DEF RunInv
    <3> QED
      BY <3>9, <3>10
  <2> QED
    BY <2>1, <2>2, <2>3 DEF Outcomes
<1>9. CASE ExecComplete(r)
  <2>1. /\ At(r, "execute", "complete") /\ Target(r)' = i /\ run'[r].stage = "execute"
        /\ run'[r].pc = "journal" /\ run'[r].plan = p /\ run'[r].step = k
    BY <1>9, LoopMoves DEF ExecComplete, At, Moves, Target
  <2>2. plans' = plans /\ rows' = rows
    BY <1>9 DEF ExecComplete
  <2>3. Approved(i)' /\ \E d \in decisions'[i] : d.allowed
    BY <1>1, <2>1 DEF At, RunInv, GuardsPassed, Grows, InFlight
  <2> QED
    BY <2>1, <2>2, <2>3 DEF RunInv, GuardsPassed, OnPlan, RowsFollowLoop, InFlight, RecordedUpTo, At
<1> QED
  BY <1>2, <1>3, <1>4, <1>5, <1>6, <1>7, <1>8, <1>9, <1>10, <1>11 DEF Walk

\* Which steps write the decisions, the overrides, the rows and the journal.
Writers ==
  /\ decision' = decision \/ \E r \in Runs : PolicyCommit(r)
  /\ override' = override \/ \E i \in Intents : OverrideRoute(i)
  /\ (rows' = rows /\ lastRow' = lastRow) \/ \E r \in Runs : ExecRecord(r)
  /\ journal' = journal \/ \E r \in Runs : ExecJournal(r)

\* No other step writes them.
LEMMA OnlyWriters == [Next]_vars => Writers
<1> SUFFICES ASSUME [Next]_vars PROVE Writers
  OBVIOUS
<1> USE DEF planVars, execVars, Writers
<1>1. ASSUME NEW r \in Runs, Handler(r) \/ Throw(r) \/ FailedRejected(r) \/ Crash(r) \/ LoseLock(r) PROVE Writers
  BY <1>1 DEF Handler, ReadIntent, PolicyPlan, QuoteCommit, RouteCommit, PolicyCommit, ExecKillSwitch,
         ExecIntent, ExecStrategy, ExecDecision, ExecPlan, ExecDedup, ExecSubmit, ExecRecord, ExecComplete, ExecJournal,
         FailedRead, FailedCommit, Ack, Throw, FailedRejected, Listening, Crash, LoseLock
<1>2. ASSUME NEW r \in Runs, NEW i \in Intents, NEW s \in Stages, Pickup(r, i, s) PROVE Writers
  BY <1>2 DEF Pickup
<1>3. ASSUME NEW i \in Intents, NEW s \in Stages, Stalled(i, s) \/ Evict(i, s) PROVE Writers
  BY <1>3 DEF Stalled, Evict
<1>4. ASSUME NEW i \in Intents, Api(i) PROVE Writers
  BY <1>4 DEF Api, Enqueue, Approve, HoldRead, HoldCommit, ReleaseRead, ReleasePlan, ReleaseCommit,
         ReleaseEnqueue, RequestRejected, OverrideRoute
<1>5. ASSUME (\E s \in Strategies : SetPaused(s)) \/ SetKillSwitch \/ UNCHANGED vars PROVE Writers
  BY <1>5 DEF SetPaused, SetKillSwitch, vars
<1> QED
  BY <1>1, <1>2, <1>3, <1>4, <1>5 DEF Next

\* Every step keeps the tables in agreement with each other and the venue.
LEMMA TablesStep ==
  ASSUME TypeOK, [Next]_vars, \A r \in Runs : RunInv(r), \A i \in Intents : TablesInv(i)
  PROVE  \A i \in Intents : TablesInv(i)'
<1> SUFFICES ASSUME NEW i \in Intents PROVE TablesInv(i)'
  OBVIOUS
<1>1. Grows /\ Writers /\ TablesInv(i)
  BY Growing, OnlyWriters
<1>2. decision'[i] # None => decision'[i] \in decisions'[i]
  <2>1. CASE decision' = decision
    BY <1>1, <2>1 DEF TablesInv, Grows
  <2>2. ASSUME NEW r \in Runs, PolicyCommit(r) PROVE decision'[i] # None => decision'[i] \in decisions'[i]
    <3>1. PICK d : /\ decision' = [decision EXCEPT ![Target(r)] = d]
                   /\ decisions' = [decisions EXCEPT ![Target(r)] = @ \cup {d}]
      BY <2>2 DEF PolicyCommit
    <3> QED
      BY <1>1, <3>1 DEF TablesInv, TypeOK, TablesOK
  <2> QED
    BY <1>1, <2>1, <2>2 DEF Writers
<1>3. override'[i] <= Len(plans'[i])
  <2>1. Len(plans[i]) \in Nat /\ Len(plans'[i]) >= Len(plans[i]) /\ Len(plans'[i]) \in Nat
    BY <1>1, TypeStep DEF Grows, TypeOK, TablesOK
  <2>2. CASE override' = override
    BY <1>1, <2>1, <2>2 DEF TablesInv, TypeOK, TablesOK
  <2>3. ASSUME NEW k \in Intents, OverrideRoute(k) PROVE override'[i] <= Len(plans'[i])
    <3>1. PICK p \in 1..Len(plans[k]) : override' = [override EXCEPT ![k] = p]
      BY <2>3 DEF OverrideRoute
    <3> QED
      BY <1>1, <2>1, <3>1 DEF TablesInv, TypeOK, TablesOK
  <2> QED
    BY <1>1, <2>2, <2>3 DEF Writers
<1>4. \A e \in rows'[i] : e.outcome = "ok" => e.step \in Steps /\ published'[i][e.step] > 0
  <2>1. \A k \in Steps : published[i][k] > 0 => published'[i][k] > 0
    BY <1>1, TypeStep DEF Grows, TypeOK, TablesOK
  <2>2. \A e \in rows[i] : e.outcome = "ok" => e.step \in Steps /\ published'[i][e.step] > 0
    BY <1>1, <2>1 DEF TablesInv
  <2>3. CASE rows' = rows
    BY <2>2, <2>3
  <2>4. ASSUME NEW r \in Runs, ExecRecord(r)
        PROVE  \A e \in rows'[i] : e.outcome = "ok" => e.step \in Steps /\ published'[i][e.step] > 0
    <3> DEFINE new == [plan |-> run[r].plan, step |-> run[r].step, outcome |-> run[r].reply]
    <3>1. rows' = [rows EXCEPT ![Target(r)] = @ \cup {new}]
      BY <2>4 DEF ExecRecord
    <3>2. run[r].pc = "record" /\ OnPlan(r) /\ RowsFollowLoop(r)
      BY <2>4 DEF ExecRecord, At, RunInv
    <3>3. run[r].step \in Steps
      BY <3>2, StepOnPlan DEF InFlight
    <3>4. i = Target(r) /\ new.outcome = "ok" => new.step \in Steps /\ published'[i][new.step] > 0
      BY <2>1, <3>2, <3>3 DEF RowsFollowLoop
    <3> QED
      BY <2>2, <3>1, <3>4 DEF TypeOK, TablesOK
  <2> QED
    BY <1>1, <2>3, <2>4 DEF Writers
<1> QED
  BY <1>2, <1>3, <1>4 DEF TablesInv

\* Every step keeps what the activations rely on.
LEMMA RunsStep ==
  ASSUME TypeOK, [Next]_vars, \A r \in Runs : RunInv(r), \A i \in Intents : TablesInv(i)
  PROVE  \A r \in Runs : RunInv(r)'
<1>1. TypeOK' /\ Grows
  BY TypeStep, Growing
<1>2. \A r \in Runs : run'[r] = run[r] => RunInv(r)'
  BY <1>1, StandingStill
<1>3. ASSUME NEW r \in Runs, Walk(r) PROVE \A q \in Runs : RunInv(q)'
  BY <1>1, <1>2, <1>3, WalkMoves, MovingOn DEF Moves
<1>4. ASSUME NEW r \in Runs, LoseLock(r) PROVE \A q \in Runs : RunInv(q)'
  <2>1. /\ \A q \in Runs \ {r} : run'[q] = run[q]
        /\ run'[r].intent = run[r].intent /\ run'[r].stage = run[r].stage /\ run'[r].pc = run[r].pc
        /\ run'[r].plan = run[r].plan /\ run'[r].step = run[r].step /\ run'[r].reply = run[r].reply
    BY <1>4 DEF LoseLock, TypeOK, RunsOK, RunType
  <2> QED
    BY <1>1, <1>2, <2>1, StandingStill
<1>5. ASSUME NEW r \in Runs, NEW i, NEW s,
             Pickup(r, i, s) \/ Ack(r) \/ FailedRejected(r) \/ Crash(r) \/ FailedRead(r) \/ FailedCommit(r)
      PROVE  \A q \in Runs : RunInv(q)'
  <2>1. \A q \in Runs \ {r} : run'[q] = run[q]
    BY <1>5 DEF Pickup, Ack, FailedRejected, Listening, Crash, FailedRead, FailedCommit, TypeOK, RunsOK
  <2>2. run'[r].pc \in {"begin", "fatal", "on_failed", "fail_commit", "idle"}
    <3>1. CASE Pickup(r, i, s)
      BY <3>1 DEF Pickup, TypeOK, RunsOK, Idle
    <3>2. CASE Ack(r)
      BY <3>2 DEF Ack, TypeOK, RunsOK, RunType, Idle
    <3>3. CASE FailedRejected(r) \/ Crash(r) \/ FailedCommit(r)
      BY <3>3 DEF FailedRejected, Listening, Crash, FailedCommit, TypeOK, RunsOK, Idle
    <3>4. CASE FailedRead(r)
      BY <3>4 DEF FailedRead, TypeOK, RunsOK, RunType
    <3> QED
      BY <1>5, <3>1, <3>2, <3>3, <3>4
  <2> QED
    BY <1>2, <2>1, <2>2, NothingToKeep DEF InFlight
<1>6. ASSUME NEW i \in Intents, Api(i) \/ \E s \in Stages : Stalled(i, s) \/ Evict(i, s)
      PROVE  run' = run
  BY <1>6 DEF Api, Enqueue, Approve, HoldRead, HoldCommit, ReleaseRead, ReleasePlan, ReleaseCommit,
         ReleaseEnqueue, RequestRejected, OverrideRoute, Stalled, Evict
<1>7. ASSUME (\E s \in Strategies : SetPaused(s)) \/ SetKillSwitch \/ UNCHANGED vars PROVE run' = run
  BY <1>7 DEF SetPaused, SetKillSwitch, vars
<1> QED
  BY <1>2, <1>3, <1>4, <1>5, <1>6, <1>7 DEF Next, Handler, Walk

\* A plan once fully recorded stays fully recorded.
LEMMA StaysRecorded ==
  ASSUME TypeOK, TypeOK', Grows, NEW i \in Intents, FullyRecorded(i)
  PROVE  FullyRecorded(i)'
<1>1. PICK p \in 1..Len(plans[i]) : RecordedUpTo(i, p, plans[i][p])
  BY DEF FullyRecorded
<1>2. /\ plans[i] \in Seq(Steps) /\ plans'[i] \in Seq(Steps) /\ Len(plans[i]) <= Len(plans'[i])
      /\ plans'[i][p] = plans[i][p]
  BY DEF Grows, TypeOK, TablesOK
<1>3. RecordedUpTo(i, p, plans[i][p])'
  BY <1>1, <1>2 DEF RecordedUpTo, Grows
<1>4. p \in 1..Len(plans'[i])
  BY <1>2
<1> QED
  BY <1>3, <1>4 DEF FullyRecorded

\* An intent becomes executed only at the end of a step loop.
LEMMA WhoExecutes ==
  ASSUME TypeOK, [Next]_vars, NEW i \in Intents, status'[i] = "executed", status[i] # "executed"
  PROVE  \E r \in Runs : ExecComplete(r) /\ Target(r) = i
<1> USE DEF intentVars
<1>1. status' # status
  OBVIOUS
<1>2. ASSUME NEW r \in Runs, Handler(r) \/ Throw(r) \/ FailedRejected(r) \/ Crash(r) \/ LoseLock(r)
      PROVE  ExecComplete(r) /\ Target(r) = i
  <2>1. \/ QuoteCommit(r) \/ RouteCommit(r) \/ PolicyCommit(r)
        \/ ExecRecord(r) \/ ExecComplete(r) \/ FailedCommit(r)
    BY <1>1, <1>2 DEF Handler, ReadIntent, PolicyPlan, ExecKillSwitch, ExecIntent, ExecStrategy, ExecDecision,
           ExecPlan, ExecDedup,
           ExecSubmit, ExecJournal, FailedRead, Ack, Throw, FailedRejected, Listening, Crash, LoseLock
  <2>2. \/ \E st \in {"quoted", "routed", "policy_checked", "failed"} : status' = [status EXCEPT ![Target(r)] = st]
        \/ ExecComplete(r)
    BY <1>1, <2>1 DEF QuoteCommit, RouteCommit, PolicyCommit, ExecRecord, FailedCommit, Transition
  <2>3. ExecComplete(r)
    BY <2>2 DEF TypeOK, TablesOK
  <2>4. status' = [status EXCEPT ![Target(r)] = "executed"]
    BY <2>3 DEF ExecComplete, Transition
  <2> QED
    BY <2>3, <2>4 DEF TypeOK, TablesOK
<1>3. ASSUME NEW k \in Intents, Api(k) PROVE FALSE
  <2>1. \E st \in {"held", "routed", "quoted"} : status' = [status EXCEPT ![k] = st]
    BY <1>1, <1>3 DEF Api, Enqueue, Approve, HoldRead, HoldCommit, ReleaseRead, ReleasePlan, ReleaseCommit,
           ReleaseEnqueue, RequestRejected, OverrideRoute
  <2> QED
    BY <2>1 DEF TypeOK, TablesOK
<1>4. ASSUME NEW r \in Runs, NEW k \in Intents, NEW s \in Stages, Pickup(r, k, s) PROVE FALSE
  BY <1>1, <1>4 DEF Pickup
<1>5. ASSUME NEW k \in Intents, NEW s \in Stages, Stalled(k, s) \/ Evict(k, s) PROVE FALSE
  BY <1>1, <1>5 DEF Stalled, Evict
<1>6. ASSUME (\E s \in Strategies : SetPaused(s)) \/ SetKillSwitch \/ UNCHANGED vars PROVE FALSE
  BY <1>1, <1>6 DEF SetPaused, SetKillSwitch, vars
<1> QED
  BY <1>2, <1>3, <1>4, <1>5, <1>6 DEF Next

\* Every step keeps executed and journalled intents fully recorded.
LEMMA ExecutedStep ==
  ASSUME TypeOK, [Next]_vars, \A r \in Runs : RunInv(r), ExecutedIsFullyRecorded
  PROVE  ExecutedIsFullyRecorded'
<1>1. TypeOK' /\ Grows /\ Writers
  BY TypeStep, Growing, OnlyWriters
<1>2. ASSUME NEW r \in Runs, run[r].pc \in {"complete", "journal"} PROVE FullyRecorded(Target(r))
  BY <1>2 DEF RunInv, OnPlan, RowsFollowLoop, InFlight, FullyRecorded
<1> SUFFICES ASSUME NEW i \in Intents, status'[i] = "executed" \/ i \in journal'
             PROVE  FullyRecorded(i)'
  BY DEF ExecutedIsFullyRecorded
<1>3. FullyRecorded(i)
  <2>1. CASE status[i] = "executed" \/ i \in journal
    BY <2>1 DEF ExecutedIsFullyRecorded
  <2>2. CASE status'[i] = "executed" /\ status[i] # "executed"
    BY <1>2, <2>2, WhoExecutes DEF ExecComplete, At
  <2>3. ASSUME NEW r \in Runs, ExecJournal(r), i \notin journal, i \in journal' PROVE FullyRecorded(i)
    BY <1>2, <2>3 DEF ExecJournal, At
  <2> QED
    BY <1>1, <2>1, <2>2, <2>3 DEF Writers
<1> QED
  BY <1>1, <1>3, StaysRecorded

\* A handler comes to a submission from its duplicate check or from the last record.
LEMMA WhoSubmits ==
  ASSUME TypeOK, [Next]_vars, NEW q \in Runs, run'[q].pc = "submit"
  PROVE  \/ /\ run[q].pc = "submit" /\ run'[q].step = run[q].step
            /\ run'[q].intent = run[q].intent
         \/ ExecDedup(q) \/ ExecRecord(q)
<1> DEFINE Goal == \/ /\ run[q].pc = "submit" /\ run'[q].step = run[q].step
                      /\ run'[q].intent = run[q].intent
                   \/ ExecDedup(q) \/ ExecRecord(q)
<1>1. CASE run'[q] = run[q]
  BY <1>1
<1>2. ASSUME NEW r \in Runs, Walk(r) PROVE Goal
  <2>1. CASE r = q
    BY <1>2, <2>1, StageMoves, GuardMoves, LoopMoves DEF Walk, Moves
  <2>2. CASE r # q
    BY <1>1, <1>2, <2>2, WalkMoves DEF Moves
  <2> QED
    BY <2>1, <2>2
<1>3. ASSUME NEW r \in Runs, NEW i, NEW s,
             Pickup(r, i, s) \/ Ack(r) \/ FailedRejected(r) \/ Crash(r) \/ LoseLock(r) \/ FailedRead(r) \/ FailedCommit(r)
      PROVE  Goal
  <2>1. CASE r # q
    BY <1>1, <1>3, <2>1 DEF Pickup, Ack, FailedRejected, Listening, Crash, LoseLock, FailedRead, FailedCommit, TypeOK, RunsOK
  <2>2. CASE r = q /\ LoseLock(r)
    BY <2>2 DEF LoseLock, TypeOK, RunsOK, RunType
  <2>3. CASE r = q /\ Pickup(r, i, s)
    BY <2>3 DEF Pickup, TypeOK, RunsOK, Idle
  <2>4. CASE r = q /\ Ack(r)
    BY <2>4 DEF Ack, TypeOK, RunsOK, RunType, Idle
  <2>5. CASE r = q /\ (FailedRejected(r) \/ Crash(r) \/ FailedCommit(r))
    BY <2>5 DEF FailedRejected, Listening, Crash, FailedCommit, TypeOK, RunsOK, Idle
  <2>6. CASE r = q /\ FailedRead(r)
    BY <2>6 DEF FailedRead, TypeOK, RunsOK, RunType
  <2> QED
    BY <1>3, <2>1, <2>2, <2>3, <2>4, <2>5, <2>6
<1>4. ASSUME NEW i \in Intents, Api(i) \/ \E s \in Stages : Stalled(i, s) \/ Evict(i, s)
      PROVE  run' = run
  BY <1>4 DEF Api, Enqueue, Approve, HoldRead, HoldCommit, ReleaseRead, ReleasePlan, ReleaseCommit,
         ReleaseEnqueue, RequestRejected, OverrideRoute, Stalled, Evict
<1>5. ASSUME (\E s \in Strategies : SetPaused(s)) \/ SetKillSwitch \/ UNCHANGED vars PROVE run' = run
  BY <1>5 DEF SetPaused, SetKillSwitch, vars
<1> HIDE DEF Goal
<1>6. Goal
  <2>1. CASE run' = run
    BY <1>1, <2>1 DEF Goal
  <2> QED
    BY <1>2, <1>3, <1>4, <1>5, <2>1 DEF Next, Handler, Walk
<1> QED
  BY <1>6 DEF Goal

\* Every step keeps a first submission clear of open executions: a second
\* handler would need the same job.
LEMMA SubmitStep ==
  ASSUME TypeOK, OneOwner, [Next]_vars, ~Zombies, \A r \in Runs : RunInv(r), NoSubmitOverOpenExecution
  PROVE  NoSubmitOverOpenExecution'
<1> SUFFICES ASSUME NEW q \in Runs, run'[q].pc = "submit", run'[q].step = 1, run'[q].intent \in Live
             PROVE  lastRow'[run'[q].intent] # "ok"
  BY DEF NoSubmitOverOpenExecution, HasBlockingExecution, Target
<1>1. ~ExecRecord(q)
  <2> SUFFICES ASSUME ExecRecord(q) PROVE FALSE
    OBVIOUS
  <2>1. run'[q].step = run[q].step + 1 /\ run[q].pc = "record"
    BY LoopMoves DEF ExecRecord, At
  <2>2. run[q].step \in Steps
    BY <2>1, StepOnPlan DEF RunInv, InFlight
  <2> QED
    BY <2>1, <2>2 DEF Steps
<1>2. CASE ExecDedup(q)
  <2>1. run'[q].intent = Target(q) /\ ~Skips(Target(q)) /\ lastRow' = lastRow
    BY <1>2, LoopMoves DEF ExecDedup, Moves, Target, execVars
  <2> QED
    BY <2>1 DEF Skips, HasBlockingExecution
<1>3. CASE run[q].pc = "submit" /\ run'[q].step = run[q].step /\ run'[q].intent = run[q].intent
  <2>1. lastRow[run[q].intent] # "ok"
    BY <1>3 DEF NoSubmitOverOpenExecution, HasBlockingExecution, Target
  <2>2. ASSUME NEW r \in Runs, ExecRecord(r), run[r].intent = run[q].intent PROVE FALSE
    <3>1. run[r].pc = "record" /\ run[r].stage = "execute" /\ run[q].stage = "execute"
      BY <1>3, <2>2 DEF ExecRecord, At, RunInv, GuardsPassed, InFlight
    <3>2. run[r].owner /\ run[q].owner
      BY <1>3, <3>1 DEF OneOwner, Working
    <3> QED
      BY <1>3, <2>2, <3>1, <3>2 DEF OneOwner, Target
  <2>3. ASSUME NEW r \in Runs, ExecRecord(r) PROVE lastRow'[run[q].intent] = lastRow[run[q].intent]
    <3>1. run[q].intent \in Intents
      BY <1>3, RunTarget DEF TypeOK, Target
    <3> QED
      BY <2>2, <2>3, <3>1 DEF ExecRecord, Target, TypeOK, TablesOK
  <2> QED
    BY <1>3, <2>1, <2>3, OnlyWriters DEF Writers
<1> QED
  BY <1>1, <1>2, <1>3, WhoSubmits

\* The invariant holds initially,
LEMMA InvInit == Init => Inv
<1> SUFFICES ASSUME Init PROVE Inv
  OBVIOUS
<1>1. \A r \in Runs : run[r] = Idle
  BY DEF Init
<1>2. OneOwner /\ (\A r \in Runs : RunInv(r)) /\ NoSubmitOverOpenExecution
  BY <1>1 DEF Idle, OneOwner, RunInv, GuardsPassed, OnPlan, RowsFollowLoop, InFlight,
              NoSubmitOverOpenExecution, Working, Verdicts
<1>3. (\A i \in Intents : TablesInv(i)) /\ ExecutedIsFullyRecorded
  BY DEF Init, TablesInv, ExecutedIsFullyRecorded
<1> QED
  BY <1>2, <1>3, InitTypeOK DEF Inv

\* and every step keeps it.
LEMMA InvStep == Inv /\ [Next]_vars => Inv'
<1> SUFFICES ASSUME Inv, [Next]_vars PROVE Inv'
  OBVIOUS
<1>1. TypeOK' /\ OneOwner'
  BY TypeStep, LockStep DEF Inv
<1>2. (\A r \in Runs : RunInv(r)') /\ (\A i \in Intents : TablesInv(i)')
  BY RunsStep, TablesStep DEF Inv
<1>3. ExecutedIsFullyRecorded'
  BY ExecutedStep DEF Inv
<1>4. ~Zombies => NoSubmitOverOpenExecution'
  BY SubmitStep DEF Inv
<1> QED
  BY <1>1, <1>2, <1>3, <1>4 DEF Inv

\* The strengthened invariant holds in every reachable state.
THEOREM Invariance == Spec => []Inv
<1>1. Init => Inv
  BY InvInit
<1>2. Inv /\ [Next]_vars => Inv'
  BY InvStep
<1> QED
  BY <1>1, <1>2, PTL DEF Spec

\* An intent shows as executed, or has a journal entry, only when every step of
\* one of its plans has a successful execution row; whatever crashes, retries
\* and workers that outlive their locks do.
THEOREM ExecutedIsRecorded == Spec => []ExecutedIsFullyRecorded
<1>1. Inv => ExecutedIsFullyRecorded
  BY DEF Inv
<1> QED
  BY <1>1, Invariance, PTL

\* While no worker outlives its lock, no handler is about to start submitting a
\* live intent over an execution that progressed.
THEOREM NoOverlappingSubmit ==
  ASSUME ~Zombies
  PROVE  Spec => []NoSubmitOverOpenExecution
<1>1. Inv => NoSubmitOverOpenExecution
  BY DEF Inv
<1> QED
  BY <1>1, Invariance, PTL

\* A step that leaves approvals, decisions, the venue and the journal alone is a
\* stutter of the gate.
LEMMA GateStutter ==
  ASSUME UNCHANGED <<approval, decisions, published, journal>>
  PROVE  UNCHANGED Gate!gateVars
BY DEF Gate!gateVars, Cleared, Approved, SentSteps

\* A step that only adds to what clears one intent clears it or is a stutter.
LEMMA GateClear ==
  ASSUME TypeOK, NEW i \in Intents, UNCHANGED <<published, journal>>,
         Cleared(i) => Cleared(i)',
         \A k \in Intents \ {i} : Cleared(k)' <=> Cleared(k)
  PROVE  [Gate!Next]_(Gate!gateVars)
<1>1. UNCHANGED <<[k \in Intents |-> SentSteps(k)], journal>>
  BY DEF SentSteps
<1>2. CASE Cleared(i)'
  <2>1. {k \in Intents : Cleared(k)}' = {k \in Intents : Cleared(k)} \cup {i}
    BY <1>2
  <2>2. Gate!Clear(i)
    BY <1>1, <2>1 DEF Gate!Clear
  <2> QED
    BY <2>2 DEF Gate!Next
<1>3. CASE ~Cleared(i)'
  <2>1. {k \in Intents : Cleared(k)}' = {k \in Intents : Cleared(k)}
    BY <1>3
  <2> QED
    BY <1>1, <2>1 DEF Gate!gateVars
<1> QED
  BY <1>2, <1>3

\* A submission is a Send of the gate or a stutter.
LEMMA GateSend ==
  ASSUME Inv, NEW r \in Runs, ExecSubmit(r)
  PROVE  [Gate!Next]_(Gate!gateVars)
<1> DEFINE sent == [j \in Intents |-> SentSteps(j)]
<1>1. PICK i, k, p : i = Target(r) /\ k = run[r].step /\ p = run[r].plan
  OBVIOUS
<1>2. /\ At(r, "execute", "submit") /\ OnPlan(r) /\ RowsFollowLoop(r) /\ GuardsPassed(r)
      /\ TypeOK /\ TablesInv(i)
  BY <1>1, RunTarget DEF Inv, RunInv, ExecSubmit, At, TypeOK
<1>3. i \in Intents /\ k \in Steps
  BY <1>1, <1>2, StepOnPlan DEF At, InFlight
<1>4. Cleared(i)
  BY <1>1, <1>2 DEF GuardsPassed, Cleared, At, InFlight
<1>5. \A n \in 1..(k - 1) : n \in SentSteps(i)
  <2> TAKE n \in 1..(k - 1)
  <2> DEFINE e == [plan |-> p, step |-> n, outcome |-> "ok"]
  <2>1. e \in rows[i]
    BY <1>1, <1>2 DEF RowsFollowLoop, RecordedUpTo, At
  <2>2. e.step \in Steps /\ published[i][e.step] > 0
    BY <1>2, <2>1 DEF TablesInv
  <2> QED
    BY <2>2 DEF SentSteps
<1>6. UNCHANGED <<approval, decisions, journal>>
  BY DEF ExecSubmit, intentVars, planVars
<1>7. UNCHANGED <<{j \in Intents : Cleared(j)}, journal>>
  BY <1>6 DEF Cleared, Approved
<1>8. CASE published' = published
  BY <1>6, <1>8, GateStutter
<1>9. CASE published' = [published EXCEPT ![i][k] = @ + 1]
  <2>1. /\ published[i][k] \in Nat /\ published'[i][k] = published[i][k] + 1
        /\ \A n \in Steps \ {k} : published'[i][n] = published[i][n]
        /\ \A j \in Intents \ {i} : published'[j] = published[j]
    BY <1>2, <1>3, <1>9 DEF TypeOK, TablesOK
  <2>2. SentSteps(i)' = SentSteps(i) \cup {k}
    BY <1>3, <2>1 DEF SentSteps
  <2>3. \A j \in Intents \ {i} : SentSteps(j)' = SentSteps(j)
    BY <2>1 DEF SentSteps
  <2>4. sent' = [sent EXCEPT ![i] = @ \cup {k}]
    BY <1>3, <2>2, <2>3
  <2>5. Gate!Send(i, k)
    BY <1>3, <1>4, <1>5, <1>7, <2>4 DEF Gate!Send
  <2> QED
    BY <1>3, <2>5 DEF Gate!Next
<1> QED
  BY <1>1, <1>8, <1>9 DEF ExecSubmit

\* A journal entry is a Settle of the gate or a stutter.
LEMMA GateSettle ==
  ASSUME Inv, NEW r \in Runs, ExecJournal(r)
  PROVE  [Gate!Next]_(Gate!gateVars)
<1>1. PICK i, p : i = Target(r) /\ p = run[r].plan
  OBVIOUS
<1>2. /\ At(r, "execute", "journal") /\ OnPlan(r) /\ RowsFollowLoop(r) /\ TypeOK
  BY DEF Inv, RunInv, ExecJournal
<1>3. i \in Intents /\ TablesInv(i) /\ plans[i][p] \in Steps
  BY <1>1, <1>2, StepOnPlan DEF At, InFlight, Inv
<1>4. [plan |-> p, step |-> 1, outcome |-> "ok"] \in rows[i]
  BY <1>1, <1>2, <1>3 DEF RowsFollowLoop, RecordedUpTo, At, Steps
<1>5. 1 \in SentSteps(i)
  BY <1>3, <1>4 DEF TablesInv, SentSteps
<1>6. UNCHANGED <<approval, decisions, published>>
  BY DEF ExecJournal, intentVars, planVars
<1>7. UNCHANGED <<{j \in Intents : Cleared(j)}, [j \in Intents |-> SentSteps(j)]>>
  BY <1>6 DEF Cleared, Approved, SentSteps
<1>8. CASE journal' = journal
  BY <1>6, <1>8, GateStutter
<1>9. CASE journal' = journal \cup {i}
  <2>1. Gate!Settle(i)
    BY <1>3, <1>5, <1>7, <1>9 DEF Gate!Settle
  <2> QED
    BY <1>3, <2>1 DEF Gate!Next
<1> QED
  BY <1>1, <1>8, <1>9 DEF ExecJournal

\* The pipeline implements the gate: no step of a route reaches a venue before
\* the intent is cleared by policy and approval, the steps of a route are carried
\* out in order, and nothing is journalled before its first step was.
THEOREM GateRefinement == Spec => GateSpec
<1>1. Init => Gate!Init
  <2> SUFFICES ASSUME Init PROVE Gate!Init
    OBVIOUS
  <2>1. {i \in Intents : Cleared(i)} = {}
    BY DEF Init, Cleared
  <2>2. [i \in Intents |-> SentSteps(i)] = [i \in Intents |-> {}]
    BY DEF Init, SentSteps
  <2> QED
    BY <2>1, <2>2 DEF Init, Gate!Init
<1>2. Inv /\ [Next]_vars => [Gate!Next]_(Gate!gateVars)
  <2> SUFFICES ASSUME Inv, [Next]_vars PROVE [Gate!Next]_(Gate!gateVars)
    OBVIOUS
  <2>1. TypeOK /\ Grows /\ Writers
    BY Growing, OnlyWriters DEF Inv
  <2>2. ASSUME NEW r \in Runs, PolicyCommit(r) PROVE [Gate!Next]_(Gate!gateVars)
    <3>1. PICK i : i = Target(r)
      OBVIOUS
    <3>2. i \in Intents
      BY <2>1, <2>2, <3>1, RunTarget DEF PolicyCommit, At, TypeOK
    <3>3. /\ \A k \in Intents \ {i} : decisions'[k] = decisions[k]
          /\ decisions[i] \subseteq decisions'[i]
          /\ UNCHANGED <<approval, published, journal>>
      BY <2>1, <2>2, <3>1, <3>2 DEF PolicyCommit, execVars, TypeOK, TablesOK, Grows
    <3>4. /\ Cleared(i) => Cleared(i)'
          /\ \A k \in Intents \ {i} : Cleared(k)' <=> Cleared(k)
      BY <3>3 DEF Cleared, Approved
    <3> QED
      BY <2>1, <3>2, <3>3, <3>4, GateClear
  <2>3. ASSUME NEW i \in Intents, Approve(i) PROVE [Gate!Next]_(Gate!gateVars)
    <3>1. /\ \A k \in Intents \ {i} : approval'[k] = approval[k]
          /\ approval'[i] = "approved"
          /\ UNCHANGED <<decisions, published, journal>>
      BY <2>1, <2>3 DEF Approve, planVars, execVars, TypeOK, TablesOK
    <3>2. /\ Cleared(i) => Cleared(i)'
          /\ \A k \in Intents \ {i} : Cleared(k)' <=> Cleared(k)
      BY <3>1 DEF Cleared, Approved
    <3> QED
      BY <2>1, <2>3, <3>1, <3>2, GateClear
  <2>4. ASSUME NEW r \in Runs, RouteCommit(r) \/ ExecRecord(r) PROVE [Gate!Next]_(Gate!gateVars)
    BY <2>4, GateStutter DEF RouteCommit, ExecRecord, planVars, execVars
  <2>5. CASE UNCHANGED grown
    <3>1. CASE journal' = journal
      BY <2>5, <3>1, GateStutter DEF grown
    <3> QED
      BY <2>1, <3>1, GateSettle DEF Writers
  <2> QED
    BY <2>2, <2>3, <2>4, <2>5, GateSend, Growers
<1> QED
  BY <1>1, <1>2, Invariance, PTL DEF Spec, GateSpec, Gate!Spec

----------------------------------------------------------------------------
(***************************************************************************)
(* What clients who poll can rely on: when every stage is posted only once *)
(* the status shows the one before it, no finished job is dropped from its *)
(* queue, no worker outlives its lock and nobody holds an intent, each     *)
(* intent has one writer at a time.  Then the status follows the lifecycle *)
(* although no write checks it, and what is executed is the plan that a    *)
(* policy decision allowed.                                                *)
(***************************************************************************)

Polling ==
  /\ ~Eager
  /\ ~Zombies
  /\ MaxEvictions = 0
  /\ "hold" \notin Operators

\* A stage handler between its read of the intent and its commit,
Staging(r) == run[r].stage # "execute" /\ run[r].pc \in {"plan", "commit"}

\* an execute handler between the same two points,
Executing(r) ==
  /\ run[r].stage = "execute"
  /\ run[r].pc \in {"strategy", "decision", "plan", "dedup", "submit", "record", "complete"}

\* and the "failed" listener, before and after its read.
Reporting(r) == run[r].pc \in {"on_failed", "fail_commit"}

Writing(r) == Staging(r) \/ Executing(r) \/ run[r].pc = "fail_commit"

\* What a handler read of its intent still stands when it writes.
ReadStands(r) ==
  /\ Writing(r) => run[r].seen = status[Target(r)]
  /\ Staging(r) => CanTransition(run[r].seen, After(run[r].stage))
  /\ Executing(r) => run[r].seen = "policy_checked"
  /\ At(r, "policy", "commit") => run[r].plan = 1
  /\ Reporting(r) => run[r].stage = "execute" /\ job[Target(r)]["execute"].state = "failed"

OneReporter ==
  \A q, r \in Runs : Reporting(q) /\ Reporting(r) /\ Target(q) = Target(r) => q = r

\* The tables of an intent are those of a single walk through the pipeline.
SingleWalk(i) ==
  /\ status[i] # "held" /\ request[i] = None
  /\ job[i]["execute"].state # "none" => status[i] \in {"policy_checked", "executed", "failed"}
  /\ Len(plans[i]) = IF status[i] \in {"created", "quoted"} THEN 0 ELSE 1
  /\ \A d \in decisions[i] : d.plan = 1
  /\ \A e \in rows[i] : e.plan = 1
  /\ rows[i] # {} => \E d \in decisions[i] : d.allowed

PollInv ==
  /\ Inv
  /\ OneReporter
  /\ \A r \in Runs : ReadStands(r)
  /\ \A i \in Intents : SingleWalk(i)

----------------------------------------------------------------------------
(* One writer at a time *)

\* The transition table, read backwards.
LEMMA Backwards ==
  ASSUME NEW from \in Statuses \ {"held"}
  PROVE  /\ \A s \in Stages : CanTransition(from, After(s)) => from = Before(s)
         /\ CanTransition(from, "executed") => from = "policy_checked"
         /\ \A to \in Statuses : CanTransition(from, to) => to # "created" /\ from # to
         /\ CanTransition(from, "failed") => from # "failed"
<1> USE DEF CanTransition, AllowedNext, Statuses, After, Before, Stages
<1>1. AllowedNext[from] =
        CASE from = "created"        -> {"quoted", "held", "failed"}
          [] from = "quoted"         -> {"routed", "held", "failed"}
          [] from = "routed"         -> {"policy_checked", "held", "failed"}
          [] from = "policy_checked" -> {"executed", "held", "failed"}
          [] from = "executed"       -> {"failed"}
          [] from = "failed"         -> {}
  OBVIOUS
<1> QED
  BY <1>1

\* A stage handler about to write found the status its stage starts from.
LEMMA StagingSeen ==
  ASSUME PollInv, NEW r \in Runs, Staging(r)
  PROVE  /\ Target(r) \in Intents /\ run[r].stage \in Stages \ {"execute"}
         /\ run[r].seen = Before(run[r].stage)
         /\ status[Target(r)] = Before(run[r].stage)
<1>1. Target(r) \in Intents /\ run[r].stage \in Stages \ {"execute"}
  BY RunTarget DEF Staging, PollInv, Inv, TypeOK
<1>2. status[Target(r)] \in Statuses \ {"held"}
  BY <1>1 DEF PollInv, SingleWalk, Inv, TypeOK, TablesOK
<1>3. run[r].seen = status[Target(r)] /\ CanTransition(run[r].seen, After(run[r].stage))
  BY DEF PollInv, ReadStands, Writing
<1> QED
  BY <1>1, <1>2, <1>3, Backwards

\* No two handlers are between reading an intent and writing it.
LEMMA OneWriter ==
  ASSUME Polling, PollInv, NEW q \in Runs, NEW r \in Runs,
         Writing(q), Writing(r), Target(q) = Target(r)
  PROVE  q = r
<1> USE DEF PollInv, Inv
<1>1. \A p \in Runs : Staging(p) \/ Executing(p) => run[p].owner
  BY DEF Staging, Executing, OneOwner, Working, Polling
<1>2. \A p \in Runs : Executing(p) => job[Target(p)]["execute"].state = "active"
  BY <1>1 DEF Executing, OneOwner
<1>3. \A p \in Runs : Executing(p) => status[Target(p)] = "policy_checked"
  BY DEF ReadStands, Writing
<1>4. \A p \in Runs : run[p].pc = "fail_commit" =>
        Reporting(p) /\ Target(p) \in Intents /\ job[Target(p)]["execute"].state = "failed"
  BY RunTarget DEF ReadStands, Reporting, TypeOK
<1>5. CASE Staging(q) /\ Staging(r)
  <2>1. Before(run[q].stage) = Before(run[r].stage)
    BY <1>5, StagingSeen
  <2>2. run[q].stage = run[r].stage
    BY <1>5, <2>1, StagingSeen DEF Before, Stages
  <2> QED
    BY <1>1, <1>5, <2>2 DEF OneOwner
<1>6. ASSUME NEW p \in Runs, Staging(p)
      PROVE  status[Target(p)] \in {"created", "quoted", "routed"} /\ Target(p) \in Intents
  BY <1>6, StagingSeen DEF Before, Stages
<1>7. CASE Executing(q) /\ Executing(r)
  BY <1>1, <1>7 DEF OneOwner, Executing
<1>8. CASE run[q].pc = "fail_commit" /\ run[r].pc = "fail_commit"
  BY <1>4, <1>8 DEF OneReporter
<1>9. ASSUME NEW p \in Runs, run[p].pc = "fail_commit"
      PROVE  status[Target(p)] \in {"policy_checked", "executed", "failed"}
  BY <1>4, <1>9 DEF SingleWalk
<1> QED
  BY <1>2, <1>3, <1>4, <1>5, <1>6, <1>7, <1>8, <1>9 DEF Writing

----------------------------------------------------------------------------
(* How an activation comes to write, and stops *)

Reading(r) == ReadIntent(r) \/ ExecIntent(r) \/ FailedRead(r)

\* A handler on its way keeps what it read.
LEMMA SeenKept ==
  ASSUME TypeOK, NEW r \in Runs, Walk(r), ~Reading(r), run'[r].pc \notin Verdicts
  PROVE  /\ run'[r].seen = run[r].seen
         /\ PolicyPlan(r) => run'[r].plan = ChosenPlan(Target(r))
<1>1. run[r] \in RunType /\ run \in [Runs -> RunType]
  BY DEF TypeOK, RunsOK
<1>2. ASSUME NEW pc \in PCs, Goto(r, pc), pc \notin Verdicts
      PROVE  run'[r].seen = run[r].seen
  BY <1>1, <1>2, MovedFacts DEF Goto
<1>3. ASSUME NEW pc, Goto(r, pc) PROVE run'[r].pc = pc
  BY <1>1, <1>3 DEF Goto, Moved, RunType, Idle
<1>4. CASE \/ ExecKillSwitch(r) \/ ExecStrategy(r) \/ ExecDecision(r) \/ ExecDedup(r) \/ ExecComplete(r)
  <2>1. PICK pc \in PCs : Goto(r, pc)
    BY <1>4 DEF ExecKillSwitch, ExecStrategy, ExecDecision, ExecDedup, ExecComplete, PCs, Working, Verdicts
  <2>2. pc \notin Verdicts
    BY <1>3, <2>1
  <2>3. ~PolicyPlan(r)
    BY <1>4 DEF PolicyPlan, ExecKillSwitch, ExecStrategy, ExecDecision, ExecDedup, ExecComplete, At
  <2> QED
    BY <1>2, <2>1, <2>2, <2>3
<1>5. CASE QuoteCommit(r) \/ RouteCommit(r) \/ PolicyCommit(r) \/ ExecJournal(r) \/ Throw(r)
  BY <1>3, <1>5 DEF QuoteCommit, RouteCommit, PolicyCommit, ExecJournal, Throw, Verdicts
<1>6. CASE PolicyPlan(r)
  <2> DEFINE a == [run[r] EXCEPT !.plan = ChosenPlan(Target(r))]
  <2>1. run'[r] = Moved(a, "commit") /\ a \in RunType /\ a.seen = run[r].seen /\ a.plan = ChosenPlan(Target(r))
    <3>1. ChosenPlan(Target(r)) \in Nat
      BY <1>6, RunTarget DEF PolicyPlan, At, ChosenPlan, TypeOK, TablesOK
    <3> QED
      BY <1>1, <1>6, <3>1 DEF PolicyPlan, RunType
  <2> HIDE DEF a
  <2> QED
    BY <1>6, <2>1, MovedFacts DEF PCs, Working, Verdicts
<1>7. CASE ExecPlan(r)
  <2> DEFINE a == [run[r] EXCEPT !.plan = ChosenPlan(Target(r)), !.step = 1]
  <2>1. \E pc \in PCs : run'[r] = Moved(a, pc)
    BY <1>1, <1>7 DEF ExecPlan, PCs, Working, Verdicts
  <2>2. a \in RunType /\ a.seen = run[r].seen
    <3>1. ChosenPlan(Target(r)) \in Nat
      BY <1>7, RunTarget DEF ExecPlan, At, ChosenPlan, TypeOK, TablesOK
    <3> QED
      BY <1>1, <3>1 DEF RunType
  <2>3. run[r].stage = "execute"
    BY <1>7 DEF ExecPlan, At
  <2> HIDE DEF a
  <2> QED
    BY <1>7, <2>1, <2>2, <2>3, MovedFacts DEF PolicyPlan, At
<1>8. CASE ExecSubmit(r)
  BY <1>1, <1>8 DEF ExecSubmit, RunType, PolicyPlan, At
<1>9. CASE ExecRecord(r)
  <2> DEFINE last == LastStep(Target(r), run[r].plan, run[r].step)
             k == IF last THEN run[r].step ELSE run[r].step + 1
             a == [run[r] EXCEPT !.reply = None, !.step = k]
             next == IF run[r].reply = "failed" THEN "done" ELSE IF last THEN "complete" ELSE "submit"
  <2>1. k \in Nat
    BY <1>1 DEF RunType
  <2>2. run'[r] = Moved(a, next)
    BY <1>1, <1>9 DEF ExecRecord
  <2>3. next \in PCs
    BY DEF PCs, Working, Verdicts
  <2> HIDE DEF k
  <2>4. a \in RunType /\ a.seen = run[r].seen
    BY <1>1, <2>1 DEF RunType
  <2>5. ~PolicyPlan(r)
    BY <1>9 DEF ExecRecord, PolicyPlan, At
  <2> HIDE DEF a, next
  <2> QED
    BY <2>2, <2>3, <2>4, <2>5, MovedFacts
<1> QED
  BY <1>4, <1>5, <1>6, <1>7, <1>8, <1>9 DEF Walk, Reading

\* An activation comes to write by reading, and to report by an answer of
\* BullMQ; until then, and after, it is where it was.
StaysWriting(r) ==
  /\ Writing(r)
  /\ run'[r].seen = run[r].seen /\ run'[r].intent = run[r].intent /\ run'[r].stage = run[r].stage
  /\ Staging(r)' => Staging(r)
  /\ Executing(r)' => Executing(r)

Arrives(r) ==
  /\ Writing(r)' => StaysWriting(r) \/ Reading(r)
  /\ Reporting(r)' => \/ Ack(r)
                      \/ Reporting(r) /\ run'[r].intent = run[r].intent /\ run'[r].stage = run[r].stage
  /\ At(r, "policy", "commit")' => run'[r] = run[r] \/ PolicyPlan(r)

\* A step of a handler before its answer does no more than that.
LEMMA WalkArrives ==
  ASSUME TypeOK, NEW r \in Runs, Walk(r)
  PROVE  Arrives(r)
<1>1. CASE Reading(r)
  <2>1. ReadIntent(r) \/ ExecIntent(r)
    BY <1>1, WalkMoves DEF Reading, FailedRead, Working
  <2>2. /\ run'[r].pc \in {"fatal", "plan", "commit", "strategy"}
        /\ run'[r].stage = run[r].stage
    BY <2>1, StageMoves, GuardMoves DEF Moves
  <2>3. ~(At(r, "policy", "commit")')
    <3>1. CASE ReadIntent(r) /\ run[r].stage = "policy"
      <4>1. run'[r].pc \in {"fatal", "plan"}
        <5> DEFINE a == [run[r] EXCEPT !.seen = status[Target(r)]]
                   next == IF CanTransition(status[Target(r)], After(run[r].stage)) THEN "plan" ELSE "fatal"
        <5>1. run'[r] = Moved(a, next)
          BY <3>1 DEF ReadIntent, TypeOK, RunsOK
        <5>2. next \in {"fatal", "plan"}
          OBVIOUS
        <5>3. run[r] \in RunType /\ "pc" \in DOMAIN a
          BY DEF TypeOK, RunsOK, RunType
        <5> HIDE DEF next
        <5> QED
          BY <5>1, <5>2, <5>3 DEF Moved, Verdicts, Idle, RunType
      <4> QED
        BY <4>1 DEF At
    <3>2. CASE ReadIntent(r) /\ run[r].stage # "policy"
      BY <2>2, <3>2 DEF At
    <3>3. CASE ExecIntent(r)
      BY <2>2, <3>3 DEF At, ExecIntent
    <3> QED
      BY <2>1, <3>1, <3>2, <3>3
  <2> QED
    BY <1>1, <2>2, <2>3 DEF Arrives, Reporting
<1>2. CASE ~Reading(r) /\ (QuoteCommit(r) \/ RouteCommit(r) \/ PolicyCommit(r) \/ Throw(r)
                           \/ ExecKillSwitch(r) \/ ExecComplete(r) \/ ExecJournal(r))
  <2>1. run'[r].pc \in {"done", "error", "fatal", "intent", "journal"}
    BY <1>2, StageMoves, GuardMoves, LoopMoves DEF Moves
  <2> QED
    BY <2>1 DEF Arrives, Writing, Staging, Executing, Reporting, At
<1>3. CASE ~Reading(r) /\ PolicyPlan(r)
  <2>1. /\ run[r].stage = "policy" /\ run[r].pc = "plan" /\ Moves(r, {"commit"})
    BY <1>3, StageMoves DEF PolicyPlan, At
  <2>2. run'[r].seen = run[r].seen
    BY <1>3, <2>1, SeenKept DEF Moves, Verdicts
  <2> QED
    BY <1>3, <2>1, <2>2 DEF Arrives, StaysWriting, Writing, Staging, Executing, Reporting, Moves
<1>4. CASE ~Reading(r) /\ (ExecStrategy(r) \/ ExecDecision(r) \/ ExecPlan(r) \/ ExecDedup(r)
                           \/ ExecSubmit(r) \/ ExecRecord(r))
  <2>1. Executing(r)
    BY <1>4 DEF ExecStrategy, ExecDecision, ExecPlan, ExecDedup, ExecSubmit, ExecRecord, At, Executing
  <2>2. /\ run'[r].stage = run[r].stage /\ run'[r].intent = run[r].intent
        /\ run'[r].pc \in {"decision", "fatal", "plan", "error", "dedup", "done", "submit", "record", "complete"}
    BY <1>4, GuardMoves, LoopMoves DEF Moves
  <2>3. run'[r].pc \notin Verdicts => run'[r].seen = run[r].seen
    BY <1>4, SeenKept
  <2>4. run'[r].stage = "execute"
    BY <2>1, <2>2 DEF Executing
  <2> QED
    BY <2>1, <2>2, <2>3, <2>4 DEF Arrives, StaysWriting, Writing, Staging, Executing, Reporting, Verdicts, At
<1> QED
  BY <1>1, <1>2, <1>3, <1>4 DEF Walk, Reading

\* No other step makes an activation write or report.
LEMMA StepArrives ==
  ASSUME TypeOK, ~Zombies, [Next]_vars, NEW q \in Runs
  PROVE  Arrives(q)
<1>1. CASE run'[q] = run[q]
  BY <1>1 DEF Arrives, StaysWriting, Writing, Staging, Executing, Reporting, At
<1>2. ASSUME NEW r \in Runs, Walk(r) PROVE Arrives(q)
  <2>1. r # q => run'[q] = run[q]
    BY <1>2, WalkMoves DEF Moves
  <2> QED
    BY <1>1, <1>2, <2>1, WalkArrives
<1>3. ASSUME NEW r \in Runs, NEW i, NEW s,
             Pickup(r, i, s) \/ Ack(r) \/ FailedRejected(r) \/ Crash(r) \/ FailedRead(r) \/ FailedCommit(r)
      PROVE  Arrives(q)
  <2>1. r # q => run'[q] = run[q]
    BY <1>3 DEF Pickup, Ack, FailedRejected, Listening, Crash, FailedRead, FailedCommit, TypeOK, RunsOK
  <2> SUFFICES ASSUME r = q PROVE Arrives(q)
    BY <1>1, <2>1
  <2>2. CASE Pickup(q, i, s)
    <3>1. run'[q].pc \in {"begin", "fatal"}
      BY <2>2 DEF Pickup, TypeOK, RunsOK, Idle
    <3> QED
      BY <3>1 DEF Arrives, Writing, Staging, Executing, Reporting, At
  <2>3. CASE Ack(q)
    <3>1. run'[q].pc \in {"idle", "on_failed"}
      BY <2>3 DEF Ack, TypeOK, RunsOK, RunType, Idle
    <3> QED
      BY <2>3, <3>1 DEF Arrives, Writing, Staging, Executing, At
  <2>4. CASE FailedRejected(q) \/ Crash(q) \/ FailedCommit(q)
    <3>1. run'[q].pc = "idle"
      BY <2>4 DEF FailedRejected, Listening, Crash, FailedCommit, TypeOK, RunsOK, Idle
    <3> QED
      BY <3>1 DEF Arrives, Writing, Staging, Executing, Reporting, At
  <2>5. CASE FailedRead(q)
    <3>1. /\ run[q].pc = "on_failed" /\ run'[q].pc = "fail_commit"
          /\ run'[q].intent = run[q].intent /\ run'[q].stage = run[q].stage
      BY <2>5 DEF FailedRead, TypeOK, RunsOK, RunType
    <3> QED
      BY <2>5, <3>1 DEF Arrives, Reading, Reporting, At
  <2> QED
    BY <1>3, <2>2, <2>3, <2>4, <2>5
<1>4. ASSUME NEW r \in Runs, LoseLock(r) PROVE FALSE
  BY <1>4 DEF LoseLock
<1>5. ASSUME NEW i \in Intents, Api(i) \/ \E s \in Stages : Stalled(i, s) \/ Evict(i, s)
      PROVE  run' = run
  BY <1>5 DEF Api, Enqueue, Approve, HoldRead, HoldCommit, ReleaseRead, ReleasePlan, ReleaseCommit,
         ReleaseEnqueue, RequestRejected, OverrideRoute, Stalled, Evict
<1>6. ASSUME (\E s \in Strategies : SetPaused(s)) \/ SetKillSwitch \/ UNCHANGED vars PROVE run' = run
  BY <1>6 DEF SetPaused, SetKillSwitch, vars
<1> HIDE DEF Arrives
<1> QED
  BY <1>1, <1>2, <1>3, <1>4, <1>5, <1>6 DEF Next, Handler, Walk

----------------------------------------------------------------------------
(* The tables of an intent *)

\* Without holds, the status is written by the handlers only, and an activation
\* that wrote it is through.
Writes(r) ==
  /\ Writing(r)
  /\ run[r].intent \in Intents
  /\ \E to \in Statuses \ {"held"} :
       /\ CanTransition(run[r].seen, to)
       /\ Staging(r) => to = After(run[r].stage) /\ (run[r].stage = "route" => RouteCommit(r))
       /\ status' = [status EXCEPT ![Target(r)] = to]
  /\ ~Writing(r)'
  /\ job' = job /\ request' = request

\* Every change of the status is such a write.
LEMMA StatusWriters ==
  ASSUME Polling, PollInv, [Next]_vars
  PROVE  status' = status \/ \E r \in Runs : Writes(r)
<1> USE DEF PollInv, Inv, intentVars, queueVars
<1>1. ASSUME NEW r \in Runs, Walk(r) PROVE status' = status \/ Writes(r)
  <2>1. CASE QuoteCommit(r) \/ RouteCommit(r) \/ PolicyCommit(r)
    <3>1. Moves(r, {"done"}) /\ run[r].pc = "commit" /\ run[r].stage # "execute"
      BY <2>1, StageMoves DEF QuoteCommit, RouteCommit, PolicyCommit, At
    <3>2. ~Writing(r)' /\ Writing(r)
      BY <3>1 DEF Moves, Writing, Staging, Executing
    <3>3. /\ Transition(Target(r), run[r].seen, After(run[r].stage))
          /\ After(run[r].stage) \in {"quoted", "routed", "policy_checked"}
          /\ run[r].stage = "route" => RouteCommit(r)
      BY <2>1 DEF QuoteCommit, RouteCommit, PolicyCommit, At, After
    <3>4. job' = job /\ request' = request
      BY <2>1 DEF QuoteCommit, RouteCommit, PolicyCommit
    <3> QED
      BY <3>1, <3>2, <3>3, <3>4, RunTarget DEF Writes, Transition, Target, TypeOK, Statuses
  <2>2. CASE ExecRecord(r) /\ run[r].reply = "failed"
    <3>1. Moves(r, {"done"}) /\ run[r].pc = "record" /\ run[r].stage = "execute"
      BY <2>2, LoopMoves DEF ExecRecord, At
    <3>2. ~Writing(r)' /\ Writing(r)
      BY <3>1 DEF Moves, Writing, Staging, Executing
    <3>3. Transition(Target(r), run[r].seen, "failed") /\ job' = job /\ request' = request
      BY <2>2 DEF ExecRecord
    <3> QED
      BY <3>1, <3>2, <3>3, RunTarget DEF Writes, Staging, Transition, Target, TypeOK, Statuses
  <2>3. CASE ExecComplete(r)
    <3>1. Moves(r, {"journal"}) /\ run[r].pc = "complete" /\ run[r].stage = "execute"
      BY <2>3, LoopMoves DEF ExecComplete, At
    <3>2. ~Writing(r)' /\ Writing(r)
      BY <3>1 DEF Moves, Writing, Staging, Executing
    <3>3. Transition(Target(r), run[r].seen, "executed") /\ job' = job /\ request' = request
      BY <2>3 DEF ExecComplete
    <3> QED
      BY <3>1, <3>2, <3>3, RunTarget DEF Writes, Staging, Transition, Target, TypeOK, Statuses
  <2>4. CASE \/ ReadIntent(r) \/ PolicyPlan(r) \/ ExecKillSwitch(r) \/ ExecIntent(r) \/ ExecStrategy(r)
             \/ ExecDecision(r) \/ ExecPlan(r) \/ ExecDedup(r) \/ ExecSubmit(r)
             \/ (ExecRecord(r) /\ run[r].reply # "failed") \/ ExecJournal(r) \/ Throw(r)
    BY <2>4 DEF ReadIntent, PolicyPlan, ExecKillSwitch, ExecIntent, ExecStrategy, ExecDecision, ExecPlan,
           ExecDedup, ExecSubmit, ExecRecord, ExecJournal, Throw
  <2> QED
    BY <1>1, <2>1, <2>2, <2>3, <2>4 DEF Walk
<1>2. ASSUME NEW r \in Runs, FailedCommit(r) PROVE status' = status \/ Writes(r)
  <2>1. run[r].pc = "fail_commit" /\ run'[r].pc = "idle" /\ run[r].intent \in Intents
    BY <1>2, RunTarget DEF FailedCommit, TypeOK, RunsOK, Idle, Target
  <2>2. ~Writing(r)' /\ Writing(r)
    BY <2>1 DEF Writing, Staging, Executing
  <2> QED
    BY <1>2, <2>1, <2>2 DEF FailedCommit, Writes, Staging, MarksFailed, Statuses
<1>3. ASSUME NEW r \in Runs, NEW i \in Intents, NEW s \in Stages, Pickup(r, i, s) PROVE status' = status
  BY <1>3 DEF Pickup
<1>4. ASSUME NEW i \in Intents, Api(i) PROVE status' = status
  <2>1. request[i] \notin {"hold", "routed", "quoted"}
    BY PipelineAssumption DEF SingleWalk
  <2> QED
    BY <1>4, <2>1 DEF Api, Enqueue, Approve, HoldRead, HoldCommit, ReleaseRead, ReleasePlan, ReleaseCommit,
           ReleaseEnqueue, RequestRejected, OverrideRoute
<1>5. ASSUME (\E s \in Strategies : SetPaused(s)) \/ SetKillSwitch \/ UNCHANGED vars PROVE status' = status
  BY <1>5 DEF SetPaused, SetKillSwitch, vars
<1>6. ASSUME NEW i \in Intents, NEW s \in Stages, Stalled(i, s) \/ Evict(i, s)
      PROVE  status' = status
  BY <1>6 DEF Stalled, Evict
<1>7. ASSUME NEW r \in Runs, Handler(r) \/ Throw(r) \/ FailedRejected(r) \/ Crash(r) \/ LoseLock(r)
      PROVE  Walk(r) \/ FailedCommit(r) \/ Ack(r) \/ FailedRejected(r) \/ Crash(r) \/ LoseLock(r) \/ FailedRead(r)
  BY <1>7 DEF Handler, Walk
<1> HIDE DEF PollInv, Inv
<1>8. ASSUME NEW r \in Runs, Handler(r) \/ Throw(r) \/ FailedRejected(r) \/ Crash(r) \/ LoseLock(r)
      PROVE  status' = status \/ Writes(r)
  <2>1. ASSUME Ack(r) \/ FailedRejected(r) \/ Crash(r) \/ LoseLock(r) \/ FailedRead(r) PROVE status' = status
    BY <2>1 DEF Ack, FailedRejected, Listening, Crash, LoseLock, FailedRead
  <2> QED
    BY <1>1, <1>2, <1>7, <1>8, <2>1
<1> QED
  BY <1>3, <1>4, <1>5, <1>6, <1>8 DEF Next

\* What a read finds.
LEMMA ReadFinds ==
  ASSUME TypeOK, NEW r \in Runs, Reading(r), Writing(r)'
  PROVE  /\ run'[r].seen = status[Target(r)] /\ run'[r].intent = run[r].intent
         /\ run'[r].stage = run[r].stage /\ status' = status /\ Target(r) \in Intents
         /\ Staging(r)' => CanTransition(status[Target(r)], After(run[r].stage))
         /\ Executing(r)' => CanTransition(status[Target(r)], "executed")
<1> USE DEF intentVars
<1>1. run[r] \in RunType /\ run \in [Runs -> RunType]
  BY DEF TypeOK, RunsOK
<1>2. run'[r].pc \notin Verdicts
  BY DEF Writing, Staging, Executing, Verdicts
<1>3. Target(r) \in Intents /\ status[Target(r)] \in Statuses
  BY RunTarget DEF Reading, ReadIntent, ExecIntent, FailedRead, At, TypeOK, TablesOK
<1> DEFINE a == [run[r] EXCEPT !.seen = status[Target(r)]]
<1>4. /\ a \in RunType /\ a.seen = status[Target(r)]
      /\ a.intent = run[r].intent /\ a.stage = run[r].stage /\ a.owner = run[r].owner
  BY <1>1, <1>3 DEF RunType
<1>5. CASE ReadIntent(r)
  <2> DEFINE next == IF ~CanTransition(status[Target(r)], After(run[r].stage)) THEN "fatal"
                     ELSE IF run[r].stage = "policy" THEN "plan" ELSE "commit"
  <2>1. run'[r] = Moved(a, next) /\ next \in PCs /\ status' = status /\ run[r].stage # "execute"
    BY <1>1, <1>5 DEF ReadIntent, PCs, Working, Verdicts
  <2>2. next = "fatal" \/ CanTransition(status[Target(r)], After(run[r].stage))
    OBVIOUS
  <2> HIDE DEF a, next
  <2>3. run'[r].pc = next /\ next # "fatal"
    BY <1>2, <1>4, <2>1, MovedFacts DEF Verdicts
  <2> QED
    BY <1>2, <1>3, <1>4, <2>1, <2>2, <2>3, MovedFacts DEF Executing
<1>6. CASE ExecIntent(r)
  <2> DEFINE next == IF Executable(Target(r)) THEN "strategy" ELSE "fatal"
  <2>1. run'[r] = Moved(a, next) /\ next \in PCs /\ status' = status /\ run[r].stage = "execute"
    BY <1>1, <1>6 DEF ExecIntent, At, PCs, Working, Verdicts
  <2>2. next = "fatal" \/ CanTransition(status[Target(r)], "executed")
    BY DEF Executable
  <2> HIDE DEF a, next
  <2>3. run'[r].pc = next /\ next # "fatal"
    BY <1>2, <1>4, <2>1, MovedFacts DEF Verdicts
  <2> QED
    BY <1>2, <1>3, <1>4, <2>1, <2>2, <2>3, MovedFacts DEF Staging
<1>7. CASE FailedRead(r)
  BY <1>1, <1>3, <1>7 DEF FailedRead, RunType, Staging, Executing
<1> QED
  BY <1>5, <1>6, <1>7 DEF Reading

\* Nobody asks for a hold, an execute job appears only behind a policy decision,
\* and a failed one stays.
LEMMA QueuesStep ==
  ASSUME Polling, PollInv, [Next]_vars, NEW i \in Intents
  PROVE  /\ request'[i] = None
         /\ job'[i]["execute"].state # "none" =>
              job[i]["execute"].state # "none" \/ status[i] = "policy_checked"
         /\ job[i]["execute"].state = "failed" => job'[i]["execute"].state = "failed"
<1> DEFINE Kept == /\ request'[i] = None
                   /\ job'[i]["execute"].state # "none" =>
                        job[i]["execute"].state # "none" \/ status[i] = "policy_checked"
                   /\ job[i]["execute"].state = "failed" => job'[i]["execute"].state = "failed"
<1>1. /\ \A k \in Intents : request[k] = None
      /\ request[i] = None /\ "execute" \in Stages
  BY PipelineAssumption DEF PollInv, SingleWalk, Stages
<1>2. job \in [Intents -> [Stages -> JobType]] /\ evictions \in Nat
  BY DEF PollInv, Inv, TypeOK, QueuesOK
<1> USE DEF queueVars
<1>3. ASSUME job' = job, request' = request PROVE Kept
  BY <1>1, <1>3
<1>4. ASSUME NEW r \in Runs, NEW k \in Intents, NEW s \in Stages, Pickup(r, k, s) PROVE Kept
  BY <1>1, <1>2, <1>4 DEF Pickup, JobType
<1>5. ASSUME NEW r \in Runs, Ack(r) PROVE Kept
  <2> DEFINE k == Target(r)
             s == run[r].stage
  <2>1. k \in Intents /\ s \in Stages /\ (run[r].owner => job[k][s].state = "active")
    BY <1>5, RunTarget DEF Ack, Verdicts, PollInv, Inv, OneOwner, TypeOK
  <2>2. \/ job' = job
        \/ run[r].owner /\ \E j : job' = [job EXCEPT ![k][s] = j]
    BY <1>5 DEF Ack
  <2>3. request' = request
    BY <1>5 DEF Ack
  <2> QED
    BY <1>1, <1>2, <2>1, <2>2, <2>3
<1>6. ASSUME NEW k \in Intents, NEW s \in Stages, Stalled(k, s) PROVE Kept
  BY <1>1, <1>2, <1>6 DEF Stalled
<1>7. ASSUME NEW k \in Intents, NEW s \in Stages, Evict(k, s) PROVE FALSE
  BY <1>2, <1>7 DEF Evict, Polling
<1>8. ASSUME NEW k \in Intents, Api(k) PROVE Kept
  <2>1. CASE \E s \in Stages : Enqueue(k, s)
    <3>1. PICK s \in Stages : status[k] = Before(s) /\ job' = Added(job, k, s) /\ request' = request
      BY <2>1 DEF Enqueue, Polling
    <3>2. s = "execute" => status[k] = "policy_checked"
      BY <3>1 DEF Before
    <3> QED
      BY <1>1, <1>2, <3>1, <3>2 DEF Added, FreshJob, JobIn
  <2>2. CASE ~\E s \in Stages : Enqueue(k, s)
    <3>1. job' = job /\ request' = request
      BY <1>1, <1>8, <2>2, PipelineAssumption DEF Api, Approve, HoldRead, HoldCommit, ReleaseRead, ReleasePlan, ReleaseCommit,
             ReleaseEnqueue, RequestRejected, OverrideRoute, Polling
    <3> QED
      BY <1>3, <3>1
  <2> QED
    BY <2>1, <2>2
<1>9. ASSUME NEW r \in Runs, Handler(r) \/ Throw(r) \/ FailedRejected(r) \/ Crash(r) \/ LoseLock(r), ~Ack(r)
      PROVE  job' = job /\ request' = request
  <2>1. CASE Walk(r)
    <3>1. request' = request
      BY <2>1 DEF Walk, ReadIntent, PolicyPlan, QuoteCommit, RouteCommit, PolicyCommit, ExecKillSwitch,
             ExecIntent, ExecStrategy, ExecDecision, ExecPlan, ExecDedup, ExecSubmit, ExecRecord,
             ExecComplete, ExecJournal, Throw
    <3> QED
      BY <2>1, <3>1, WalkMoves DEF PollInv, Inv
  <2>2. CASE FailedRejected(r) \/ Crash(r) \/ LoseLock(r) \/ FailedRead(r) \/ FailedCommit(r)
    BY <2>2 DEF FailedRejected, Listening, Crash, LoseLock, FailedRead, FailedCommit
  <2> QED
    BY <1>9, <2>1, <2>2 DEF Handler, Walk
<1>10. ASSUME (\E s \in Strategies : SetPaused(s)) \/ SetKillSwitch \/ UNCHANGED vars
       PROVE  job' = job /\ request' = request
  BY <1>10 DEF SetPaused, SetKillSwitch, vars
<1> HIDE DEF Kept
<1>11. ASSUME NEW r \in Runs, Handler(r) \/ Throw(r) \/ FailedRejected(r) \/ Crash(r) \/ LoseLock(r) PROVE Kept
  BY <1>3, <1>5, <1>9, <1>11
<1>12. Kept
  BY <1>3, <1>4, <1>6, <1>7, <1>8, <1>10, <1>11 DEF Next
<1> QED
  BY <1>12 DEF Kept

\* Every step leaves what the activations read standing,
LEMMA ReadsStep ==
  ASSUME Polling, PollInv, [Next]_vars, NEW q \in Runs
  PROVE  ReadStands(q)'
<1> USE DEF PollInv
<1>1. Arrives(q) /\ TypeOK /\ ReadStands(q)
  BY StepArrives DEF Inv, Polling
<1>2. ASSUME StaysWriting(q), Writing(q)' PROVE run'[q].seen = status'[run'[q].intent]
  <2>1. CASE status' = status
    BY <1>1, <1>2, <2>1 DEF StaysWriting, ReadStands, Target
  <2>2. ASSUME NEW r \in Runs, Writes(r) PROVE status'[run[q].intent] = status[run[q].intent]
    <3>1. CASE r = q
      BY <1>1, <1>2, <2>2, <3>1 DEF Writes, StaysWriting
    <3>2. CASE Target(r) # Target(q)
      BY <2>2, <3>2 DEF Writes, Target, Inv, TypeOK, TablesOK
    <3> QED
      BY <1>2, <2>2, <3>1, <3>2, OneWriter DEF Writes, StaysWriting
  <2> QED
    BY <1>1, <1>2, <2>1, <2>2, StatusWriters DEF StaysWriting, ReadStands, Target
<1>3. ASSUME Writing(q)'
      PROVE  /\ run'[q].seen = status'[run'[q].intent]
             /\ Staging(q)' => CanTransition(run'[q].seen, After(run'[q].stage))
             /\ Executing(q)' => run'[q].seen = "policy_checked"
  <2>1. CASE StaysWriting(q) /\ ~Reading(q)
    BY <1>1, <1>2, <1>3, <2>1 DEF StaysWriting, ReadStands
  <2>2. CASE Reading(q)
    <3>1. status[Target(q)] \in Statuses \ {"held"}
      BY <1>1, <1>3, <2>2, ReadFinds DEF SingleWalk, TypeOK, TablesOK
    <3> QED
      BY <1>1, <1>3, <2>2, <3>1, ReadFinds, Backwards DEF Target
  <2> QED
    BY <1>1, <1>3, <2>1, <2>2 DEF Arrives
<1>4. ASSUME At(q, "policy", "commit")' PROVE run'[q].plan = 1
  <2>1. CASE run'[q] = run[q]
    BY <1>1, <1>4, <2>1 DEF ReadStands, At
  <2>2. CASE PolicyPlan(q)
    <3>1. Staging(q) /\ run[q].stage = "policy" /\ ~Reading(q)
      BY <2>2 DEF PolicyPlan, At, Staging, Reading, ReadIntent, ExecIntent, FailedRead
    <3>2. Target(q) \in Intents /\ status[Target(q)] = "routed"
      BY <3>1, StagingSeen DEF Before
    <3>3. Len(plans[Target(q)]) = 1 /\ override[Target(q)] \in Nat /\ override[Target(q)] <= 1
      BY <1>1, <3>2 DEF SingleWalk, Inv, TablesInv, TypeOK, TablesOK
    <3>4. ChosenPlan(Target(q)) = 1
      BY <3>3 DEF ChosenPlan
    <3>5. run'[q].pc = "commit"
      BY <2>2, <1>4 DEF At
    <3> QED
      BY <1>1, <2>2, <3>1, <3>4, <3>5, SeenKept DEF Walk, Verdicts
  <2> QED
    BY <1>1, <1>4, <2>1, <2>2 DEF Arrives
<1>5. ASSUME Reporting(q)'
      PROVE  run'[q].stage = "execute" /\ job'[run'[q].intent]["execute"].state = "failed"
  <2>1. CASE Reporting(q) /\ run'[q].intent = run[q].intent /\ run'[q].stage = run[q].stage
    <3>1. Target(q) \in Intents
      BY <1>1, <2>1, RunTarget DEF Reporting, TypeOK
    <3> QED
      BY <1>1, <2>1, <3>1, QueuesStep DEF ReadStands, Target
  <2>2. CASE Ack(q)
    <3>1. /\ run[q].pc \in Verdicts /\ run[q] \in RunType /\ run \in [Runs -> RunType]
          /\ Target(q) \in Intents /\ run[q].stage \in Stages
      BY <1>1, <2>2, RunTarget DEF Ack, TypeOK, RunsOK, Verdicts
    <3>2. run'[q].pc \in {"on_failed", "fail_commit"}
      BY <1>5 DEF Reporting
    <3>3. /\ run[q].owner /\ run[q].stage = "execute" /\ ~Retried(q) /\ run[q].pc # "done"
          /\ run'[q].intent = run[q].intent /\ run'[q].stage = run[q].stage
      BY <2>2, <3>1, <3>2 DEF Ack, Idle, RunType
    <3>4. job' = [job EXCEPT ![Target(q)]["execute"] = JobIn("failed")]
      BY <2>2, <3>3 DEF Ack
    <3> QED
      BY <1>1, <3>1, <3>3, <3>4 DEF JobIn, Target, TypeOK, QueuesOK
  <2> QED
    BY <1>1, <1>5, <2>1, <2>2 DEF Arrives
<1>6. (Writing(q) => run[q].seen = status[Target(q)])'
  BY <1>3 DEF Target
<1>7. (Staging(q) => CanTransition(run[q].seen, After(run[q].stage)))'
  <2>1. Staging(q)' => Writing(q)'
    BY DEF Writing
  <2> QED
    BY <1>3, <2>1 DEF CanTransition, After
<1>8. (Executing(q) => run[q].seen = "policy_checked")'
  <2>1. Executing(q)' => Writing(q)'
    BY DEF Writing
  <2> QED
    BY <1>3, <2>1
<1>9. (Reporting(q) => run[q].stage = "execute" /\ job[Target(q)]["execute"].state = "failed")'
  BY <1>5 DEF Target
<1>10. (At(q, "policy", "commit") => run[q].plan = 1)'
  BY <1>4
<1> QED
  BY <1>6, <1>7, <1>8, <1>9, <1>10 DEF ReadStands

\* and one listener at most for each failed job.
LEMMA ReportersStep ==
  ASSUME Polling, PollInv, [Next]_vars
  PROVE  OneReporter'
<1> USE DEF PollInv
<1>1. TypeOK /\ OneOwner /\ \A r \in Runs : Arrives(r)
  BY StepArrives DEF Inv, Polling
<1>2. ASSUME NEW r \in Runs, Ack(r), Reporting(r)'
      PROVE  /\ \A p \in Runs \ {r} : run'[p] = run[p]
             /\ run'[r].intent = run[r].intent
             /\ job[Target(r)]["execute"].state = "active"
  <2>1. run'[r].pc = "on_failed"
    BY <1>1, <1>2 DEF Ack, Idle, Reporting, TypeOK, RunsOK, RunType
  <2>2. run[r].owner /\ run[r].stage = "execute" /\ run'[r].intent = run[r].intent
    BY <1>1, <1>2, <2>1 DEF Ack, Idle, TypeOK, RunsOK, RunType
  <2> QED
    BY <1>1, <1>2, <2>2 DEF Ack, OneOwner, TypeOK, RunsOK
<1>3. ASSUME NEW p \in Runs, NEW r \in Runs, Reporting(p)', Reporting(r)',
             run'[p].intent = run'[r].intent, Ack(r), p # r
      PROVE  FALSE
  <2>1. Reporting(p) /\ Target(p) = Target(r)
    BY <1>2, <1>3 DEF Reporting, Target
  <2> QED
    BY <1>2, <1>3, <2>1 DEF ReadStands
<1> SUFFICES ASSUME NEW p \in Runs, NEW r \in Runs, Reporting(p)', Reporting(r)',
                    run'[p].intent = run'[r].intent, p # r
             PROVE  FALSE
  BY DEF OneReporter, Target
<1>4. ~Ack(p) /\ ~Ack(r)
  BY <1>3
<1> QED
  BY <1>1, <1>4 DEF Arrives, OneReporter, Target

\* Every step leaves the tables of an intent those of one walk.
LEMMA WalksStep ==
  ASSUME Polling, PollInv, [Next]_vars, NEW i \in Intents
  PROVE  SingleWalk(i)'
<1>1. /\ TypeOK /\ TypeOK' /\ Grows /\ SingleWalk(i)
      /\ \A r \in Runs : RunInv(r) /\ ReadStands(r)
  BY TypeStep, Growing DEF PollInv, Inv
<1>2. status[i] \in Statuses \ {"held"} /\ plans[i] \in Seq(Steps)
  BY <1>1 DEF SingleWalk, TypeOK, TablesOK
<1>3. \/ status' = status
      \/ \E r \in Runs : Writes(r)
  BY StatusWriters
<1>4. \/ status'[i] = status[i]
      \/ \E r \in Runs : Writes(r) /\ Target(r) = i /\ run[r].seen = status[i]
  BY <1>1, <1>3 DEF Writes, Target, ReadStands, TypeOK, TablesOK
<1>5. ASSUME NEW r \in Runs, Writes(r), Target(r) = i, run[r].seen = status[i]
      PROVE  /\ status'[i] # "held" /\ CanTransition(status[i], status'[i])
             /\ Staging(r) => /\ status[i] = Before(run[r].stage) /\ status'[i] = After(run[r].stage)
                              /\ run[r].stage \in Stages \ {"execute"}
                              /\ run[r].stage = "route" => RouteCommit(r)
             /\ ~Staging(r) => status[i] \in {"policy_checked", "executed", "failed"}
             /\ job' = job
  <2>1. PICK to \in Statuses \ {"held"} :
          /\ CanTransition(status[i], to)
          /\ Staging(r) => to = After(run[r].stage) /\ (run[r].stage = "route" => RouteCommit(r))
          /\ status' = [status EXCEPT ![i] = to]
    BY <1>5 DEF Writes
  <2>2. status'[i] = to
    BY <1>1, <2>1 DEF TypeOK, TablesOK
  <2>3. Executing(r) => status[i] = "policy_checked"
    BY <1>1, <1>5 DEF ReadStands
  <2>4. run[r].pc = "fail_commit" => status[i] \in {"policy_checked", "executed", "failed"}
    BY <1>1, <1>5 DEF ReadStands, Reporting, SingleWalk
  <2> QED
    BY <1>5, <2>1, <2>2, <2>3, <2>4, StagingSeen DEF Writes, Writing
<1>6. status'[i] # "held" /\ request'[i] = None
  BY <1>2, <1>4, <1>5, QueuesStep
<1> DEFINE Late == {"policy_checked", "executed", "failed"}
<1>7. ASSUME status[i] \in Late PROVE status'[i] \in Late
  <2>1. \A to \in Statuses : CanTransition(status[i], to) => to \in Late \cup {"held"}
    BY <1>7 DEF CanTransition, AllowedNext, Statuses
  <2>2. status'[i] \in Statuses
    BY <1>1 DEF TypeOK, TablesOK
  <2> QED
    BY <1>4, <1>5, <1>7, <2>1, <2>2
<1>8. job'[i]["execute"].state # "none" => status'[i] \in Late
  BY <1>1, <1>7, QueuesStep DEF SingleWalk
<1>9. Len(plans'[i]) = IF status'[i] \in {"created", "quoted"} THEN 0 ELSE 1
  <2>1. ASSUME NEW r \in Runs, RouteCommit(r)
        PROVE  Target(r) = i => Len(plans'[i]) = 1 /\ status'[i] = "routed"
    <3>1. Staging(r) /\ run[r].stage = "route"
      BY <2>1 DEF RouteCommit, At, Staging
    <3>2. Target(r) \in Intents /\ status[Target(r)] = "quoted"
      BY <3>1, StagingSeen DEF Before
    <3>3. PICK hops \in 1..MaxHops : plans' = [plans EXCEPT ![Target(r)] = Append(@, hops)]
      BY <2>1 DEF RouteCommit
    <3>4. status' = [status EXCEPT ![Target(r)] = "routed"]
      BY <2>1 DEF RouteCommit, Transition
    <3>5. Target(r) = i => Len(plans[i]) = 0
      BY <1>1, <3>2 DEF SingleWalk
    <3>6. hops \in Steps
      BY DEF Steps
    <3> QED
      BY <1>1, <1>2, <3>2, <3>3, <3>4, <3>5, <3>6 DEF TypeOK, TablesOK
  <2>2. ASSUME NEW r \in Runs, RouteCommit(r), Target(r) # i PROVE plans'[i] = plans[i]
    BY <1>1, <2>2 DEF RouteCommit, TypeOK, TablesOK
  <2>3. \/ plans'[i] = plans[i]
        \/ \E r \in Runs : RouteCommit(r) /\ Target(r) = i
    <3>1. plans' = plans \/ \E r \in Runs : RouteCommit(r)
      BY Growers DEF grown, PolicyCommit, ExecSubmit, ExecRecord, Approve, planVars
    <3> QED
      BY <2>2, <3>1
  <2>4. CASE \E r \in Runs : RouteCommit(r) /\ Target(r) = i
    BY <2>1, <2>4
  <2>5. CASE ~\E r \in Runs : RouteCommit(r) /\ Target(r) = i
    <3>1. status'[i] \in {"created", "quoted"} <=> status[i] \in {"created", "quoted"}
      <4>1. ASSUME NEW r \in Runs, Writes(r), Target(r) = i, run[r].seen = status[i], Staging(r)
            PROVE  status'[i] \in {"created", "quoted"} <=> status[i] \in {"created", "quoted"}
        BY <1>5, <2>5, <4>1 DEF Before, After, Stages
      <4>2. status[i] \in Late => status[i] \notin {"created", "quoted"} /\ status'[i] \notin {"created", "quoted"}
        BY <1>7
      <4> QED
        BY <1>4, <1>5, <4>1, <4>2
    <3> QED
      BY <1>1, <2>3, <2>5, <3>1 DEF SingleWalk
  <2> QED
    BY <2>4, <2>5
<1>10. \A d \in decisions'[i] : d.plan = 1
  <2>1. ASSUME NEW r \in Runs, PolicyCommit(r) PROVE \A d \in decisions'[i] : d.plan = 1
    <3>1. run[r].plan = 1
      BY <1>1, <2>1 DEF PolicyCommit, ReadStands
    <3>2. PICK allowed \in BOOLEAN :
            decisions' = [decisions EXCEPT ![Target(r)] = @ \cup {[plan |-> 1, allowed |-> allowed]}]
      BY <2>1, <3>1 DEF PolicyCommit
    <3> QED
      BY <1>1, <3>2 DEF SingleWalk, TypeOK, TablesOK
  <2>2. decisions' = decisions \/ \E r \in Runs : PolicyCommit(r)
    BY Growers DEF grown, RouteCommit, ExecSubmit, ExecRecord, Approve, planVars
  <2> QED
    BY <1>1, <2>1, <2>2 DEF SingleWalk
<1>11. /\ \A e \in rows'[i] : e.plan = 1
       /\ rows'[i] # {} => \E d \in decisions'[i] : d.allowed
  <2>1. decisions[i] \subseteq decisions'[i]
    BY <1>1 DEF Grows
  <2>2. CASE rows'[i] = rows[i]
    BY <1>1, <2>1, <2>2 DEF SingleWalk
  <2>3. ASSUME NEW r \in Runs, ExecRecord(r), Target(r) = i
        PROVE  /\ \A e \in rows'[i] : e.plan = 1
               /\ rows'[i] # {} => \E d \in decisions'[i] : d.allowed
    <3>1. run[r].pc = "record"
      BY <2>3 DEF ExecRecord, At
    <3>2. run[r].plan \in 1..Len(plans[i]) /\ \E d \in decisions[i] : d.allowed
      BY <1>1, <2>3, <3>1 DEF RunInv, OnPlan, GuardsPassed, InFlight
    <3>3. run[r].plan = 1
      BY <1>1, <3>2 DEF SingleWalk
    <3>4. PICK k, o : rows' = [rows EXCEPT ![i] = @ \cup {[plan |-> 1, step |-> k, outcome |-> o]}]
      BY <2>3, <3>3 DEF ExecRecord
    <3> QED
      BY <1>1, <2>1, <3>2, <3>4 DEF SingleWalk, TypeOK, TablesOK
  <2>4. ASSUME NEW r \in Runs, ExecRecord(r), Target(r) # i PROVE rows'[i] = rows[i]
    BY <1>1, <2>4 DEF ExecRecord, TypeOK, TablesOK
  <2>5. rows' = rows \/ \E r \in Runs : ExecRecord(r)
    BY OnlyWriters DEF Writers
  <2> QED
    BY <2>2, <2>3, <2>4, <2>5
<1> QED
  BY <1>6, <1>8, <1>9, <1>10, <1>11 DEF SingleWalk

----------------------------------------------------------------------------

\* The invariant holds initially,
LEMMA PollInit == Init => PollInv
<1> SUFFICES ASSUME Init PROVE PollInv
  OBVIOUS
<1>1. \A r \in Runs : run[r] = Idle
  BY DEF Init
<1>2. OneReporter /\ \A r \in Runs : ReadStands(r)
  BY <1>1 DEF OneReporter, ReadStands, Writing, Staging, Executing, Reporting, At, Idle
<1>3. \A i \in Intents : SingleWalk(i)
  BY DEF Init, SingleWalk, Stages, NoJob, JobIn
<1> QED
  BY <1>2, <1>3, InvInit DEF PollInv

\* and every step keeps it.
LEMMA PollStep ==
  ASSUME Polling
  PROVE  PollInv /\ [Next]_vars => PollInv'
<1> SUFFICES ASSUME PollInv, [Next]_vars PROVE PollInv'
  OBVIOUS
<1>1. Inv'
  BY InvStep DEF PollInv
<1>2. OneReporter' /\ (\A r \in Runs : ReadStands(r)') /\ (\A i \in Intents : SingleWalk(i)')
  BY ReportersStep, ReadsStep, WalksStep
<1> QED
  BY <1>1, <1>2 DEF PollInv

\* Behind clients who poll, every intent has one writer and is walked through
\* the pipeline once.
THEOREM PollingInvariance ==
  ASSUME Polling
  PROVE  Spec => []PollInv
<1> QED
  BY PollInit, PollStep, PTL DEF Spec

\* Behind clients who poll, whatever throws, crashes and is retried, a plan
\* whose steps reach a venue is one a policy decision allowed.
THEOREM ExecutedPlanAllowed ==
  ASSUME Polling
  PROVE  Spec => []ExecutedPlanWasAllowed
<1>1. PollInv => ExecutedPlanWasAllowed
  BY DEF PollInv, SingleWalk, ExecutedPlanWasAllowed
<1> QED
  BY <1>1, PollingInvariance, PTL

\* Behind clients who poll, the status only makes transitions of the lifecycle
\* table, although every handler checks them against what it read and updates
\* the row unconditionally.
THEOREM LifecycleFollowed ==
  ASSUME Polling
  PROVE  Spec => StatusFollowsLifecycle
<1> DEFINE Legal == \A i \in Intents : status'[i] # status[i] => CanTransition(status[i], status'[i])
<1>1. PollInv /\ [Next]_vars => [Legal]_status
  <2> SUFFICES ASSUME PollInv, [Next]_vars, NEW i \in Intents, status'[i] # status[i]
               PROVE  CanTransition(status[i], status'[i])
    OBVIOUS
  <2>1. status \in [Intents -> Statuses]
    BY DEF PollInv, Inv, TypeOK, TablesOK
  <2>2. PICK r \in Runs : Writes(r)
    BY StatusWriters
  <2> QED
    BY <2>1, <2>2 DEF Writes, Target, PollInv, ReadStands
<1>2. Spec => [][Legal]_status
  BY <1>1, PollingInvariance, PTL DEF Spec
<1> QED
  BY <1>2 DEF StatusFollowsLifecycle
=============================================================================
