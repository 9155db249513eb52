--------------------------- MODULE SimulationRuns ---------------------------
(***************************************************************************)
(* Simulation jobs: the run row, the simulated outcome drawn from the      *)
(* scenario's seed, the status update and the result row, each a statement *)
(* of its own, and the catch that fails the run.                           *)
(***************************************************************************)
EXTENDS Integers, Sequences, FiniteSets

CONSTANTS
  Jobs,         \* simulation jobs, each of a POST /simulations/run
  Seeds,        \* what rng folds the scenario's seed into: an int32
  Chances,      \* failureProbability, in units of 1 / RngModulus
  MaxAttempts,  \* attempts of a job
  MaxFaults,    \* bound: statements outside the try that fail
  MaxCrashes    \* bound: worker processes that die

\* What the generator of the simulated outcomes is reduced by.
RngModulus == 233280

SimulationAssumption ==
  /\ Seeds \subseteq Int
  /\ Chances \subseteq 0..RngModulus
  /\ MaxAttempts \in Nat \ {0}
  /\ {MaxFaults, MaxCrashes} \subseteq Nat

VARIABLES
  scenario,  \* the seed and the failure probability of each job
  job,       \* BullMQ's state of a job and the handler's place in it
  runs,      \* simulation_runs with their simulation_results
  events,    \* simulation.failed events written for a job
  faults,    \* statements outside the try that failed so far
  lost       \* workers that died so far

vars == <<scenario, job, runs, events, faults, lost>>

\* (s * 9301 + 49297) % 233280 in JavaScript, whose remainder takes the sign of the
\* dividend; the product is taken in two steps to stay below 2^31.
Rand(s) ==
  LET q == s % RngModulus
      r == (((q * 93) % RngModulus) * 100 + q + 49297) % RngModulus
  IN IF s >= -5 \/ r = 0 THEN r ELSE r - RngModulus

\* The first number drawn is the latency's, the second decides.
FailRoll(seed) == Rand(Rand(seed))
\* Mutant of Succeeds: <= for <.
SucceedsAbove(sc) == ~(FailRoll(sc.seed) <= sc.chance)

Succeeds(sc) == ~(FailRoll(sc.seed) < sc.chance)

Fresh == [state |-> "waiting", pc |-> "none", attempts |-> 0, run |-> 0, ok |-> FALSE]

Init ==
  /\ scenario \in [Jobs -> [seed : Seeds, chance : Chances]]
  /\ job = [j \in Jobs |-> Fresh]
  /\ runs = <<>>
  /\ events = [j \in Jobs |-> 0]
  /\ faults = 0 /\ lost = 0

Running(j, where) == job[j].state = "active" /\ job[j].pc = where
Goto(j, where) == job' = [job EXCEPT ![j].pc = where]

Pickup(j) ==
  /\ job[j].state = "waiting"
  /\ job' = [job EXCEPT ![j].state = "active", ![j].pc = "insert",
                        ![j].attempts = @ + 1, ![j].run = 0]
  /\ UNCHANGED <<scenario, runs, events, lost, faults>>

\* A rejected await outside the try, the catch included: BullMQ retries the job or
\* ends it.
Throws(j) ==
  /\ job[j].state = "active" /\ job[j].pc \in {"insert", "catch", "audit"}
  /\ faults < MaxFaults
  /\ faults' = faults + 1
  /\ job' = [job EXCEPT ![j].state = IF job[j].attempts < MaxAttempts THEN "waiting"
                                     ELSE "failed",
                        ![j].pc = "none"]
  /\ UNCHANGED <<scenario, runs, events, lost>>

InsertRun(j) ==
  /\ Running(j, "insert")
  /\ runs' = Append(runs, [job |-> j, status |-> "running", result |-> "none"])
  /\ job' = [job EXCEPT ![j].run = Len(runs) + 1, ![j].pc = "simulate"]
  /\ UNCHANGED <<scenario, events, lost, faults>>

Simulate(j) ==
  /\ Running(j, "simulate")
  /\ job' = [job EXCEPT ![j].ok = Succeeds(scenario[j]), ![j].pc = "complete"]
  /\ UNCHANGED <<scenario, runs, events, lost, faults>>

MarkCompleted(j) ==
  /\ Running(j, "complete")
  /\ runs' = [runs EXCEPT ![job[j].run].status = "completed"]
  /\ Goto(j, "result")
  /\ UNCHANGED <<scenario, events, lost, faults>>

InsertResult(j) ==
  /\ Running(j, "result")
  /\ runs' = [runs EXCEPT ![job[j].run].result = IF job[j].ok THEN "success" ELSE "failure"]
  /\ Goto(j, "end")
  /\ UNCHANGED <<scenario, events, lost, faults>>

\* Mutant of Caught: the try reaches past the result.
CaughtLate(j) ==
  /\ job[j].state = "active" /\ job[j].pc \in {"simulate", "complete", "result", "end"}
  /\ Goto(j, "catch")
  /\ UNCHANGED <<scenario, runs, events, lost, faults>>

\* Any statement of the try may throw into the catch.
Caught(j) ==
  /\ job[j].state = "active" /\ job[j].pc \in {"simulate", "complete", "result"}
  /\ Goto(j, "catch")
  /\ UNCHANGED <<scenario, runs, events, lost, faults>>

\* Mutant of MarkFailed: the catch writes the event only.
MarkNothing(j) ==
  /\ Running(j, "catch")
  /\ Goto(j, "audit")
  /\ UNCHANGED <<scenario, runs, events, lost, faults>>

MarkFailed(j) ==
  /\ Running(j, "catch")
  /\ runs' = [runs EXCEPT ![job[j].run].status = "failed"]
  /\ Goto(j, "audit")
  /\ UNCHANGED <<scenario, events, lost, faults>>

AuditFailure(j) ==
  /\ Running(j, "audit")
  /\ events' = [events EXCEPT ![j] = @ + 1]
  /\ Goto(j, "end")
  /\ UNCHANGED <<scenario, runs, lost, faults>>

Ends(j) ==
  /\ Running(j, "end")
  /\ job' = [job EXCEPT ![j].state = "done", ![j].pc = "none"]
  /\ UNCHANGED <<scenario, runs, events, lost, faults>>

\* The process dies; the stalled check gives the job to another worker.
Crash(j) ==
  /\ job[j].state = "active" /\ lost < MaxCrashes
  /\ lost' = lost + 1
  /\ job' = [job EXCEPT ![j].state = "waiting", ![j].pc = "none", ![j].attempts = @ - 1]
  /\ UNCHANGED <<scenario, runs, events, faults>>

Handler(j) ==
  \/ Pickup(j) \/ InsertRun(j) \/ Simulate(j) \/ MarkCompleted(j) \/ InsertResult(j)
  \/ Caught(j) \/ MarkFailed(j) \/ AuditFailure(j) \/ Throws(j) \/ Ends(j)

Next == \E j \in Jobs : Handler(j) \/ Crash(j)

Spec == Init /\ [][Next]_vars

----------------------------------------------------------------------------
(* Properties *)

RunRows == [job : Jobs, status : {"running", "completed", "failed"},
            result : {"none", "success", "failure"}]

\* Type invariant.
TypeOK ==
  /\ scenario \in [Jobs -> [seed : Seeds, chance : Chances]]
  /\ job \in [Jobs -> [state : {"waiting", "active", "done", "failed"},
                       pc : {"none", "insert", "simulate", "complete", "result", "catch",
                             "audit", "end"},
                       attempts : 0..MaxAttempts, run : Nat, ok : BOOLEAN]]
  /\ \A j \in Jobs : job[j].run \in 0..Len(runs)
  /\ runs \in Seq(RunRows)
  /\ events \in [Jobs -> Nat]
  /\ faults \in 0..MaxFaults /\ lost \in 0..MaxCrashes

\* Rows no handler is working on that a reader cannot tell from one in progress, or
\* that claim to be completed and have no result.
Worked == {job[j].run : j \in {i \in Jobs : job[i].state = "active"}}
Orphans == {n \in DOMAIN runs \ Worked :
              runs[n].status = "running" \/ (runs[n].status = "completed" /\ runs[n].result = "none")}

\* Only a dead worker, or a statement of the catch that fails, leaves a run in
\* `running`, or in `completed` without its result.
OrphansAreExplained == Cardinality(Orphans) <= lost + faults

\* A result belongs to a run that stays completed, and a run gets one result.
ResultStays == \A n \in DOMAIN runs : runs[n].result # "none" => runs'[n] = runs[n]
ResultIsFinal == [][ResultStays]_vars

\* A scenario that cannot fail succeeds and one that must fail fails, as long as the
\* seed folds to a number that is not negative.
ChancesAreHonoured ==
  \A n \in DOMAIN runs :
    LET sc == scenario[runs[n].job] IN
    /\ (sc.chance = 0 /\ sc.seed >= 0) => runs[n].result # "failure"
    /\ sc.chance = RngModulus => runs[n].result # "success"
=============================================================================
