------------------------ MODULE SimulationRunsProofs ------------------------
(***************************************************************************)
(* The rows a simulation leaves behind, for any number of jobs, attempts,  *)
(* failing statements and dead workers.                                    *)
(***************************************************************************)
EXTENDS SimulationRuns, FiniteSetTheorems, TLAPS

\* Where a job has a run row of its own,
Holding == {"simulate", "complete", "result", "catch", "audit", "end"}

\* and what that row looks like there.
RowOK(j) ==
  LET row == runs[job[j].run] IN
  /\ job[j].run \in 1..Len(runs) /\ row.job = j
  /\ job[j].pc # "end" => row.result = "none"
  /\ job[j].pc = "result" => row.status = "completed"
  /\ job[j].pc = "audit" => row.status = "failed"
  /\ job[j].pc = "end" => row.status = "failed" \/ (row.status = "completed" /\ row.result # "none")
  /\ job[j].pc \in {"complete", "result"} => job[j].ok = Succeeds(scenario[j])

JobOK(j) ==
  /\ job[j].state = "waiting" => job[j].attempts < MaxAttempts
  /\ job[j].state = "active" => job[j].attempts >= 1 /\ job[j].pc # "none"
  /\ job[j].state = "active" /\ job[j].pc = "insert" => job[j].run = 0
  /\ job[j].state = "active" /\ job[j].pc \in Holding => RowOK(j)

\* A result is the outcome the scenario draws.
Drawn(n) ==
  /\ runs[n].result = "success" => Succeeds(scenario[runs[n].job])
  /\ runs[n].result = "failure" => ~Succeeds(scenario[runs[n].job])

Inv ==
  /\ TypeOK
  /\ \A j \in Jobs : JobOK(j)
  /\ \A n \in 1..Len(runs) : Drawn(n)
  /\ IsFiniteSet(Orphans) /\ Cardinality(Orphans) <= lost + faults

JobType == [state : {"waiting", "active", "done", "failed"},
            pc : {"none", "insert", "simulate", "complete", "result", "catch", "audit", "end"},
            attempts : 0..MaxAttempts, run : Nat, ok : BOOLEAN]

\* What a step of job j does to the tables: nothing, add a row, or rewrite its own.
Touches(j) ==
  /\ scenario' = scenario
  /\ job' \in [Jobs -> JobType]
  /\ \A i \in Jobs \ {j} : job'[i] = job[i]
  /\ \/ runs' = runs
     \/ runs' = Append(runs, [job |-> j, status |-> "running", result |-> "none"])
     \/ /\ job[j].state = "active" /\ job[j].pc \in {"complete", "result", "catch"}
        /\ \E row \in RunRows : row.job = j /\ runs' = [runs EXCEPT ![job[j].run] = row]

\* Such a step leaves the other jobs what they had, and every row its job.
LEMMA OthersStay ==
  ASSUME TypeOK, \A i \in Jobs : JobOK(i), NEW j \in Jobs, Touches(j)
  PROVE  /\ \A i \in Jobs \ {j} : JobOK(i)'
         /\ runs' \in Seq(RunRows) /\ Len(runs) <= Len(runs')
         /\ \A i \in Jobs \ {j} : job[i].run \in 0..Len(runs')
         /\ \A n \in 1..Len(runs) : runs'[n].job = runs[n].job
  <1>1. runs \in Seq(RunRows)
    BY DEF TypeOK
  <1>2. job[j].state = "active" /\ job[j].pc \in Holding => job[j].run \in 1..Len(runs) /\ runs[job[j].run].job = j
    BY DEF JobOK, RowOK
  <1>3. /\ runs' \in Seq(RunRows) /\ Len(runs) <= Len(runs')
        /\ \A n \in 1..Len(runs) : runs'[n].job = runs[n].job
        /\ \A n \in 1..Len(runs) : runs[n].job # j => runs'[n] = runs[n]
    <2>1. CASE runs' = runs
      BY <1>1, <2>1
    <2>2. CASE runs' = Append(runs, [job |-> j, status |-> "running", result |-> "none"])
      BY <1>1, <2>2 DEF RunRows
    <2>3. ASSUME job[j].state = "active", job[j].pc \in {"complete", "result", "catch"},
                 NEW row \in RunRows, row.job = j, runs' = [runs EXCEPT ![job[j].run] = row]
          PROVE  /\ runs' \in Seq(RunRows) /\ Len(runs) <= Len(runs')
                 /\ \A n \in 1..Len(runs) : runs'[n].job = runs[n].job
                 /\ \A n \in 1..Len(runs) : runs[n].job # j => runs'[n] = runs[n]
      BY <1>1, <1>2, <2>3 DEF Holding
    <2> QED
      BY <2>1, <2>2, <2>3 DEF Touches
  <1>4. ASSUME NEW i \in Jobs \ {j} PROVE JobOK(i)'
    <2>1. job'[i] = job[i] /\ JobOK(i)
      BY DEF Touches
    <2>2. CASE job[i].state = "active" /\ job[i].pc \in Holding
      <3>1. RowOK(i)
        BY <2>1, <2>2 DEF JobOK
      <3>2. job[i].run \in 1..Len(runs') /\ runs'[job[i].run] = runs[job[i].run]
        BY <1>1, <1>3, <3>1 DEF RowOK
      <3>3. RowOK(i)'
        BY <2>1, <3>1, <3>2 DEF RowOK, Touches
      <3> QED
        BY <2>1, <3>3 DEF JobOK
    <2>3. CASE ~(job[i].state = "active" /\ job[i].pc \in Holding)
      BY <2>1, <2>3 DEF JobOK
    <2> QED
      BY <2>2, <2>3
  <1>5. \A i \in Jobs \ {j} : job[i].run \in 0..Len(runs')
    BY <1>1, <1>3 DEF TypeOK
  <1> QED
    BY <1>3, <1>4, <1>5

\* What a step establishes for its own job.
Establishes(j) == Touches(j) /\ JobOK(j)' /\ job'[j].run \in 0..Len(runs')

\* The steps that write no row.
LEMMA PlainStep ==
  ASSUME MaxAttempts \in Nat \ {0}, TypeOK, NEW j \in Jobs, JobOK(j),
         Pickup(j) \/ Throws(j) \/ Simulate(j) \/ Caught(j) \/ AuditFailure(j) \/ Ends(j) \/ Crash(j)
  PROVE  Establishes(j)
  <1>1. job \in [Jobs -> JobType] /\ runs \in Seq(RunRows) /\ job[j].run \in 0..Len(runs)
    BY DEF TypeOK, JobType
  <1>2. runs' = runs /\ scenario' = scenario
    BY DEF Pickup, Throws, Simulate, Caught, AuditFailure, Ends, Crash
  <1>3. ASSUME NEW a \in JobType, job' = [job EXCEPT ![j] = a]
        PROVE  Touches(j) /\ job'[j] = a
    BY <1>1, <1>2, <1>3 DEF Touches
  <1>4. CASE Pickup(j)
    <2> DEFINE a == [job[j] EXCEPT !.state = "active", !.pc = "insert", !.attempts = @ + 1, !.run = 0]
    <2>0. job[j] \in JobType /\ job[j].attempts < MaxAttempts
      BY <1>1, <1>4 DEF Pickup, JobOK
    <2>1. a \in JobType /\ job' = [job EXCEPT ![j] = a]
      <3>1. job[j].attempts + 1 \in 0..MaxAttempts
        BY <2>0 DEF JobType
      <3> QED
        BY <1>4, <2>0, <3>1 DEF Pickup, JobType
    <2>2. a.state = "active" /\ a.pc = "insert" /\ a.attempts >= 1 /\ a.run = 0
      BY <2>0 DEF JobType
    <2> HIDE DEF a
    <2>3. Touches(j) /\ job'[j] = a
      BY <1>3, <2>1
    <2>4. JobOK(j)'
      BY <2>2, <2>3 DEF JobOK, Holding
    <2> QED
      BY <1>1, <1>2, <2>2, <2>3, <2>4 DEF Establishes
  <1>5. CASE Throws(j)
    <2> DEFINE s == IF job[j].attempts < MaxAttempts THEN "waiting" ELSE "failed"
               a == [job[j] EXCEPT !.state = s, !.pc = "none"]
    <2>1. a \in JobType /\ job' = [job EXCEPT ![j] = a]
      BY <1>1, <1>5 DEF Throws, JobType
    <2>2. /\ a.state # "active" /\ a.run = job[j].run
          /\ a.state = "waiting" => a.attempts < MaxAttempts
      BY <1>1 DEF JobType
    <2> HIDE DEF a
    <2> QED
      BY <1>1, <1>2, <1>3, <2>1, <2>2 DEF Establishes, JobOK
  <1>6. CASE Ends(j)
    <2> DEFINE a == [job[j] EXCEPT !.state = "done", !.pc = "none"]
    <2>1. a \in JobType /\ job' = [job EXCEPT ![j] = a]
      BY <1>1, <1>6 DEF Ends, JobType
    <2>2. a.state = "done" /\ a.run = job[j].run
      BY <1>1 DEF JobType
    <2> HIDE DEF a
    <2> QED
      BY <1>1, <1>2, <1>3, <2>1, <2>2 DEF Establishes, JobOK
  <1>7. CASE Crash(j)
    <2> DEFINE a == [job[j] EXCEPT !.state = "waiting", !.pc = "none", !.attempts = @ - 1]
    <2>0. job[j] \in JobType /\ job[j].attempts >= 1
      BY <1>1, <1>7 DEF Crash, JobOK
    <2>1. a \in JobType /\ job' = [job EXCEPT ![j] = a]
      <3>1. job[j].attempts - 1 \in 0..MaxAttempts
        BY <2>0 DEF JobType
      <3> QED
        BY <1>7, <2>0, <3>1 DEF Crash, JobType
    <2>2. a.state = "waiting" /\ a.run = job[j].run /\ a.attempts < MaxAttempts
      BY <2>0 DEF JobType
    <2> HIDE DEF a
    <2> QED
      BY <1>1, <1>2, <1>3, <2>1, <2>2 DEF Establishes, JobOK
  <1>8. CASE Simulate(j)
    <2> DEFINE a == [job[j] EXCEPT !.ok = Succeeds(scenario[j]), !.pc = "complete"]
    <2>1. a \in JobType /\ job' = [job EXCEPT ![j] = a]
      BY <1>1, <1>8 DEF Simulate, Succeeds, JobType
    <2>2. /\ a.state = "active" /\ a.pc = "complete" /\ a.run = job[j].run /\ a.attempts = job[j].attempts
          /\ a.ok = Succeeds(scenario[j])
      BY <1>1, <1>8 DEF Simulate, Running, JobType
    <2>3. RowOK(j) /\ job[j].pc = "simulate" /\ job[j].attempts >= 1
      BY <1>8 DEF Simulate, Running, JobOK, Holding
    <2> HIDE DEF a
    <2>4. Touches(j) /\ job'[j] = a
      BY <1>3, <2>1
    <2> QED
      BY <1>1, <1>2, <2>2, <2>3, <2>4 DEF Establishes, JobOK, RowOK
  <1>9. CASE Caught(j)
    <2> DEFINE a == [job[j] EXCEPT !.pc = "catch"]
    <2>1. a \in JobType /\ job' = [job EXCEPT ![j] = a]
      BY <1>1, <1>9 DEF Caught, Goto, JobType
    <2>2. a.state = "active" /\ a.pc = "catch" /\ a.run = job[j].run /\ a.attempts = job[j].attempts
      BY <1>1, <1>9 DEF Caught, JobType
    <2>3. RowOK(j) /\ job[j].pc # "end" /\ job[j].attempts >= 1
      BY <1>9 DEF Caught, JobOK, Holding
    <2> HIDE DEF a
    <2>4. Touches(j) /\ job'[j] = a
      BY <1>3, <2>1
    <2> QED
      BY <1>1, <1>2, <2>2, <2>3, <2>4 DEF Establishes, JobOK, RowOK
  <1>10. CASE AuditFailure(j)
    <2> DEFINE a == [job[j] EXCEPT !.pc = "end"]
    <2>1. a \in JobType /\ job' = [job EXCEPT ![j] = a]
      BY <1>1, <1>10 DEF AuditFailure, Goto, JobType
    <2>2. a.state = "active" /\ a.pc = "end" /\ a.run = job[j].run /\ a.attempts = job[j].attempts
      BY <1>1, <1>10 DEF AuditFailure, Running, JobType
    <2>3. RowOK(j) /\ job[j].pc = "audit" /\ job[j].attempts >= 1
      BY <1>10 DEF AuditFailure, Running, JobOK, Holding
    <2> HIDE DEF a
    <2>4. Touches(j) /\ job'[j] = a
      BY <1>3, <2>1
    <2> QED
      BY <1>1, <1>2, <2>2, <2>3, <2>4 DEF Establishes, JobOK, RowOK
  <1> QED
    BY <1>4, <1>5, <1>6, <1>7, <1>8, <1>9, <1>10

\* The steps that do.
LEMMA RowStep ==
  ASSUME TypeOK, NEW j \in Jobs, JobOK(j),
         InsertRun(j) \/ MarkCompleted(j) \/ InsertResult(j) \/ MarkFailed(j)
  PROVE  Establishes(j)
  <1>1. /\ job \in [Jobs -> JobType] /\ runs \in Seq(RunRows) /\ job[j].run \in 0..Len(runs)
    BY DEF TypeOK, JobType
  <1>2. scenario' = scenario
    BY DEF InsertRun, MarkCompleted, InsertResult, MarkFailed
  <1>3. CASE InsertRun(j)
    <2> DEFINE a == [job[j] EXCEPT !.run = Len(runs) + 1, !.pc = "simulate"]
               row == [job |-> j, status |-> "running", result |-> "none"]
    <2>1. a \in JobType /\ job' = [job EXCEPT ![j] = a] /\ runs' = Append(runs, row)
      <3>1. a \in JobType
        <4>1. job[j] \in JobType /\ Len(runs) + 1 \in Nat
          BY <1>1
        <4> QED
          BY <4>1 DEF JobType
      <3>2. job' = [job EXCEPT ![j] = a]
        BY <1>1, <1>3 DEF InsertRun
      <3>3. runs' = Append(runs, row)
        BY <1>3 DEF InsertRun
      <3> QED
        BY <3>1, <3>2, <3>3
    <2>2. a.state = "active" /\ a.pc = "simulate" /\ a.run = Len(runs) + 1 /\ a.attempts = job[j].attempts
      BY <1>1, <1>3 DEF InsertRun, Running, JobType
    <2>3. job[j].attempts >= 1
      BY <1>3 DEF InsertRun, Running, JobOK
    <2>4. row \in RunRows /\ Len(runs') = Len(runs) + 1 /\ runs'[Len(runs) + 1] = row
      BY <1>1, <2>1 DEF RunRows
    <2> HIDE DEF a
    <2>5. job'[j] = a /\ Touches(j)
      BY <1>1, <1>2, <2>1 DEF Touches
    <2> QED
      BY <1>1, <1>2, <2>2, <2>3, <2>4, <2>5 DEF Establishes, JobOK, RowOK
  <1>4. ASSUME NEW row \in RunRows, NEW pc, runs' = [runs EXCEPT ![job[j].run] = row], Goto(j, pc),
               job[j].state = "active", job[j].pc \in {"complete", "result", "catch"},
               row.job = j, pc \in {"result", "end", "audit"},
               pc # "end" => row.result = "none",
               pc = "result" => row.status = "completed" /\ job[j].pc = "complete",
               pc = "audit" => row.status = "failed",
               pc = "end" => row.status = "completed" /\ row.result # "none"
        PROVE  Establishes(j)
    <2> DEFINE a == [job[j] EXCEPT !.pc = pc]
    <2>1. a \in JobType /\ job' = [job EXCEPT ![j] = a]
      BY <1>1, <1>4 DEF Goto, JobType
    <2>2. /\ a.state = "active" /\ a.pc = pc /\ a.run = job[j].run /\ a.attempts = job[j].attempts
          /\ a.ok = job[j].ok
      BY <1>1, <1>4 DEF JobType
    <2>3. RowOK(j) /\ job[j].attempts >= 1
      BY <1>4 DEF JobOK, Holding
    <2>4. job[j].run \in 1..Len(runs') /\ runs'[job[j].run] = row /\ Len(runs') = Len(runs)
      BY <1>1, <1>4, <2>3 DEF RowOK
    <2> HIDE DEF a
    <2>5. job'[j] = a /\ Touches(j)
      BY <1>1, <1>2, <1>4, <2>1 DEF Touches
    <2> QED
      BY <1>1, <1>2, <1>4, <2>2, <2>3, <2>4, <2>5 DEF Establishes, JobOK, RowOK
  <1> DEFINE old == runs[job[j].run]
  <1>5. ASSUME job[j].state = "active", job[j].pc \in {"complete", "result", "catch"}
        PROVE  old \in RunRows /\ old.job = j /\ old.result = "none" /\ (job[j].pc = "result" => old.status = "completed")
    BY <1>1, <1>5 DEF JobOK, RowOK, Holding
  <1>6. CASE MarkCompleted(j)
    <2> DEFINE row == [old EXCEPT !.status = "completed"]
    <2>1. job[j].state = "active" /\ job[j].pc = "complete" /\ Goto(j, "result")
      BY <1>6 DEF MarkCompleted, Running
    <2>2. row \in RunRows /\ row.job = j /\ row.result = "none" /\ row.status = "completed"
      BY <1>5, <2>1 DEF RunRows
    <2>3. runs' = [runs EXCEPT ![job[j].run] = row]
      BY <1>6 DEF MarkCompleted
    <2> HIDE DEF row
    <2> QED
      BY <1>4, <2>1, <2>2, <2>3
  <1>7. CASE InsertResult(j)
    <2> DEFINE row == [old EXCEPT !.result = IF job[j].ok THEN "success" ELSE "failure"]
    <2>1. job[j].state = "active" /\ job[j].pc = "result" /\ Goto(j, "end")
      BY <1>7 DEF InsertResult, Running
    <2>2. row \in RunRows /\ row.job = j /\ row.result # "none" /\ row.status = "completed"
      BY <1>5, <2>1 DEF RunRows
    <2>3. runs' = [runs EXCEPT ![job[j].run] = row]
      BY <1>7 DEF InsertResult
    <2> HIDE DEF row
    <2> QED
      BY <1>4, <2>1, <2>2, <2>3
  <1>8. CASE MarkFailed(j)
    <2> DEFINE row == [old EXCEPT !.status = "failed"]
    <2>1. job[j].state = "active" /\ job[j].pc = "catch" /\ Goto(j, "audit")
      BY <1>8 DEF MarkFailed, Running
    <2>2. row \in RunRows /\ row.job = j /\ row.result = "none" /\ row.status = "failed"
      BY <1>5, <2>1 DEF RunRows
    <2>3. runs' = [runs EXCEPT ![job[j].run] = row]
      BY <1>8 DEF MarkFailed
    <2> HIDE DEF row
    <2> QED
      BY <1>4, <2>1, <2>2, <2>3
  <1> QED
    BY <1>3, <1>6, <1>7, <1>8


\* The rows a reader cannot tell from one in progress change by the step's own row only.
LEMMA OrphanStep ==
  ASSUME TypeOK, NEW j \in Jobs, Touches(j), NEW n \in Orphans', n \notin Orphans
  PROVE  \/ job[j].state = "active" /\ n = job[j].run
         \/ n = Len(runs) + 1 /\ runs' = Append(runs, [job |-> j, status |-> "running", result |-> "none"])
  <1>1. runs \in Seq(RunRows)
    BY DEF TypeOK
  <1>2. /\ n \in DOMAIN runs' /\ \A i \in Jobs : job'[i].state = "active" => n # job'[i].run
        /\ runs'[n].status = "running" \/ (runs'[n].status = "completed" /\ runs'[n].result = "none")
    BY DEF Orphans, Worked
  <1>3. ASSUME n \in 1..Len(runs), runs'[n] = runs[n]
        PROVE  job[j].state = "active" /\ n = job[j].run
    <2>1. n \in Worked
      BY <1>1, <1>2, <1>3 DEF Orphans
    <2>2. PICK i \in Jobs : job[i].state = "active" /\ n = job[i].run
      BY <2>1 DEF Worked
    <2> QED
      BY <1>2, <2>2 DEF Touches
  <1>4. CASE runs' = runs
    BY <1>1, <1>2, <1>3, <1>4
  <1>5. CASE runs' = Append(runs, [job |-> j, status |-> "running", result |-> "none"])
    BY <1>1, <1>2, <1>3, <1>5
  <1>6. CASE /\ job[j].state = "active"
             /\ \E row \in RunRows : runs' = [runs EXCEPT ![job[j].run] = row]
    BY <1>1, <1>2, <1>3, <1>6
  <1> QED
    BY <1>4, <1>5, <1>6 DEF Touches

\* A step adds a row to those only when a worker dies or a statement fails, and then one.
LEMMA OrphanCount ==
  ASSUME TypeOK, NEW j \in Jobs, JobOK(j), Establishes(j), Handler(j) \/ Crash(j),
         IsFiniteSet(Orphans), Cardinality(Orphans) <= lost + faults
  PROVE  IsFiniteSet(Orphans') /\ Cardinality(Orphans') <= lost' + faults'
  <1>1. job \in [Jobs -> JobType] /\ runs \in Seq(RunRows) /\ faults \in Nat /\ lost \in Nat
    BY DEF TypeOK, JobType
  <1>2. Touches(j)
    BY DEF Establishes
  <1>3. CASE Throws(j) \/ Crash(j)
    <2>1. runs' = runs /\ Len(runs) + 1 \notin DOMAIN runs
      BY <1>1, <1>3 DEF Throws, Crash
    <2>2. Orphans' \subseteq Orphans \cup {job[j].run}
      <3> SUFFICES ASSUME NEW n \in Orphans', n \notin Orphans PROVE n = job[j].run
        OBVIOUS
      <3>1. n \in DOMAIN runs
        BY <2>1 DEF Orphans
      <3> QED
        BY <1>2, <2>1, <3>1, OrphanStep
    <2>3. /\ IsFiniteSet(Orphans \cup {job[j].run})
          /\ Cardinality(Orphans \cup {job[j].run}) <= Cardinality(Orphans) + 1
          /\ Cardinality(Orphans) \in Nat
      <3>1. Cardinality(Orphans) \in Nat
        BY FS_CardinalityType
      <3>2. /\ IsFiniteSet(Orphans \cup {job[j].run})
            /\ \/ Cardinality(Orphans \cup {job[j].run}) = Cardinality(Orphans)
               \/ Cardinality(Orphans \cup {job[j].run}) = Cardinality(Orphans) + 1
        BY FS_AddElement
      <3> QED
        BY <3>1, <3>2
    <2>4. IsFiniteSet(Orphans') /\ Cardinality(Orphans') <= Cardinality(Orphans \cup {job[j].run})
      BY <2>2, <2>3, FS_Subset
    <2>5. Cardinality(Orphans \cup {job[j].run}) \in Nat /\ Cardinality(Orphans') \in Nat
      BY <2>3, <2>4, FS_CardinalityType
    <2>6. lost' + faults' = lost + faults + 1
      BY <1>1, <1>3 DEF Throws, Crash
    <2> QED
      BY <1>1, <2>3, <2>4, <2>5, <2>6
  <1>4. ASSUME Orphans' \subseteq Orphans, lost' = lost, faults' = faults
        PROVE  IsFiniteSet(Orphans') /\ Cardinality(Orphans') <= lost' + faults'
    <2>1. IsFiniteSet(Orphans') /\ Cardinality(Orphans') <= Cardinality(Orphans)
      BY <1>4, FS_Subset
    <2>2. Cardinality(Orphans) \in Nat /\ Cardinality(Orphans') \in Nat
      BY <2>1, FS_CardinalityType
    <2> QED
      BY <1>1, <1>4, <2>1, <2>2
  <1>5. ASSUME ~(Throws(j) \/ Crash(j)), NEW n \in Orphans', n \notin Orphans
        PROVE  FALSE
    <2>1. n \in DOMAIN runs' /\ \A i \in Jobs : job'[i].state = "active" => n # job'[i].run
      BY DEF Orphans, Worked
    <2>0. runs' = runs => n # Len(runs) + 1
      BY <1>1, <2>1
    <2>2. CASE Pickup(j)
      <3>1. runs' = runs /\ job[j].state # "active"
        BY <2>2 DEF Pickup
      <3> QED
        BY <1>2, <1>5, <2>0, <3>1, OrphanStep
    <2>3. CASE Ends(j)
      <3>1. RowOK(j) /\ job[j].pc = "end" /\ runs' = runs
        BY <2>3 DEF Ends, Running, JobOK, Holding
      <3>2. runs[n].status = "running" \/ (runs[n].status = "completed" /\ runs[n].result = "none")
        BY <3>1 DEF Orphans
      <3>3. n # job[j].run
        BY <3>1, <3>2 DEF RowOK
      <3> QED
        BY <1>2, <1>5, <2>0, <3>1, <3>3, OrphanStep
    <2>4. CASE InsertRun(j)
      <3>1. job'[j].run = Len(runs) + 1 /\ job'[j].state = "active" /\ job[j].run = 0
        BY <1>1, <2>4 DEF InsertRun, Running, JobOK, JobType
      <3>2. n # Len(runs) + 1
        BY <2>1, <3>1
      <3>3. n # 0
        BY <1>1, <2>1, <2>4 DEF InsertRun, RunRows
      <3> QED
        BY <1>2, <1>5, <3>1, <3>2, <3>3, OrphanStep
    <2>5. CASE Simulate(j) \/ Caught(j) \/ AuditFailure(j) \/ MarkCompleted(j) \/ InsertResult(j) \/ MarkFailed(j)
      <3>1. job'[j].run = job[j].run /\ job'[j].state = "active"
        BY <1>1, <2>5 DEF Simulate, Caught, AuditFailure, MarkCompleted, InsertResult, MarkFailed, Running, Goto, JobType
      <3>2. Len(runs') = Len(runs)
        BY <1>1, <2>5 DEF Simulate, Caught, AuditFailure, MarkCompleted, InsertResult, MarkFailed
      <3>3. runs' # Append(runs, [job |-> j, status |-> "running", result |-> "none"])
        BY <1>1, <3>2 DEF RunRows
      <3> QED
        BY <1>2, <1>5, <2>1, <3>1, <3>3, OrphanStep
    <2> QED
      BY <1>5, <2>2, <2>3, <2>4, <2>5 DEF Handler
  <1>6. ~(Throws(j) \/ Crash(j)) => lost' = lost /\ faults' = faults
    BY DEF Handler, Pickup, InsertRun, Simulate, MarkCompleted, InsertResult, Caught, MarkFailed, AuditFailure, Ends
  <1> QED
    BY <1>3, <1>4, <1>5, <1>6


\* What a step writes: it leaves a row with a result alone, and the result it writes is
\* the outcome drawn.
LEMMA ResultStep ==
  ASSUME TypeOK, NEW j \in Jobs, JobOK(j), Handler(j) \/ Crash(j), \A n \in 1..Len(runs) : Drawn(n)
  PROVE  ResultStays /\ \A n \in 1..Len(runs') : Drawn(n)'
  <1>1. /\ job \in [Jobs -> JobType] /\ runs \in Seq(RunRows)
        /\ DOMAIN runs = 1..Len(runs) /\ Len(runs) \in Nat
    BY DEF TypeOK, JobType
  <1>2. scenario' = scenario
    BY DEF Handler, Pickup, InsertRun, Simulate, MarkCompleted, InsertResult, Caught, MarkFailed, AuditFailure, Throws, Ends, Crash
  <1>3. CASE runs' = runs
    BY <1>1, <1>2, <1>3 DEF ResultStays, Drawn
  <1>4. CASE InsertRun(j)
    <2> DEFINE row == [job |-> j, status |-> "running", result |-> "none"]
    <2>1. runs' = Append(runs, row) /\ row \in RunRows
      BY <1>4 DEF InsertRun, RunRows
    <2>2. Len(runs') = Len(runs) + 1 /\ runs'[Len(runs) + 1] = row /\ \A n \in 1..Len(runs) : runs'[n] = runs[n]
      BY <1>1, <2>1
    <2>3. \A n \in 1..Len(runs') : n \in 1..Len(runs) \/ n = Len(runs) + 1
      BY <1>1, <2>2
    <2>4. row.result = "none"
      OBVIOUS
    <2> HIDE DEF row
    <2> QED
      BY <1>1, <1>2, <2>2, <2>3, <2>4 DEF ResultStays, Drawn
  <1> DEFINE r == job[j].run
             old == runs[r]
  <1>5. ASSUME NEW row \in RunRows, runs' = [runs EXCEPT ![r] = row], r \in 1..Len(runs),
               old.result = "none",
               row.result = "success" => Succeeds(scenario[row.job]),
               row.result = "failure" => ~Succeeds(scenario[row.job])
        PROVE  ResultStays /\ \A n \in 1..Len(runs') : Drawn(n)'
    <2>1. Len(runs') = Len(runs) /\ runs'[r] = row /\ \A n \in 1..Len(runs) \ {r} : runs'[n] = runs[n]
      BY <1>1, <1>5
    <2> QED
      BY <1>1, <1>2, <1>5, <2>1 DEF ResultStays, Drawn
  <1>6. ASSUME job[j].state = "active", job[j].pc \in {"complete", "result", "catch"}
        PROVE  r \in 1..Len(runs) /\ old \in RunRows /\ old.job = j /\ old.result = "none"
    BY <1>1, <1>6 DEF JobOK, RowOK, Holding
  <1>7. CASE MarkCompleted(j)
    <2> DEFINE row == [old EXCEPT !.status = "completed"]
    <2>1. job[j].state = "active" /\ job[j].pc = "complete" /\ runs' = [runs EXCEPT ![r] = row]
      BY <1>7 DEF MarkCompleted, Running
    <2>2. row \in RunRows /\ row.result = "none"
      BY <1>6, <2>1 DEF RunRows
    <2> HIDE DEF row
    <2> QED
      BY <1>5, <1>6, <2>1, <2>2
  <1>8. CASE MarkFailed(j)
    <2> DEFINE row == [old EXCEPT !.status = "failed"]
    <2>1. job[j].state = "active" /\ job[j].pc = "catch" /\ runs' = [runs EXCEPT ![r] = row]
      BY <1>8 DEF MarkFailed, Running
    <2>2. row \in RunRows /\ row.result = "none"
      BY <1>6, <2>1 DEF RunRows
    <2> HIDE DEF row
    <2> QED
      BY <1>5, <1>6, <2>1, <2>2
  <1>9. CASE InsertResult(j)
    <2> DEFINE row == [old EXCEPT !.result = IF job[j].ok THEN "success" ELSE "failure"]
    <2>1. job[j].state = "active" /\ job[j].pc = "result" /\ runs' = [runs EXCEPT ![r] = row]
      BY <1>9 DEF InsertResult, Running
    <2>2. row \in RunRows /\ row.job = j /\ row.result = IF job[j].ok THEN "success" ELSE "failure"
      BY <1>6, <2>1 DEF RunRows
    <2>3. job[j].ok = Succeeds(scenario[j])
      BY <2>1 DEF JobOK, RowOK, Holding
    <2>4. /\ row.result = "success" => Succeeds(scenario[row.job])
          /\ row.result = "failure" => ~Succeeds(scenario[row.job])
      BY <2>2, <2>3
    <2> HIDE DEF row
    <2> QED
      BY <1>5, <1>6, <2>1, <2>2, <2>4
  <1> QED
    BY <1>3, <1>4, <1>7, <1>8, <1>9 DEF Handler, Pickup, Simulate, Caught, AuditFailure, Throws, Ends, Crash

\* The invariant holds of every state.
LEMMA InvNext ==
  ASSUME MaxAttempts \in Nat \ {0}, {MaxFaults, MaxCrashes} \subseteq Nat, Inv, [Next]_vars
  PROVE  Inv' /\ (ResultStays \/ vars' = vars)
  <1>1. CASE vars' = vars
    <2>1. TypeOK'
      BY <1>1 DEF Inv, TypeOK, vars
    <2>2. Orphans' = Orphans
      BY <1>1 DEF Orphans, Worked, vars
    <2>3. (\A j \in Jobs : JobOK(j)') /\ \A n \in 1..Len(runs') : Drawn(n)'
      BY <1>1 DEF Inv, JobOK, RowOK, Drawn, vars
    <2> QED
      BY <1>1, <2>1, <2>2, <2>3 DEF Inv, vars
  <1>2. ASSUME NEW j \in Jobs, Handler(j) \/ Crash(j)
        PROVE  Inv' /\ ResultStays
    <2>1. TypeOK /\ (\A i \in Jobs : JobOK(i)) /\ JobOK(j)
      BY DEF Inv
    <2>2. Establishes(j)
      BY <1>2, <2>1, PlainStep, RowStep DEF Handler
    <2>3. /\ \A i \in Jobs \ {j} : JobOK(i)'
          /\ runs' \in Seq(RunRows)
          /\ \A i \in Jobs \ {j} : job[i].run \in 0..Len(runs')
      BY <2>1, <2>2, OthersStay DEF Establishes
    <2>4. /\ job' \in [Jobs -> JobType] /\ scenario' = scenario
          /\ \A i \in Jobs \ {j} : job'[i] = job[i]
          /\ JobOK(j)' /\ job'[j].run \in 0..Len(runs')
      BY <2>2 DEF Establishes, Touches
    <2>5. events' \in [Jobs -> Nat]
      BY <1>2, <2>1 DEF TypeOK, Handler, Pickup, InsertRun, Simulate, MarkCompleted, InsertResult, Caught, MarkFailed, AuditFailure, Throws, Ends, Crash
    <2>6. faults' \in 0..MaxFaults /\ lost' \in 0..MaxCrashes
      BY <1>2, <2>1 DEF TypeOK, Handler, Pickup, InsertRun, Simulate, MarkCompleted, InsertResult, Caught, MarkFailed, AuditFailure, Throws, Ends, Crash
    <2>7. TypeOK'
      <3>1. \A i \in Jobs : job'[i].run \in 0..Len(runs')
        BY <2>3, <2>4
      <3> QED
        BY <2>1, <2>3, <2>4, <2>5, <2>6, <3>1 DEF TypeOK, JobType
    <2>8. \A i \in Jobs : JobOK(i)'
      BY <2>3, <2>4
    <2>9. ResultStays /\ \A n \in 1..Len(runs') : Drawn(n)'
      BY <1>2, <2>1, ResultStep DEF Inv
    <2>10. IsFiniteSet(Orphans') /\ Cardinality(Orphans') <= lost' + faults'
      BY <1>2, <2>1, <2>2, OrphanCount DEF Inv
    <2> QED
      BY <2>7, <2>8, <2>9, <2>10 DEF Inv
  <1> QED
    BY <1>1, <1>2 DEF Next

LEMMA InvInit ==
  ASSUME MaxAttempts \in Nat \ {0}, {MaxFaults, MaxCrashes} \subseteq Nat, Init
  PROVE  Inv
  <1>1. TypeOK
    BY DEF Init, TypeOK, Fresh
  <1>2. \A j \in Jobs : JobOK(j)
    BY DEF Init, JobOK, Fresh
  <1>3. \A n \in 1..Len(runs) : Drawn(n)
    BY DEF Init
  <1>4. Orphans = {}
    BY DEF Init, Orphans
  <1>5. IsFiniteSet(Orphans) /\ Cardinality(Orphans) = 0
    BY <1>4, FS_EmptySet
  <1>6. lost = 0 /\ faults = 0
    BY DEF Init
  <1> QED
    BY <1>1, <1>2, <1>3, <1>5, <1>6 DEF Inv

LEMMA Bounds ==
  ASSUME SimulationAssumption
  PROVE  MaxAttempts \in Nat \ {0} /\ {MaxFaults, MaxCrashes} \subseteq Nat
  BY DEF SimulationAssumption

\* Every job, row and counter keeps its type.
THEOREM SimulationTypes ==
  ASSUME SimulationAssumption
  PROVE  Spec => []TypeOK
  <1>1. Init => Inv
    BY InvInit, Bounds
  <1>2. Inv /\ [Next]_vars => Inv'
    BY InvNext, Bounds
  <1>3. Inv => TypeOK
    BY DEF Inv
  <1> QED
    BY <1>1, <1>2, <1>3, PTL DEF Spec

\* The rows left in progress, or completed without a result, are no more than the
\* workers that died and the statements that failed outside the handler's try.
THEOREM OrphansExplained ==
  ASSUME SimulationAssumption
  PROVE  Spec => []OrphansAreExplained
  <1>1. Init => Inv
    BY InvInit, Bounds
  <1>2. Inv /\ [Next]_vars => Inv'
    BY InvNext, Bounds
  <1>3. Inv => OrphansAreExplained
    BY DEF Inv, OrphansAreExplained
  <1> QED
    BY <1>1, <1>2, <1>3, PTL DEF Spec

\* A run that has its result is never written again, by a retry or by another job.
THEOREM ResultsAreFinal ==
  ASSUME SimulationAssumption
  PROVE  Spec => ResultIsFinal
  <1>1. Init => Inv
    BY InvInit, Bounds
  <1>2. Inv /\ [Next]_vars => Inv'
    BY InvNext, Bounds
  <1>3. Inv /\ [Next]_vars => [ResultStays]_vars
    BY InvNext, Bounds
  <1> QED
    BY <1>1, <1>2, <1>3, PTL DEF Spec, ResultIsFinal

\* The generator stays within its modulus, and does not turn negative by itself.
LEMMA RandRange ==
  ASSUME NEW s \in Int
  PROVE  /\ Rand(s) \in Int /\ Rand(s) < RngModulus
         /\ s >= 0 => Rand(s) >= 0
  <1> DEFINE m == s % RngModulus
             p == (m * 93) % RngModulus
             t == (p * 100 + m + 49297) % RngModulus
  <1>1. m \in Int /\ 0 <= m /\ m < RngModulus
    BY DEF RngModulus
  <1>2. p \in Int
    <2> HIDE DEF m
    <2> QED
      BY <1>1 DEF RngModulus
  <1>3. t \in Int /\ 0 <= t /\ t < RngModulus
    <2> HIDE DEF m, p
    <2> QED
      BY <1>1, <1>2 DEF RngModulus
  <1>4. Rand(s) = IF s >= -5 \/ t = 0 THEN t ELSE t - RngModulus
    BY DEF Rand
  <1> HIDE DEF t
  <1> QED
    BY <1>3, <1>4 DEF RngModulus

\* A scenario that must fail fails, and one that cannot fail succeeds when its seed
\* folds to a number that is not negative.
THEOREM ChancesHonoured ==
  ASSUME SimulationAssumption
  PROVE  Spec => []ChancesAreHonoured
  <1>1. Init => Inv
    BY InvInit, Bounds
  <1>2. Inv /\ [Next]_vars => Inv'
    BY InvNext, Bounds
  <1>3. ASSUME Inv PROVE ChancesAreHonoured
    <2> SUFFICES ASSUME NEW n \in DOMAIN runs
                 PROVE  LET sc == scenario[runs[n].job] IN
                        /\ (sc.chance = 0 /\ sc.seed >= 0) => runs[n].result # "failure"
                        /\ sc.chance = RngModulus => runs[n].result # "success"
      BY DEF ChancesAreHonoured
    <2> DEFINE sc == scenario[runs[n].job]
    <2>1. runs \in Seq(RunRows) /\ scenario \in [Jobs -> [seed : Seeds, chance : Chances]]
      BY <1>3 DEF Inv, TypeOK
    <2>2. n \in 1..Len(runs) /\ runs[n].job \in Jobs
      <3>1. n \in 1..Len(runs) /\ runs[n] \in RunRows
        <4> HIDE DEF sc
        <4> QED
          BY <2>1
      <3> QED
        BY <3>1 DEF RunRows
    <2>3. sc.seed \in Int
      <3>1. Seeds \subseteq Int
        BY DEF SimulationAssumption
      <3> QED
        BY <2>1, <2>2, <3>1
    <2>4. Drawn(n)
      BY <1>3, <2>2 DEF Inv
    <2>5. /\ FailRoll(sc.seed) \in Int /\ FailRoll(sc.seed) < RngModulus
          /\ sc.seed >= 0 => FailRoll(sc.seed) >= 0
      BY <2>3, RandRange DEF FailRoll
    <2>6. /\ (sc.chance = 0 /\ sc.seed >= 0) => Succeeds(sc)
          /\ sc.chance = RngModulus => ~Succeeds(sc)
      BY <2>5 DEF Succeeds, RngModulus
    <2> QED
      BY <2>4, <2>6 DEF Drawn
  <1> QED
    BY <1>1, <1>2, <1>3, PTL DEF Spec
=============================================================================
