--------------------------- MODULE ComponentsProofs ---------------------------
(***************************************************************************)
(* The theorems about the components that share no state, for every value  *)
(* of their constants.  A behaviour of Components is a behaviour of the    *)
(* component that `part` names, so what is proved of a component alone     *)
(* carries over.  The proofs about one worker process and about API access *)
(* are here: x1 to x9 are handler, promise, memo, created, step, closing,  *)
(* closed, timedOut and jobs of the first, x1 to x4 env, cache, fetches    *)
(* and request of the second.                                              *)
(***************************************************************************)
EXTENDS Components, FiniteSetTheorems, TLAPS

\* No step changes the component a behaviour is about.
LEMMA PartStays == [Next]_vars => UNCHANGED part
BY DEF Next, vars, MetricsStep, StreamStep, SimsStep, AgentStep, ProcessStep, AccessStep,
       RouterStep, LimitsStep, NamingStep, SweepStep, Rest14, Rest10, Rest9, Rest8, Rest6,
       Rest5, Rest4

----------------------------------------------------------------------------
(* Worker process *)

\* CloseOrder is the workers followed by the four shared resources.
LEMMA CloseOrderIs ==
  ASSUME Process!ProcessAssumption
  PROVE  /\ Len(Workers) \in Nat /\ DOMAIN Workers = 1..Len(Workers)
         /\ DOMAIN Process!CloseOrder = 1..(Len(Workers) + 4) /\ Process!Over = Len(Workers) + 5
         /\ \A k \in DOMAIN Workers : Process!CloseOrder[k] = Workers[k]
         /\ Process!CloseOrder[Len(Workers) + 1] = "queues"
         /\ Process!CloseOrder[Len(Workers) + 2] = "signing"
         /\ Process!CloseOrder[Len(Workers) + 3] = "redis"
         /\ Process!CloseOrder[Len(Workers) + 4] = "database"
<1> DEFINE T == {"queues", "signing", "redis", "database"}
           shared == <<"queues", "signing", "redis", "database">>
           All == Process!ToSet(Workers) \cup T
<1>1. Workers \in Seq(All) /\ shared \in Seq(All) /\ Len(shared) = 4
  BY DEF Process!ProcessAssumption
<1>2. Process!CloseOrder = Workers \o shared
  BY DEF Process!CloseOrder
<1>3. /\ Len(Workers \o shared) = Len(Workers) + 4
      /\ \A k \in 1..(Len(Workers) + 4) :
           (Workers \o shared)[k] = IF k <= Len(Workers) THEN Workers[k]
                                    ELSE shared[k - Len(Workers)]
  BY <1>1
<1>4. Workers \o shared \in Seq(All)
  BY <1>1
<1> QED
  BY <1>1, <1>2, <1>3, <1>4 DEF Process!Over

\* What is closed is in CloseOrder, what a worker is called is not a shared resource.
LEMMA CloseOrderNames ==
  ASSUME Process!ProcessAssumption
  PROVE  /\ \A k \in DOMAIN Process!CloseOrder :
              Process!CloseOrder[k] \in Process!ToSet(Process!CloseOrder)
         /\ \A k \in DOMAIN Process!CloseOrder :
              Process!CloseOrder[k] \in {"signing", "redis", "database"} => k > Len(Workers) + 1
         /\ \A h \in Handlers : \E k \in DOMAIN Workers : WorkerOf[h] = Workers[k]
<1>1. \A k \in DOMAIN Process!CloseOrder :
        Process!CloseOrder[k] \in Process!ToSet(Process!CloseOrder)
  BY DEF Process!ToSet
<1>2. \A k \in DOMAIN Workers : Workers[k] \in Process!ToSet(Workers)
  BY DEF Process!ToSet
<1>3. ASSUME NEW k \in DOMAIN Process!CloseOrder,
             Process!CloseOrder[k] \in {"signing", "redis", "database"}
      PROVE  k > Len(Workers) + 1
  <2>1. k \notin DOMAIN Workers
    BY <1>2, <1>3, CloseOrderIs DEF Process!ProcessAssumption
  <2>2. k # Len(Workers) + 1
    BY <1>3, CloseOrderIs
  <2> QED
    BY <2>1, <2>2, CloseOrderIs
<1>4. \A h \in Handlers : \E k \in DOMAIN Workers : WorkerOf[h] = Workers[k]
  <2>1. \A h \in Handlers : WorkerOf[h] \in Process!ToSet(Workers)
    BY DEF Process!ProcessAssumption
  <2> QED
    BY <2>1 DEF Process!ToSet
<1> QED
  BY <1>1, <1>3, <1>4


LEMMA ProcessStarts ==
  ASSUME Process!ProcessAssumption, Process!Init
  PROVE  Process!IInv
<1>1. /\ 0 \in 0..Process!Over /\ DOMAIN Process!CloseOrder \subseteq Nat \ {0}
      /\ DOMAIN Workers \subseteq Nat \ {0}
  BY CloseOrderIs
<1>2. Process!TypeOK
  <2>1. x1 \in [Handlers -> [pc : {"idle", "ask", "await", "work"},
                                  client : {"none", "client", "null"}]]
    BY DEF Process!Init, Process!Idle
  <2>2. x5 \in 0..Process!Over /\ x9 \in 0..MaxJobs
    BY <1>1 DEF Process!Init, Process!ProcessAssumption
  <2> QED
    BY <2>1, <2>2 DEF Process!Init, Process!TypeOK
<1>3. Process!ClosedSoFar /\ Process!WorkersAreDone
  BY <1>1 DEF Process!Init, Process!ClosedSoFar, Process!WorkersAreDone
<1>4. Process!ClientIsAwaited
  BY DEF Process!Init, Process!Idle, Process!ClientIsAwaited
<1> QED
  BY <1>2, <1>3, <1>4 DEF Process!IInv

\* A step of a handler or of the client's maker.
LEMMA HandlersKeep ==
  ASSUME Process!ProcessAssumption, Process!IInv, NEW h \in Handlers,
         Process!Pickup(h) \/ Process!AskSigner(h) \/ Process!GotSigner(h) \/ Process!Finish(h)
  PROVE  Process!IInv'
<1> USE DEF Process!IInv, Process!signer, Process!shutdown
<1>1. CASE Process!Pickup(h)
  <2>1. Process!TypeOK'
    BY <1>1 DEF Process!Pickup, Process!TypeOK, Process!ProcessAssumption
  <2>2. Process!ClosedSoFar'
    BY <1>1 DEF Process!Pickup, Process!ClosedSoFar, Process!CloseOrder
  <2>3. Process!WorkersAreDone'
    <3>1. \A k \in DOMAIN Workers : k < x5 => Workers[k] # WorkerOf[h]
      BY <1>1, CloseOrderIs DEF Process!Pickup, Process!ClosedSoFar
    <3> QED
      BY <1>1, <3>1 DEF Process!Pickup, Process!TypeOK, Process!WorkersAreDone, Process!Done
  <2>4. Process!ClientIsAwaited'
    BY <1>1 DEF Process!Pickup, Process!TypeOK, Process!ClientIsAwaited
  <2> QED
    BY <2>1, <2>2, <2>3, <2>4
<1>2. CASE Process!AskSigner(h)
  <2>1. Process!TypeOK'
    BY <1>2 DEF Process!AskSigner, Process!Starts, Process!TypeOK
  <2>2. Process!ClosedSoFar'
    BY <1>2 DEF Process!AskSigner, Process!ClosedSoFar, Process!CloseOrder
  <2>3. Process!WorkersAreDone'
    BY <1>2 DEF Process!AskSigner, Process!TypeOK, Process!WorkersAreDone, Process!Done
  <2>4. Process!ClientIsAwaited'
    BY <1>2 DEF Process!AskSigner, Process!Starts, Process!TypeOK, Process!ClientIsAwaited
  <2> QED
    BY <2>1, <2>2, <2>3, <2>4
<1>3. CASE Process!GotSigner(h)
  <2>1. Process!TypeOK'
    BY <1>3 DEF Process!GotSigner, Process!TypeOK
  <2>2. Process!ClosedSoFar'
    BY <1>3 DEF Process!GotSigner, Process!ClosedSoFar, Process!CloseOrder
  <2>3. Process!WorkersAreDone'
    BY <1>3 DEF Process!GotSigner, Process!TypeOK, Process!WorkersAreDone, Process!Done
  <2>4. Process!ClientIsAwaited'
    BY <1>3 DEF Process!GotSigner, Process!TypeOK, Process!ClientIsAwaited
  <2> QED
    BY <2>1, <2>2, <2>3, <2>4
<1>4. CASE Process!Finish(h)
  <2>1. Process!TypeOK'
    BY <1>4 DEF Process!Finish, Process!Idle, Process!TypeOK
  <2>2. Process!ClosedSoFar'
    BY <1>4 DEF Process!Finish, Process!ClosedSoFar, Process!CloseOrder
  <2>3. Process!WorkersAreDone'
    BY <1>4 DEF Process!Finish, Process!Idle, Process!TypeOK, Process!WorkersAreDone,
       Process!Done
  <2>4. Process!ClientIsAwaited'
    BY <1>4 DEF Process!Finish, Process!Idle, Process!TypeOK, Process!ClientIsAwaited
  <2> QED
    BY <2>1, <2>2, <2>3, <2>4
<1> QED
  BY <1>1, <1>2, <1>3, <1>4

LEMMA MakerKeeps ==
  ASSUME Process!ProcessAssumption, Process!IInv, NEW client \in {"client", "null"},
         Process!SignerMade(client)
  PROVE  Process!IInv'
<1> USE DEF Process!IInv, Process!SignerMade, Process!shutdown
<1>1. Process!TypeOK'
  BY DEF Process!TypeOK
<1>2. Process!ClosedSoFar' /\ Process!WorkersAreDone'
  BY DEF Process!ClosedSoFar, Process!CloseOrder, Process!WorkersAreDone, Process!Done
<1>3. Process!ClientIsAwaited'
  BY DEF Process!ClientIsAwaited, Process!TypeOK
<1> QED
  BY <1>1, <1>2, <1>3

\* A step of the shutdown.  Each close that ends, ends with an idle worker or with
\* one that was given up.
LEMMA ShutdownKeeps ==
  ASSUME Process!ProcessAssumption, Process!IInv,
         Process!Shutdown \/ Process!BeginClose \/ Process!CloseEnds \/ Process!TimesOut
  PROVE  Process!IInv'
<1> USE DEF Process!IInv, Process!signer
<1>1. CASE Process!Shutdown
  <2>1. Process!TypeOK'
    BY <1>1, CloseOrderIs DEF Process!Shutdown, Process!TypeOK, Process!CloseOrder, Process!Over
  <2>2. Process!ClosedSoFar' /\ Process!WorkersAreDone'
    BY <1>1, CloseOrderIs DEF Process!Shutdown, Process!TypeOK, Process!ClosedSoFar,
       Process!CloseOrder, Process!WorkersAreDone, Process!Done
  <2>3. Process!ClientIsAwaited'
    BY <1>1 DEF Process!Shutdown, Process!ClientIsAwaited
  <2> QED
    BY <2>1, <2>2, <2>3
<1>2. CASE Process!BeginClose
  <2>1. Process!TypeOK'
    BY <1>2, CloseOrderNames DEF Process!BeginClose, Process!Closing, Process!TypeOK,
       Process!CloseOrder, Process!Over
  <2>2. Process!ClosedSoFar'
    BY <1>2, CloseOrderIs DEF Process!BeginClose, Process!Closing, Process!TypeOK,
       Process!ClosedSoFar, Process!CloseOrder
  <2>3. Process!WorkersAreDone' /\ Process!ClientIsAwaited'
    BY <1>2 DEF Process!BeginClose, Process!WorkersAreDone, Process!Done,
       Process!ClientIsAwaited
  <2> QED
    BY <2>1, <2>2, <2>3
<1>3. CASE Process!CloseEnds \/ Process!TimesOut
  <2>1. x5 \in DOMAIN Process!CloseOrder /\ Process!Closing \in x7 /\ x6
    BY <1>3 DEF Process!CloseEnds, Process!TimesOut, Process!Expired, Process!ClosedSoFar,
       Process!Closing
  <2>2. Process!TypeOK'
    <3>1. x5 + 1 \in 0..Process!Over
      BY <2>1, CloseOrderIs
    <3>2. (x7 \subseteq Process!ToSet(Process!CloseOrder))' /\ (x8 \subseteq x7)'
      BY <1>3, <2>1 DEF Process!CloseEnds, Process!TimesOut, Process!TypeOK, Process!CloseOrder
    <3>3. Process!Over' = Process!Over
      BY DEF Process!Over, Process!CloseOrder
    <3> QED
      BY <1>3, <3>1, <3>2, <3>3 DEF Process!CloseEnds, Process!TimesOut, Process!TypeOK
  <2>3. Process!ClosedSoFar'
    <3>1. x5' = x5 + 1 /\ x6' = FALSE /\ x7' = x7 /\ x5 \in Nat
      BY <1>3, <2>1, CloseOrderIs DEF Process!CloseEnds, Process!TimesOut
    <3>2. ASSUME NEW k \in DOMAIN Process!CloseOrder, k < x5 + 1
          PROVE  Process!CloseOrder[k] \in x7
      BY <2>1, <3>1, <3>2, CloseOrderIs DEF Process!ClosedSoFar
    <3>3. ASSUME NEW r \in x7
          PROVE  \E k \in DOMAIN Process!CloseOrder : Process!CloseOrder[k] = r /\ k < x5 + 1
      BY <2>1, <3>1, CloseOrderIs DEF Process!ClosedSoFar
    <3> QED
      BY <3>1, <3>2, <3>3 DEF Process!ClosedSoFar, Process!CloseOrder
  <2>4. Process!WorkersAreDone'
    <3>1. ASSUME NEW k \in DOMAIN Workers, k < x5 + 1
          PROVE  Workers[k] \in x8' \/ Process!Done(Workers[k])
      <4>1. CASE k < x5
        BY <1>3, <4>1 DEF Process!WorkersAreDone, Process!CloseEnds, Process!TimesOut
      <4>2. CASE k = x5
        BY <1>3, <4>2, CloseOrderIs DEF Process!CloseEnds, Process!TimesOut, Process!Closing
      <4> QED
        BY <2>1, <3>1, <4>1, <4>2, CloseOrderIs
    <3> QED
      BY <1>3, <3>1 DEF Process!CloseEnds, Process!TimesOut, Process!WorkersAreDone,
         Process!Done
  <2>5. Process!ClientIsAwaited'
    BY <1>3 DEF Process!CloseEnds, Process!TimesOut, Process!ClientIsAwaited
  <2> QED
    BY <2>2, <2>3, <2>4, <2>5
<1> QED
  BY <1>1, <1>2, <1>3

LEMMA ProcessKeeps ==
  ASSUME Process!ProcessAssumption, Process!IInv, [Process!Next]_(Process!vars)
  PROVE  Process!IInv'
<1>1. CASE UNCHANGED Process!vars
  BY <1>1 DEF Process!IInv, Process!TypeOK, Process!ClosedSoFar, Process!WorkersAreDone,
     Process!ClientIsAwaited, Process!Done, Process!CloseOrder,
              Process!Over, Process!vars, Process!signer, Process!shutdown
<1>2. CASE Process!Next
  BY <1>2, HandlersKeep, MakerKeeps, ShutdownKeeps DEF Process!Next, Process!ShutdownStep
<1> QED
  BY <1>1, <1>2


\* All three invariants follow: what was closed after the workers was closed after
\* every worker was idle or given up.
LEMMA ProcessImplies ==
  ASSUME Process!ProcessAssumption, Process!IInv
  PROVE  Process!TypeOK /\ Process!NothingUsedAfterClose /\ Process!SigningClientIsShared
<1> USE DEF Process!IInv
<1>1. Process!NothingUsedAfterClose
  <2>1. SUFFICES ASSUME NEW h \in Handlers, x1[h].pc # "idle",
                        NEW r \in x7, r \in {"signing", "redis", "database"}
                 PROVE  WorkerOf[h] \in x8
    BY DEF Process!NothingUsedAfterClose
  <2>2. PICK k \in DOMAIN Process!CloseOrder :
          Process!CloseOrder[k] = r /\ (k < x5 \/ (k = x5 /\ x6))
    BY DEF Process!ClosedSoFar
  <2>3. PICK j \in DOMAIN Workers : WorkerOf[h] = Workers[j]
    BY CloseOrderNames
  <2>4. j < x5
    BY <2>1, <2>2, CloseOrderIs, CloseOrderNames DEF Process!TypeOK
  <2> QED
    BY <2>1, <2>3, <2>4 DEF Process!WorkersAreDone, Process!Done
<1>2. Process!SigningClientIsShared
  <2>1. SUFFICES ASSUME x5 = Process!Over, x2 = "client", Process!ExecuteWorker \notin x8,
                        x3 # "client"
                 PROVE  FALSE
    BY DEF Process!SigningClientIsShared, Process!ClientIsAwaited
  <2>2. PICK h \in Handlers : x1[h].pc = "await"
    BY <2>1 DEF Process!ClientIsAwaited
  <2>3. PICK k \in DOMAIN Workers : WorkerOf[h] = Workers[k]
    BY CloseOrderNames
  <2>4. k < x5
    BY <2>1, CloseOrderIs
  <2> QED
    BY <2>1, <2>2, <2>3, <2>4 DEF Process!WorkersAreDone, Process!Done, Process!ClientIsAwaited
<1> QED
  BY <1>1, <1>2


LEMMA ProcessRuns ==
  Spec => \/ [](part # "process")
          \/ ([](part = "process") /\ Process!Spec)
<1>1. (part = "process") /\ Init => Process!Init
  BY DEF Init, ProcessInit
<1>2. (part = "process") /\ [Next]_vars => [Process!Next]_(Process!vars)
  BY DEF Next, vars, MetricsStep, StreamStep, SimsStep, AgentStep, ProcessStep, AccessStep,
         RouterStep, LimitsStep, NamingStep, SweepStep, Process!vars
<1>3. [Next]_vars => ((part = "process") <=> (part = "process")')
  BY PartStays
<1>4. (part # "process") <=> ~(part = "process")
  OBVIOUS
<1> QED
  BY <1>1, <1>2, <1>3, <1>4, PTL DEF Spec, Process!Spec

LEMMA ProcessHolds ==
  Spec => \/ [](part # "process")
          \/ ([](part = "process") /\ []Process!IInv)
<1>1. Process!Init => Process!IInv
  BY ComponentsAssumption, ProcessStarts
<1>2. Process!IInv /\ [Process!Next]_(Process!vars) => Process!IInv'
  BY ComponentsAssumption, ProcessKeeps
<1> QED
  BY <1>1, <1>2, ProcessRuns, PTL DEF Process!Spec

\* A handler at work finds Redis, the database and the signing client open, unless
\* closing its worker was given up (run.ts:2490-2519).
THEOREM OpenWhileUsed == Spec => []NothingUsedAfterClose
<1>1. Process!IInv => Process!NothingUsedAfterClose
  BY ComponentsAssumption, ProcessImplies
<1>2. NothingUsedAfterClose <=> (part = "process" => Process!NothingUsedAfterClose)
  BY DEF NothingUsedAfterClose
<1>3. (part # "process") <=> ~(part = "process")
  OBVIOUS
<1> QED
  BY <1>1, <1>2, <1>3, ProcessHolds, PTL

\* However many execute handlers ask, one signing client is made, and the shutdown
\* finds it (run.ts:108-138).
THEOREM OneSigningClient == Spec => []SigningClientIsShared
<1>1. Process!IInv => Process!SigningClientIsShared
  BY ComponentsAssumption, ProcessImplies
<1>2. SigningClientIsShared <=> (part = "process" => Process!SigningClientIsShared)
  BY DEF SigningClientIsShared
<1>3. (part # "process") <=> ~(part = "process")
  OBVIOUS
<1> QED
  BY <1>1, <1>2, <1>3, ProcessHolds, PTL

----------------------------------------------------------------------------
(* API access *)

LEMMA AccessStarts ==
  ASSUME Access!AuthorizationAssumption, Access!Init
  PROVE  Access!IInv
<1>1. x3 = <<>> /\ Len(x3) = 0
  BY DEF Access!Init
<1>2. "viewer" \in Access!Roles
  BY DEF Access!Roles, Access!Rank
<1> QED
  BY <1>1, <1>2 DEF Access!AuthorizationAssumption, Access!Init, Access!Idle,
     Access!RequestsOver, Access!IInv, Access!TypeOK, Access!EntryIsAwaited, Access!Places

\* What an answered request looks like.
LEMMA AnsweredType ==
  ASSUME Access!TypeOK, NEW q \in Requests, NEW kind \in Access!Places, Access!Answered(q, kind)
  PROVE  /\ x4' \in Access!RequestsOver(DOMAIN x3)
         /\ x4'[q].pc = kind
         /\ \A p \in Requests : p # q => x4'[p] = x4[p]
<1>1. "viewer" \in Access!Roles
  BY DEF Access!Roles, Access!Rank
<1> QED
  BY <1>1 DEF Access!TypeOK, Access!Answered, Access!Idle, Access!RequestsOver

\* The answers are places.
LEMMA AnswersArePlaces ==
  ASSUME NEW q \in Requests
  PROVE  Access!AnswerOf(q) \in {"granted", "forbidden", "unauthorized"}
BY DEF Access!AnswerOf, Access!Authorize, Access!Verdict

\* A step that only moves a request which did not wait for the entry keeps IInv.
LEMMA BystanderKeeps ==
  ASSUME Access!IInv, UNCHANGED <<x1, x2, x3>>, NEW q \in Requests,
         x4' \in Access!RequestsOver(DOMAIN x3),
         \A p \in Requests : p # q => x4'[p] = x4[p],
         ~Access!At(q, "await") \/ x3[x4[q].fetch] = "ok"
  PROVE  Access!IInv'
<1>1. Access!TypeOK'
  BY DEF Access!IInv, Access!TypeOK, Access!RequestsOver
<1>2. Access!EntryIsAwaited'
  BY DEF Access!IInv, Access!EntryIsAwaited, Access!At
<1> QED
  BY <1>1, <1>2 DEF Access!IInv

LEMMA AccessKeeps ==
  ASSUME Access!AuthorizationAssumption, Access!IInv, [Access!Next]_(Access!vars)
  PROVE  Access!IInv'
<1>1. CASE UNCHANGED Access!vars
  BY <1>1 DEF Access!IInv, Access!TypeOK, Access!EntryIsAwaited, Access!At, Access!vars
<1>2. ASSUME NEW q \in Requests, NEW c \in Callers, NEW r \in Access!Roles, NEW b \in BOOLEAN,
             Access!Arrive(q, c, r, b)
      PROVE  Access!IInv'
  <2>1. x4' \in Access!RequestsOver(DOMAIN x3)
    BY <1>2 DEF Access!Arrive, Access!IInv, Access!TypeOK, Access!RequestsOver, Access!Places
  <2> QED
    BY <1>2, <2>1, BystanderKeeps
    DEF Access!Arrive, Access!At, Access!IInv, Access!TypeOK, Access!RequestsOver
<1>3. ASSUME NEW q \in Requests, Access!LocalAnswer(q) \/ Access!Discovered(q)
      PROVE  Access!IInv'
  <2>1. Access!AnswerOf(q) \in Access!Places
    BY AnswersArePlaces DEF Access!Places
  <2>2. Access!Answered(q, Access!AnswerOf(q))
    BY <1>3 DEF Access!LocalAnswer, Access!Discovered
  <2>3. /\ x4' \in Access!RequestsOver(DOMAIN x3)
        /\ \A p \in Requests : p # q => x4'[p] = x4[p]
    BY <2>1, <2>2, AnsweredType DEF Access!IInv
  <2> QED
    BY <1>3, <2>3, BystanderKeeps DEF Access!LocalAnswer, Access!Discovered, Access!At
<1>4. ASSUME NEW q \in Requests, Access!StartDiscovery(q)
      PROVE  Access!IInv'
  <2> DEFINE n == Len(x3)
  <2>1. n \in Nat /\ DOMAIN x3 = 1..n /\ n < MaxFetches
    BY <1>4 DEF Access!StartDiscovery, Access!IInv, Access!TypeOK
  <2>2. x3' = Append(x3, "pending") /\ Len(x3') = n + 1
    BY <1>4 DEF Access!StartDiscovery, Access!IInv, Access!TypeOK
  <2>3. /\ x2' = n + 1 /\ x1' = x1
        /\ x4' = [x4 EXCEPT ![q].pc = "await", ![q].fetch = n + 1]
    BY <1>4, <2>2 DEF Access!StartDiscovery
  <2>4. /\ x3' \in Seq({"pending", "ok", "failed"}) /\ Len(x3') <= MaxFetches
        /\ DOMAIN x3' = 1..(n + 1) /\ n + 1 \in DOMAIN x3'
        /\ DOMAIN x3 \subseteq DOMAIN x3'
    BY <2>1, <2>2 DEF Access!AuthorizationAssumption, Access!IInv, Access!TypeOK
  <2> HIDE DEF n
  <2>5. x4' \in Access!RequestsOver(DOMAIN x3')
    <3>1. x4 \in Access!RequestsOver(DOMAIN x3')
      BY <2>4 DEF Access!IInv, Access!TypeOK, Access!RequestsOver
    <3>2. "await" \in Access!Places /\ n + 1 \in DOMAIN x3' \cup {None}
      BY <2>4 DEF Access!Places
    <3>3. [x4[q] EXCEPT !.pc = "await", !.fetch = n + 1]
            \in [pc : Access!Places, caller : Callers \cup {None}, required : Access!Roles,
                bypass : BOOLEAN, fetch : DOMAIN x3' \cup {None}]
      BY <3>1, <3>2 DEF Access!RequestsOver
    <3> QED
      BY <2>3, <3>1, <3>3 DEF Access!RequestsOver
  <2>6. Access!TypeOK'
    BY <2>1, <2>3, <2>4, <2>5 DEF Access!IInv, Access!TypeOK, Access!RequestsOver
  <2>7. Access!At(q, "await")' /\ x4'[q].fetch = x2'
    BY <2>3 DEF Access!IInv, Access!TypeOK, Access!RequestsOver, Access!At
  <2> QED
    BY <2>6, <2>7 DEF Access!IInv, Access!EntryIsAwaited, Access!At
<1>5. ASSUME NEW q \in Requests, Access!JoinDiscovery(q)
      PROVE  Access!IInv'
  <2>1. x4' \in Access!RequestsOver(DOMAIN x3)
    BY <1>5 DEF Access!JoinDiscovery, Access!IInv, Access!TypeOK, Access!RequestsOver,
       Access!Places
  <2>2. \A p \in Requests : p # q => x4'[p] = x4[p]
    BY <1>5 DEF Access!JoinDiscovery, Access!IInv, Access!TypeOK, Access!RequestsOver
  <2> QED
    BY <1>5, <2>1, <2>2, BystanderKeeps DEF Access!JoinDiscovery, Access!At
<1>6. ASSUME NEW q \in Requests, Access!DiscoveryFails(q)
      PROVE  Access!IInv'
  <2>1. x4' \in Access!RequestsOver(DOMAIN x3)
    BY <1>6, AnsweredType DEF Access!DiscoveryFails, Access!IInv, Access!Places
  <2> QED
    BY <1>6, <2>1 DEF Access!DiscoveryFails, Access!AfterFailure, Access!IInv, Access!TypeOK,
       Access!EntryIsAwaited, Access!RequestsOver
<1>7. ASSUME NEW q \in Requests, Access!Leave(q)
      PROVE  Access!IInv'
  <2>1. Access!Answered(q, "idle") /\ "idle" \in Access!Places
    BY <1>7 DEF Access!Leave, Access!Answered, Access!Idle, Access!Places, Access!IInv,
       Access!TypeOK
  <2>2. /\ x4' \in Access!RequestsOver(DOMAIN x3)
        /\ \A p \in Requests : p # q => x4'[p] = x4[p]
    BY <2>1, AnsweredType DEF Access!IInv
  <2> QED
    BY <1>7, <2>2, BystanderKeeps DEF Access!Leave, Access!At
<1>8. ASSUME NEW f \in 1..MaxFetches, NEW outcome \in {"ok", "failed"}, Access!FetchEnds(f, outcome)
      PROVE  Access!IInv'
  <2>1. /\ DOMAIN x3' = DOMAIN x3 /\ f \in DOMAIN x3
        /\ \A g \in DOMAIN x3 : g # f => x3'[g] = x3[g]
        /\ x3[f] = "pending" /\ x3'[f] = outcome
    BY <1>8 DEF Access!FetchEnds
  <2>2. UNCHANGED <<x1, x2, x4>>
    BY <1>8 DEF Access!FetchEnds
  <2>3. x3' \in Seq({"pending", "ok", "failed"}) /\ Len(x3') = Len(x3)
    BY <1>8 DEF Access!FetchEnds, Access!IInv, Access!TypeOK
  <2>4. Access!TypeOK'
    BY <2>1, <2>2, <2>3 DEF Access!IInv, Access!TypeOK
  <2>5. Access!EntryIsAwaited'
    BY <2>1, <2>2 DEF Access!IInv, Access!TypeOK, Access!EntryIsAwaited, Access!At
  <2> QED
    BY <2>4, <2>5 DEF Access!IInv
<1> QED
  BY <1>1, <1>2, <1>3, <1>4, <1>5, <1>6, <1>7, <1>8 DEF Access!Next


LEMMA AccessRuns ==
  Spec => \/ [](part # "access")
          \/ ([](part = "access") /\ Access!Spec)
<1>1. (part = "access") /\ Init => Access!Init
  BY DEF Init, AccessInit
<1>2. (part = "access") /\ [Next]_vars => [Access!Next]_(Access!vars)
  BY DEF Next, vars, MetricsStep, StreamStep, SimsStep, AgentStep, ProcessStep, AccessStep,
         RouterStep, LimitsStep, NamingStep, SweepStep, Access!vars
<1>3. [Next]_vars => ((part = "access") <=> (part = "access")')
  BY PartStays
<1>4. (part # "access") <=> ~(part = "access")
  OBVIOUS
<1> QED
  BY <1>1, <1>2, <1>3, <1>4, PTL DEF Spec, Access!Spec

LEMMA AccessHolds ==
  Spec => \/ [](part # "access")
          \/ ([](part = "access") /\ []Access!IInv)
<1>1. Access!Init => Access!IInv
  BY ComponentsAssumption, AccessStarts
<1>2. Access!IInv /\ [Access!Next]_(Access!vars) => Access!IInv'
  BY ComponentsAssumption, AccessKeeps
<1> QED
  BY <1>1, <1>2, AccessRuns, PTL DEF Access!Spec

\* While the promise of a failed discovery is cached, a request that waited for it
\* has still to delete it (auth.ts:164-191).
THEOREM FailuresAreDropped == Spec => []FailureIsNotKept
<1>1. Access!IInv => Access!FailureIsNotKept
  BY DEF Access!IInv, Access!EntryIsAwaited, Access!FailureIsNotKept
<1>2. FailureIsNotKept <=> (part = "access" => Access!FailureIsNotKept)
  BY DEF FailureIsNotKept
<1>3. (part # "access") <=> ~(part = "access")
  OBVIOUS
<1> QED
  BY <1>1, <1>2, <1>3, AccessHolds, PTL

----------------------------------------------------------------------------
(* Simulation runs *)

LEMMA SimsRuns ==
  Spec => \/ [](part # "sims")
          \/ ([](part = "sims") /\ Sims!Spec)
<1>1. (part = "sims") /\ Init => Sims!Init
  BY DEF Init, SimsInit
<1>2. (part = "sims") /\ [Next]_vars => [Sims!Next]_(Sims!vars)
  BY DEF Next, vars, MetricsStep, StreamStep, SimsStep, AgentStep, ProcessStep, AccessStep,
         RouterStep, LimitsStep, NamingStep, SweepStep, Sims!vars
<1>3. [Next]_vars => ((part = "sims") <=> (part = "sims")')
  BY PartStays
<1>4. (part # "sims") <=> ~(part = "sims")
  OBVIOUS
<1> QED
  BY <1>1, <1>2, <1>3, <1>4, PTL DEF Spec, Sims!Spec

\* A run that looks in progress with nobody working on it is accounted for by a dead
\* worker or a failed statement.
THEOREM OrphansExplained == Spec => []OrphansAreExplained
<1>1. Sims!Spec => []Sims!OrphansAreExplained
  BY ComponentsAssumption, Sims!OrphansExplained
<1>2. OrphansAreExplained <=> (part = "sims" => Sims!OrphansAreExplained)
  BY DEF OrphansAreExplained
<1>3. (part # "sims") <=> ~(part = "sims")
  OBVIOUS
<1> QED
  BY <1>1, <1>2, <1>3, SimsRuns, PTL

\* Probability 0 always succeeds and probability 1 always fails.
THEOREM ChancesHonoured == Spec => []ChancesAreHonoured
<1>1. Sims!Spec => []Sims!ChancesAreHonoured
  BY ComponentsAssumption, Sims!ChancesHonoured
<1>2. ChancesAreHonoured <=> (part = "sims" => Sims!ChancesAreHonoured)
  BY DEF ChancesAreHonoured
<1>3. (part # "sims") <=> ~(part = "sims")
  OBVIOUS
<1> QED
  BY <1>1, <1>2, <1>3, SimsRuns, PTL

\* A run that has its result is not written again.
THEOREM ResultsAreFinal == Spec => ResultIsFinal
<1>1. Sims!Spec => [][Sims!ResultStays]_(Sims!vars)
  BY ComponentsAssumption, Sims!ResultsAreFinal DEF Sims!ResultIsFinal
<1>2. (part = "sims") /\ [Sims!ResultStays]_(Sims!vars) => [part = "sims" => Sims!ResultStays]_vars
  BY DEF Sims!vars, Sims!ResultStays
<1>3. ~(part = "sims") => [part = "sims" => Sims!ResultStays]_vars
  OBVIOUS
<1>4. (part # "sims") <=> ~(part = "sims")
  OBVIOUS
<1> QED
  BY <1>1, <1>2, <1>3, <1>4, SimsRuns, PTL DEF ResultIsFinal

----------------------------------------------------------------------------
(* Event stream *)

LEMMA StreamRuns ==
  Spec => \/ [](part # "stream")
          \/ ([](part = "stream") /\ Stream!Spec)
<1>1. (part = "stream") /\ Init => Stream!Init
  BY DEF Init, StreamInit
<1>2. (part = "stream") /\ [Next]_vars => [Stream!Next]_(Stream!vars)
  BY DEF Next, vars, MetricsStep, StreamStep, SimsStep, AgentStep, ProcessStep, AccessStep,
         RouterStep, LimitsStep, NamingStep, SweepStep, Stream!vars
<1>3. [Next]_vars => ((part = "stream") <=> (part = "stream")')
  BY PartStays
<1>4. (part # "stream") <=> ~(part = "stream")
  OBVIOUS
<1> QED
  BY <1>1, <1>2, <1>3, <1>4, PTL DEF Spec, Stream!Spec

\* Reading in pages of the oldest rows since the cursor skips nothing: a connection that
\* wrote an event wrote every earlier one it was asked for (events.ts:70-206).
THEOREM NoEventIsSkipped == Spec => []NoGaps
<1>1. Stream!Spec => []Stream!NoGaps
  BY ComponentsAssumption, Stream!StreamHasNoGaps
<1>2. NoGaps <=> (part = "stream" => Stream!NoGaps)
  BY DEF NoGaps
<1>3. (part # "stream") <=> ~(part = "stream")
  OBVIOUS
<1> QED
  BY <1>1, <1>2, <1>3, StreamRuns, PTL

\* A row several overlapping polls hand over is written again only when the seen-list has
\* forgotten it, after SeenCap other ids (events.ts:176-206).
THEOREM RepeatsAreRare == Spec => []RepeatsAreFarApart
<1>1. Stream!Spec => []Stream!RepeatsAreFarApart
  BY ComponentsAssumption, Stream!RepeatsAreRare
<1>2. RepeatsAreFarApart <=> (part = "stream" => Stream!RepeatsAreFarApart)
  BY DEF RepeatsAreFarApart
<1>3. (part # "stream") <=> ~(part = "stream")
  OBVIOUS
<1> QED
  BY <1>1, <1>2, <1>3, StreamRuns, PTL

----------------------------------------------------------------------------
(* Router *)

LEMMA RoutingRuns ==
  Spec => \/ [](part # "router")
          \/ ([](part = "router") /\ Routing!Spec)
<1>1. (part = "router") /\ Init => Routing!Init
  BY DEF Init, RouterInit
<1>2. (part = "router") /\ [Next]_vars => [Routing!Next]_(Routing!vars)
  BY DEF Next, vars, MetricsStep, StreamStep, SimsStep, AgentStep, ProcessStep, AccessStep,
         RouterStep, LimitsStep, NamingStep, SweepStep, Routing!vars
<1>3. [Next]_vars => ((part = "router") <=> (part = "router")')
  BY PartStays
<1>4. (part # "router") <=> ~(part = "router")
  OBVIOUS
<1> QED
  BY <1>1, <1>2, <1>3, <1>4, PTL DEF Spec, Routing!Spec

\* Every route through the eligible adapters was quoted or lost a quote, and none that was
\* quoted scores better than the plan returned, for every market and bound on hops
\* (router.ts:138-224).
THEOREM NoRouteIsMissed == Spec => []NothingMissed
<1>1. Routing!Spec => []Routing!NothingMissed
  BY ComponentsAssumption, Routing!NoRouteIsMissed
<1>2. NothingMissed <=> (part = "router" => Routing!NothingMissed)
  BY DEF NothingMissed
<1>3. (part # "router") <=> ~(part = "router")
  OBVIOUS
<1> QED
  BY <1>1, <1>2, <1>3, RoutingRuns, PTL

\* A route has steps and connects the base to the quote asset, which is all that
\* unsupported_route looks at.
LEMMA RouteIsSupported ==
  ASSUME NEW path \in Routing!Routes
  PROVE  Engine!UnsupportedRoute([base |-> Base, quote |-> Quote, plan |-> path]) = "pass"
<1>1. PICK n \in 1..Routing!HopLimit : path \in [1..n -> Routing!Edges]
  BY DEF Routing!Routes
<1>2. n \in Nat /\ n >= 1 /\ DOMAIN path = 1..n /\ Len(path) = n
  BY <1>1
<1>3. path # <<>>
  BY <1>2
<1>4. path[1].base = Base /\ path[Len(path)].quote = Quote
  BY <1>2 DEF Routing!Routes, Routing!IsRoute
<1> QED
  BY <1>3, <1>4 DEF Engine!UnsupportedRoute, Engine!Verdict

\* unsupported_route accepts every plan the router returns: the policy stage does not
\* refuse for its shape what the route stage chose (router.ts:212-224,
\* unsupported-route.ts:1-26).
THEOREM RoutesAreAccepted == Spec => []PolicyAcceptsRoutes
<1>1. Routing!Spec => []Routing!BestIsARoute
  BY ComponentsAssumption, Routing!RoutesAreReturned
<1>2. PolicyAcceptsRoutes <=> (part = "router" => (x3 = "done" =>
        Engine!UnsupportedRoute([base |-> Base, quote |-> Quote, plan |-> x8.path]) = "pass"))
  BY DEF PolicyAcceptsRoutes
<1>3. Routing!BestIsARoute => PolicyAcceptsRoutes
  BY <1>2, RouteIsSupported DEF Routing!BestIsARoute
<1>4. (part # "router") => PolicyAcceptsRoutes
  BY <1>2
<1> QED
  BY <1>1, <1>3, <1>4, RoutingRuns, PTL

----------------------------------------------------------------------------
(* Agent runtime *)

LEMMA AgentStarts ==
  ASSUME Agent!AgentAssumption, Agent!Init PROVE Agent!TypeOK /\ Agent!FailuresAreFinal
BY DEF Agent!AgentAssumption, Agent!Init, Agent!TypeOK, Agent!FailuresAreFinal, Agent!Kinds

LEMMA AgentTypes ==
  ASSUME Agent!TypeOK, [Agent!Next]_(Agent!vars) PROVE Agent!TypeOK'
<1> USE DEF Agent!TypeOK, Agent!Kinds, Agent!Returns, Agent!serverVars, Agent!From, Agent!To
<1>1. CASE UNCHANGED Agent!vars
  BY <1>1 DEF Agent!vars
<1>2. CASE Agent!LocalPass
  BY <1>2 DEF Agent!LocalPass
<1>3. CASE Agent!LocalThrows
  BY <1>3 DEF Agent!LocalThrows
<1>4. CASE Agent!CreateIntent
  BY <1>4 DEF Agent!CreateIntent
<1>5. CASE Agent!StreamEnds
  BY <1>5 DEF Agent!StreamEnds
<1>6. CASE Agent!Conclude
  BY <1>6 DEF Agent!Conclude, Agent!Terminal
<1>7. ASSUME NEW stage \in DOMAIN Agent!From, Agent!Post(stage) PROVE Agent!TypeOK'
  BY <1>7 DEF Agent!Post, Agent!AfterPost
<1>8. ASSUME NEW stage \in DOMAIN Agent!From, Agent!PostFails(stage) PROVE Agent!TypeOK'
  BY <1>8 DEF Agent!PostFails
<1>9. ASSUME NEW e \in Agent!WorkerEvents, Agent!StreamEvent(e) PROVE Agent!TypeOK'
  BY <1>9 DEF Agent!StreamEvent
<1>10. CASE Agent!ExecuteRuns
  BY <1>10 DEF Agent!ExecuteRuns, Agent!WorkerEvents
<1>11. ASSUME NEW stage \in DOMAIN Agent!From, Agent!StageRuns(stage) PROVE Agent!TypeOK'
  BY <1>11 DEF Agent!StageRuns
<1> QED
  BY <1>1, <1>2, <1>3, <1>4, <1>5, <1>6, <1>7, <1>8, <1>9, <1>10, <1>11
  DEF Agent!Next, Agent!AgentStep

LEMMA AgentFails ==
  ASSUME Agent!TypeOK, Agent!FailuresAreFinal, [Agent!Next]_(Agent!vars)
  PROVE  Agent!FailuresAreFinal'
<1> USE DEF Agent!FailuresAreFinal, Agent!Returns, Agent!serverVars, Agent!From, Agent!To
<1>1. CASE UNCHANGED Agent!vars
  BY <1>1 DEF Agent!vars
<1>2. CASE Agent!LocalPass
  BY <1>2 DEF Agent!LocalPass
<1>3. CASE Agent!LocalThrows
  BY <1>3 DEF Agent!LocalThrows, Agent!Terminal, Agent!TerminalEvents, Agent!TypeOK,
         Agent!WorkerEvents
<1>4. CASE Agent!CreateIntent
  BY <1>4 DEF Agent!CreateIntent
<1>5. CASE Agent!StreamEnds
  BY <1>5 DEF Agent!StreamEnds
<1>6. CASE Agent!Conclude
  BY <1>6 DEF Agent!Conclude, Agent!FailedEvents, Agent!TypeOK, Agent!WorkerEvents
<1>7. ASSUME NEW stage \in DOMAIN Agent!From, Agent!Post(stage) PROVE Agent!FailuresAreFinal'
  BY <1>7 DEF Agent!Post, Agent!AfterPost
<1>8. ASSUME NEW stage \in DOMAIN Agent!From, Agent!PostFails(stage)
      PROVE  Agent!FailuresAreFinal'
  BY <1>8 DEF Agent!PostFails, Agent!TypeOK
<1>9. ASSUME NEW e \in Agent!WorkerEvents, Agent!StreamEvent(e) PROVE Agent!FailuresAreFinal'
  BY <1>9 DEF Agent!StreamEvent
<1>10. CASE Agent!ExecuteRuns
  BY <1>10 DEF Agent!ExecuteRuns
<1>11. ASSUME NEW stage \in DOMAIN Agent!From, Agent!StageRuns(stage)
       PROVE  Agent!FailuresAreFinal'
  BY <1>11 DEF Agent!StageRuns
<1> QED
  BY <1>1, <1>2, <1>3, <1>4, <1>5, <1>6, <1>7, <1>8, <1>9, <1>10, <1>11
  DEF Agent!Next, Agent!AgentStep

LEMMA AgentRuns ==
  Spec => \/ [](part # "agent")
          \/ ([](part = "agent") /\ Agent!Spec)
<1>1. (part = "agent") /\ Init => Agent!Init
  BY DEF Init, AgentInit
<1>2. (part = "agent") /\ [Next]_vars => [Agent!Next]_(Agent!vars)
  BY DEF Next, vars, MetricsStep, StreamStep, SimsStep, AgentStep, ProcessStep, AccessStep,
         RouterStep, LimitsStep, NamingStep, SweepStep, Agent!vars
<1>3. [Next]_vars => ((part = "agent") <=> (part = "agent")')
  BY PartStays
<1>4. (part # "agent") <=> ~(part = "agent")
  OBVIOUS
<1> QED
  BY <1>1, <1>2, <1>3, <1>4, PTL DEF Spec, Agent!Spec

\* A caller that is told of a failure, with no reply lost, never sees the intent
\* executed later, whatever the workers do first (runtime.ts).
THEOREM RetryIsSafe == Spec => []FailureIsSafeToRetry
<1>1. Agent!Init => Agent!TypeOK /\ Agent!FailuresAreFinal
  BY ComponentsAssumption, AgentStarts
<1>2. Agent!TypeOK /\ Agent!FailuresAreFinal /\ [Agent!Next]_(Agent!vars)
        => Agent!TypeOK' /\ Agent!FailuresAreFinal'
  BY AgentTypes, AgentFails
<1>3. Agent!FailuresAreFinal => Agent!FailureIsSafeToRetry
  BY DEF Agent!FailuresAreFinal, Agent!FailureIsSafeToRetry
<1>4. FailureIsSafeToRetry <=> (part = "agent" => Agent!FailureIsSafeToRetry)
  BY DEF FailureIsSafeToRetry
<1>5. (part # "agent") <=> ~(part = "agent")
  OBVIOUS
<1> QED
  BY <1>1, <1>2, <1>3, <1>4, <1>5, AgentRuns, PTL DEF Agent!Spec

----------------------------------------------------------------------------
(* The score of a route *)

\* Integer division does not decrease in its first argument.
LEMMA DivMonotone ==
  ASSUME NEW a \in Int, NEW b \in Int, a <= b, NEW c \in Nat \ {0}
  PROVE  a \div c \in Int /\ a \div c <= b \div c
<1> DEFINE p == a \div c
           q == b \div c
<1>1. p \in Int /\ q \in Int
  OBVIOUS
<1>2. c * p <= a /\ b < c * q + c
  OBVIOUS
<1> HIDE DEF p, q
<1>3. ASSUME q < p PROVE FALSE
  <2>1. PICK k \in Nat : p = q + 1 + k
    <3>1. p - q - 1 \in Nat /\ p = q + 1 + (p - q - 1)
      BY <1>1, <1>3
    <3> QED
      BY <3>1
  <2>2. c * p = c * q + c + c * k /\ c * k >= 0
    BY <1>1, <2>1
  <2>3. c * p \in Int /\ c * q \in Int /\ c * k \in Int
    BY <1>1, <2>1
  <2> QED
    BY <1>2, <2>2, <2>3
<1>4. p <= q
  BY <1>1, <1>3
<1> QED
  BY <1>1, <1>4 DEF p, q

LEMMA RoundedMonotone ==
  ASSUME NEW a \in Int, NEW b \in Int, a <= b, NEW d \in Nat \ {0}
  PROVE  /\ Score!Rounded(a, d) \in Int
         /\ Score!Rounded(a, d) <= Score!Rounded(b, d)
<1>1. 2 * a + d \in Int /\ 2 * b + d \in Int /\ 2 * a + d <= 2 * b + d /\ 2 * d \in Nat \ {0}
  OBVIOUS
<1> QED
  BY <1>1, DivMonotone DEF Score!Rounded

\* Below the minimum a higher rate costs less; at the minimum it costs nothing.
LEMMA RateMonotone ==
  ASSUME Score!ScoreAssumption, NEW r \in Int, NEW s \in Int, r <= s, ~Score!Blocks(r)
  PROVE  /\ ~Score!Blocks(s)
         /\ Score!RateAdjustment(r) \in Int /\ Score!RateAdjustment(s) \in Int
         /\ Score!RateAdjustment(r) <= Score!RateAdjustment(s)
<1> USE DEF Score!ScoreAssumption
<1>1. r # None /\ s # None /\ r >= 80 /\ s >= 80
  BY DEF Score!Blocks, Score!BlockPct
<1>2. ~Score!Blocks(s)
  BY <1>1 DEF Score!Blocks, Score!BlockPct
<1>3. CASE r >= MinPct
  BY <1>1, <1>2, <1>3 DEF Score!RateAdjustment
<1>4. CASE r < MinPct
  <2> DEFINE d == MinPct - 80
             R(x) == Score!Rounded(15 * (MinPct - x), d)
  <2>1. d \in Nat \ {0}
    BY <1>1, <1>4
  <2>2. R(r) \in Int /\ R(s) \in Int /\ R(s) <= R(r)
    BY <2>1, RoundedMonotone
  <2>3. R(r) >= 0
    <3>1. Score!Rounded(0, d) = 0
      BY <2>1 DEF Score!Rounded
    <3> QED
      BY <1>4, <2>1, <3>1, RoundedMonotone
  <2>4. Score!RateAdjustment(r) = -R(r)
    BY <1>1, <1>4 DEF Score!RateAdjustment, Score!BlockPct
  <2>5. Score!RateAdjustment(s) = IF s >= MinPct THEN 0 ELSE -R(s)
    BY <1>1, <1>2 DEF Score!RateAdjustment, Score!BlockPct
  <2> HIDE DEF R
  <2> QED
    BY <1>2, <2>2, <2>3, <2>4, <2>5
<1> QED
  BY <1>3, <1>4

\* Lower latency never costs more.
LEMMA LatencyMonotone ==
  ASSUME Score!ScoreAssumption, NEW p \in Int, NEW q \in Int, q <= p
  PROVE  /\ Score!LatencyAdjustment(p) \in Int /\ Score!LatencyAdjustment(q) \in Int
         /\ Score!LatencyAdjustment(p) <= Score!LatencyAdjustment(q)
<1> USE DEF Score!ScoreAssumption, Score!AtMost
<1> DEFINE R(x) == Score!Rounded(4 * (x - LatencyThreshold), LatencyThreshold)
<1>1. p # None /\ q # None
  OBVIOUS
<1>2. R(p) \in Int /\ R(q) \in Int /\ R(q) <= R(p)
  BY RoundedMonotone
<1>3. Score!Rounded(0, LatencyThreshold) = 0
  BY DEF Score!Rounded
<1>4. p > LatencyThreshold => R(p) >= 0
  BY <1>3, RoundedMonotone
<1>5. /\ Score!LatencyAdjustment(p) = IF p <= LatencyThreshold THEN 0 ELSE -Score!AtMost(8, R(p))
      /\ Score!LatencyAdjustment(q) = IF q <= LatencyThreshold THEN 0 ELSE -Score!AtMost(8, R(q))
  BY <1>1 DEF Score!LatencyAdjustment
<1> HIDE DEF R
<1> QED
  BY <1>2, <1>4, <1>5

\* Fewer unsettled executions never cost more.
LEMMA CapacityMonotone ==
  ASSUME Score!ScoreAssumption, NEW u \in Int, NEW v \in Int, v <= u
  PROVE  /\ Score!CapacityAdjustment(u) \in Int /\ Score!CapacityAdjustment(v) \in Int
         /\ Score!CapacityAdjustment(u) <= Score!CapacityAdjustment(v)
<1> USE DEF Score!ScoreAssumption, Score!AtMost, Score!UnsettledHighWater
<1> DEFINE R(x) == Score!Rounded(x - 20, 5)
<1>1. u # None /\ v # None
  OBVIOUS
<1>2. R(u) \in Int /\ R(v) \in Int /\ R(v) <= R(u)
  BY RoundedMonotone
<1>3. Score!Rounded(0, 5) = 0
  BY DEF Score!Rounded
<1>4. u > 20 => R(u) >= 0
  BY <1>3, RoundedMonotone
<1>5. /\ Score!CapacityAdjustment(u) = IF u <= 20 THEN 0 ELSE -Score!AtMost(6, R(u))
      /\ Score!CapacityAdjustment(v) = IF v <= 20 THEN 0 ELSE -Score!AtMost(6, R(v))
  BY <1>1 DEF Score!CapacityAdjustment
<1> HIDE DEF R
<1> QED
  BY <1>2, <1>4, <1>5

\* A younger bond never costs more.
LEMMA BondMonotone ==
  ASSUME Score!ScoreAssumption, NEW v \in MetricValues, NEW a \in Int, NEW b \in Int, b <= a
  PROVE  /\ Score!BondAdjustment(v, a) \in Int /\ Score!BondAdjustment(v, b) \in Int
         /\ Score!BondAdjustment(v, a) <= Score!BondAdjustment(v, b)
BY DEF Score!ScoreAssumption, Score!BondAdjustment, MetricValues

LEMMA AtLeastAsGoodScores ==
  ASSUME Score!ScoreAssumption, NEW m, NEW n, AtLeastAsGood(n, m), ~Score!Blocks(m.successRate),
         \A x \in {m, n} : /\ x.successRate \in MetricValues /\ x.p95 \in MetricValues
                           /\ x.unsettled \in MetricValues /\ x.bondVerified \in MetricValues
                           /\ x.bondAge \in MetricValues
  PROVE  /\ ~Score!Blocks(n.successRate)
         /\ Score!ScoreAdjustment(n) >= Score!ScoreAdjustment(m)
<1> USE DEF AtLeastAsGood, BothSampled
<1>1. /\ ~Score!Blocks(n.successRate)
      /\ Score!RateAdjustment(m.successRate) \in Int /\ Score!RateAdjustment(n.successRate) \in Int
      /\ Score!RateAdjustment(m.successRate) <= Score!RateAdjustment(n.successRate)
  <2>1. CASE m.successRate = None
    BY <2>1 DEF Score!RateAdjustment, Score!Blocks
  <2>2. CASE m.successRate # None
    BY <2>2, RateMonotone DEF MetricValues
  <2> QED
    BY <2>1, <2>2
<1>2. /\ Score!LatencyAdjustment(m.p95) \in Int /\ Score!LatencyAdjustment(n.p95) \in Int
      /\ Score!LatencyAdjustment(m.p95) <= Score!LatencyAdjustment(n.p95)
  <2>1. CASE m.p95 = None
    BY <2>1 DEF Score!LatencyAdjustment
  <2>2. CASE m.p95 # None
    BY <2>2, LatencyMonotone DEF MetricValues
  <2> QED
    BY <2>1, <2>2
<1>3. /\ Score!CapacityAdjustment(m.unsettled) \in Int
      /\ Score!CapacityAdjustment(n.unsettled) \in Int
      /\ Score!CapacityAdjustment(m.unsettled) <= Score!CapacityAdjustment(n.unsettled)
  <2>1. CASE m.unsettled = None
    BY <2>1 DEF Score!CapacityAdjustment
  <2>2. CASE m.unsettled # None
    BY <2>2, CapacityMonotone DEF MetricValues
  <2> QED
    BY <2>1, <2>2
<1>4. /\ Score!BondAdjustment(m.bondVerified, m.bondAge) \in Int
      /\ Score!BondAdjustment(n.bondVerified, n.bondAge) \in Int
      /\ Score!BondAdjustment(m.bondVerified, m.bondAge)
           <= Score!BondAdjustment(n.bondVerified, n.bondAge)
  <2>1. CASE m.bondAge = None
    BY <2>1 DEF Score!BondAdjustment
  <2>2. CASE m.bondAge # None
    BY <2>2, BondMonotone DEF MetricValues
  <2> QED
    BY <2>1, <2>2
<1> QED
  BY <1>1, <1>2, <1>3, <1>4 DEF Score!ScoreAdjustment

\* Better metrics let an anchor in where worse ones did, and never lower its score, for
\* every minimum rate and latency threshold that can be configured (operator-metrics-cache.ts).
THEOREM BetterScores == Spec => []BetterNeverScoresWorse
<1> DEFINE Scored == part = "score" => x1 \in ScoredMetrics
<1>1. Init => Scored
  BY DEF Init, ScoreInit
<1>2. Scored /\ [Next]_vars => Scored'
  BY DEF Next, vars, MetricsStep, StreamStep, SimsStep, AgentStep, ProcessStep, AccessStep,
         RouterStep, LimitsStep, NamingStep, SweepStep, Rest14, Rest10, Rest9, Rest8, Rest6,
         Rest5, Rest4
<1>3. Scored => BetterNeverScoresWorse
  <2> SUFFICES ASSUME Scored, part = "score", NEW m \in ScoredMetrics, AtLeastAsGood(m, x1),
                      ~Score!Blocks(x1.successRate)
               PROVE  /\ ~Score!Blocks(m.successRate)
                      /\ Score!ScoreAdjustment(m) >= Score!ScoreAdjustment(x1)
    BY DEF BetterNeverScoresWorse
  <2>1. x1 \in ScoredMetrics /\ m \in ScoredMetrics
    OBVIOUS
  <2>2. \A x \in ScoredMetrics :
          /\ x.successRate \in MetricValues /\ x.p95 \in MetricValues
          /\ x.unsettled \in MetricValues /\ x.bondVerified \in MetricValues
          /\ x.bondAge \in MetricValues
    BY ComponentsAssumption
  <2> QED
    BY <2>1, <2>2, ComponentsAssumption, AtLeastAsGoodScores
<1> QED
  BY <1>1, <1>2, <1>3, PTL DEF Spec

----------------------------------------------------------------------------
(* Policy evaluation *)

LEMMA LimitsRuns ==
  Spec => \/ [](part # "limits")
          \/ ([](part = "limits") /\ Limits!Spec)
<1>1. (part = "limits") /\ Init => Limits!Init
  BY DEF Init, LimitsInit
<1>2. (part = "limits") /\ [Next]_vars => [Limits!Next]_(Limits!vars)
  BY DEF Next, vars, MetricsStep, StreamStep, SimsStep, AgentStep, ProcessStep, AccessStep,
         RouterStep, LimitsStep, NamingStep, SweepStep, Limits!vars, Limits!handlerVars,
         Limits!execVars
<1>3. [Next]_vars => ((part = "limits") <=> (part = "limits")')
  BY PartStays
<1>4. (part # "limits") <=> ~(part = "limits")
  OBVIOUS
<1> QED
  BY <1>1, <1>2, <1>3, <1>4, PTL DEF Spec, Limits!Spec

LEMMA NamingRuns ==
  Spec => \/ [](part # "naming")
          \/ ([](part = "naming") /\ Naming!Spec)
<1>1. (part = "naming") /\ Init => Naming!Init
  BY DEF Init, NamingInit
<1>2. (part = "naming") /\ [Next]_vars => [Naming!Next]_(Naming!vars)
  BY DEF Next, vars, MetricsStep, StreamStep, SimsStep, AgentStep, ProcessStep, AccessStep,
         RouterStep, LimitsStep, NamingStep, SweepStep, Naming!vars, Naming!handlerVars,
         Naming!execVars
<1>3. [Next]_vars => ((part = "naming") <=> (part = "naming")')
  BY PartStays
<1>4. (part # "naming") <=> ~(part = "naming")
  OBVIOUS
<1> QED
  BY <1>1, <1>2, <1>3, <1>4, PTL DEF Spec, Naming!Spec

\* The first row of an execution goes over no limit its decision was checked against,
\* unless another row came in between (run.ts:1424, daily-trades.ts:10).
THEOREM CapsAreKept == Spec => CapsHoldAlone
<1>1. Limits!Spec => [][Limits!CapsHoldAlone]_(Limits!vars)
  BY ComponentsAssumption, Limits!CapsAreKept
<1>2. (part = "limits") /\ [Limits!CapsHoldAlone]_(Limits!vars)
        => [part = "limits" => Limits!CapsHoldAlone]_vars
  BY DEF vars, Limits!vars, Limits!execVars, Limits!CapsHoldAlone
<1>3. ~(part = "limits") => [part = "limits" => Limits!CapsHoldAlone]_vars
  OBVIOUS
<1>4. (part # "limits") <=> ~(part = "limits")
  OBVIOUS
<1> QED
  BY <1>1, <1>2, <1>3, <1>4, LimitsRuns, PTL DEF CapsHoldAlone

\* A payload that nobody replaced by an older one names the pack of the latest request
\* and is attributed to the pack of the latest decision (intents.ts:183, run.ts:1520).
THEOREM PayloadStaysCurrent == Spec => []PayloadIsCurrent
<1>1. Naming!Spec => []Naming!PayloadIsCurrent
  BY ComponentsAssumption, Naming!PayloadStaysCurrent
<1>2. PayloadIsCurrent <=> (part = "naming" => Naming!PayloadIsCurrent)
  BY DEF PayloadIsCurrent
<1>3. (part # "naming") <=> ~(part = "naming")
  OBVIOUS
<1> QED
  BY <1>1, <1>2, <1>3, NamingRuns, PTL

----------------------------------------------------------------------------
(* Policy engine *)

\* A pack leaves the registered rules rules, and enables or disables them by its items
\* alone.
LEMMA RulesStay ==
  ASSUME NEW p, NEW r \in Engine!RuleIds
  PROVE  /\ r \in DOMAIN Engine!ApplyPack(Engine!NewEngine, p)
         /\ Engine!ApplyPack(Engine!NewEngine, p)[r] = Engine!Toggled(Engine!NewEngine, p.rules)[r]
         /\ Engine!ApplyPack(Engine!NewEngine, p)[r].kind = "rule"
<1> DEFINE E == Engine!Toggled(Engine!NewEngine, p.rules)
<1>1. DOMAIN E = Engine!RuleIds
  BY DEF Engine!Toggled, Engine!NewEngine
<1>2. E[r].kind = "rule"
  BY DEF Engine!Toggled, Engine!NewEngine, Engine!RuleEntry
<1> HIDE DEF E
<1>3. /\ Engine!Registered(E, p.compositions)[r] = E[r]
      /\ r \in DOMAIN Engine!Registered(E, p.compositions)
  BY <1>1 DEF Engine!Registered, Engine!Accepted, Engine!Has
<1> QED
  BY <1>2, <1>3 DEF Engine!ApplyPack, E

\* Without compositions there is nothing else.
LEMMA OnlyRules ==
  ASSUME NEW p, p.compositions = <<>>
  PROVE  DOMAIN Engine!ApplyPack(Engine!NewEngine, p) = Engine!RuleIds
<1> DEFINE E == Engine!Toggled(Engine!NewEngine, p.rules)
<1>1. DOMAIN E = Engine!RuleIds
  BY DEF Engine!Toggled, Engine!NewEngine
<1> HIDE DEF E
<1>2. DOMAIN Engine!Registered(E, <<>>) = Engine!RuleIds
  BY <1>1 DEF Engine!Registered
<1> QED
  BY <1>2 DEF Engine!ApplyPack, E

LEMMA CustomOfRules ==
  ASSUME NEW p, NEW q, p.rules = q.rules
  PROVE  Engine!CustomConfig(p) = Engine!CustomConfig(q)
BY DEF Engine!CustomConfig

\* What a pack with compositions allows, it allows without them.
LEMMA FewerEntriesAllow ==
  ASSUME NEW p, NEW q, NEW c, NEW g, q.rules = p.rules, q.compositions = <<>>,
         Engine!Decision(Engine!ApplyPack(Engine!NewEngine, p), c, g) = "allowed"
  PROVE  Engine!Decision(Engine!ApplyPack(Engine!NewEngine, q), c, g) = "allowed"
<1> DEFINE P == Engine!ApplyPack(Engine!NewEngine, p)
           Q == Engine!ApplyPack(Engine!NewEngine, q)
<1>1. DOMAIN Q = Engine!RuleIds
  BY OnlyRules
<1>2. \A r \in Engine!RuleIds :
        r \in DOMAIN P /\ P[r] = Q[r] /\ P[r].kind = "rule" /\ Q[r].kind = "rule"
  BY RulesStay
<1> HIDE DEF P, Q
<1>3. \A id \in Engine!Enabled(P) : Engine!EntryVerdict(P, c, g, id) = "pass"
  BY DEF Engine!Decision, P
<1>4. \A id \in Engine!Enabled(Q) :
        /\ id \in Engine!Enabled(P)
        /\ Engine!EntryVerdict(Q, c, g, id) = Engine!EntryVerdict(P, c, g, id)
  BY <1>1, <1>2 DEF Engine!Enabled, Engine!EntryVerdict
<1>5. {Engine!EntryVerdict(Q, c, g, id) : id \in Engine!Enabled(Q)} \subseteq {"pass"}
  BY <1>3, <1>4
<1>6. Engine!Decision(Q, c, g) = "allowed"
  BY <1>5 DEF Engine!Decision
<1> QED
  BY <1>6 DEF Q

LEMMA PolicyStays ==
  Spec => \/ [](part # "policy")
          \/ ([](part = "policy") /\ [](x1 \in PolicyPacks))
<1>1. (part = "policy") /\ Init => x1 \in PolicyPacks
  BY DEF Init, PolicyInit
<1>2. (part = "policy") /\ [Next]_vars => UNCHANGED x1
  BY DEF Next, vars, MetricsStep, StreamStep, SimsStep, AgentStep, ProcessStep, AccessStep,
         RouterStep, LimitsStep, NamingStep, SweepStep
<1>3. [Next]_vars => ((part = "policy") <=> (part = "policy")')
  BY PartStays
<1>4. (part # "policy") <=> ~(part = "policy")
  OBVIOUS
<1>5. x1 \in PolicyPacks /\ UNCHANGED x1 => (x1 \in PolicyPacks)'
  OBVIOUS
<1> QED
  BY <1>1, <1>2, <1>3, <1>4, <1>5, PTL DEF Spec

\* The compositions of a pack give no permission that its rules alone refuse, however
\* they are nested (engine.ts:232, engine.ts:128).
THEOREM CompositionsRestrict == Spec => []CompositionsOnlyRestrict
<1>1. ASSUME x1 \in PolicyPacks, Decided(x1) = "allowed"
      PROVE  Decided([x1 EXCEPT !.compositions = <<>>]) = "allowed"
  <2> DEFINE q == [x1 EXCEPT !.compositions = <<>>]
  <2>1. x1 = [rules |-> x1.rules, compositions |-> x1.compositions] /\ x1 # None /\ q # None
    BY <1>1, ComponentsAssumption
  <2>2. q.rules = x1.rules /\ q.compositions = <<>>
    BY <2>1
  <2> HIDE DEF q
  <2>3. Engine!CustomConfig(q) = Engine!CustomConfig(x1)
    BY <2>2, CustomOfRules
  <2>4. \A p : p # None => Decided(p) = Engine!Decision(Engine!ApplyPack(Engine!NewEngine, p), x2,
                 Engine!EffectiveConfig(Engine!DefaultConfig, Engine!CustomConfig(p)))
    BY DEF Decided, Engine!Decide
  <2>5. Decided(q) = "allowed"
    BY <1>1, <2>1, <2>2, <2>3, <2>4, FewerEntriesAllow
  <2> QED
    BY <2>5 DEF q
<1>2. CompositionsOnlyRestrict <=> (part = "policy" =>
        (Decided(x1) = "allowed" => Decided([x1 EXCEPT !.compositions = <<>>]) = "allowed"))
  BY DEF CompositionsOnlyRestrict
<1>3. x1 \in PolicyPacks => CompositionsOnlyRestrict
  BY <1>1, <1>2
<1>4. (part # "policy") => CompositionsOnlyRestrict
  BY <1>2
<1> QED
  BY <1>3, <1>4, PolicyStays, PTL
----------------------------------------------------------------------------
(* Nested compositions.  The recursion of CompositionVerdicts ends, as there are *)
(* finitely many compositions and each one is added to `above` once; so the      *)
(* function it defines exists, and does not depend on what is above.             *)

\* The registry holds rules and finitely many compositions.
IsRegistry(E) ==
  /\ IsFiniteSet(Engine!Compositions(E))
  /\ \A e \in DOMAIN E : E[e].kind \in {"rule", "composition"}

\* f and h agree on what is below id.
AgreeBelow(E, f, S, h, T, id) ==
  \A ch \in Engine!Children(E, id) \cap Engine!Compositions(E) :
    f[S \cup {id}][ch] = h[T \cup {id}][ch]

\* f satisfies the equation of CompositionVerdicts.
Solution(E, c, g, f) ==
  f = [S \in SUBSET Engine!Compositions(E) |-> Engine!VerdictsBelow(E, c, g, f, S)]

\* A verdict depends on the verdicts of the composition's own children only.
LEMMA ChildrenDecide ==
  ASSUME NEW E, NEW c, NEW g, NEW f, NEW h, NEW S, NEW T, NEW id \in Engine!Compositions(E),
         IsRegistry(E), id \in S <=> id \in T, id \notin S => AgreeBelow(E, f, S, h, T, id)
  PROVE  Engine!VerdictsBelow(E, c, g, f, S)[id] = Engine!VerdictsBelow(E, c, g, h, T)[id]
<1> DEFINE V(F, A) == {IF E[ch].kind = "rule" THEN Engine!RuleVerdict(ch, c, g)
                       ELSE F[A \cup {id}][ch] : ch \in Engine!Children(E, id)}
<1>1. \A F, A : Engine!VerdictsBelow(E, c, g, F, A)[id] =
                  IF id \in A \/ Engine!Children(E, id) = {} THEN "fail"
                  ELSE Engine!Combine(E[id].operator, V(F, A))
  BY DEF Engine!VerdictsBelow, Engine!Visiting
<1>2. CASE id \in S
  BY <1>1, <1>2
<1>3. CASE id \notin S
  <2>1. \A ch \in Engine!Children(E, id) :
          E[ch].kind = "rule" \/ ch \in Engine!Compositions(E)
    BY DEF IsRegistry, Engine!Children, Engine!Compositions
  <2>2. V(f, S) = V(h, T)
    BY <1>3, <2>1 DEF AgreeBelow
  <2> HIDE DEF V
  <2> QED
    BY <1>1, <1>3, <2>2
<1> QED
  BY <1>2, <1>3

\* The recursion is sound: there is a function that satisfies its equation.
LEMMA VerdictsExist ==
  ASSUME NEW E, NEW c, NEW g, IsRegistry(E)
  PROVE  \E f : Solution(E, c, g, f)
<1> DEFINE C == Engine!Compositions(E)
           B(f, S) == Engine!VerdictsBelow(E, c, g, f, S)
           left(S) == Cardinality(C \ S)
           Solves(f, k) == /\ f = [S \in SUBSET C |-> f[S]]
                           /\ \A S \in SUBSET C : left(S) <= k => f[S] = B(f, S)
           Unsolved == {k \in Nat : ~\E f : Solves(f, k)}
<1>1. \A S \in SUBSET C : left(S) \in Nat
  <2>1. \A S \in SUBSET C : C \ S \in SUBSET C
    OBVIOUS
  <2> QED
    BY <2>1, FS_Subset, FS_CardinalityType DEF IsRegistry
<1>2. ASSUME NEW S \in SUBSET C, NEW id \in C \ S
      PROVE  S \cup {id} \in SUBSET C /\ left(S \cup {id}) = left(S) - 1
  <2>1. C \ (S \cup {id}) = (C \ S) \ {id} /\ C \ S \in SUBSET C
    OBVIOUS
  <2> QED
    BY <2>1, FS_Subset, FS_RemoveElement DEF IsRegistry
<1>3. \A f, S : B(f, S) = [id \in C |-> B(f, S)[id]]
  BY DEF Engine!VerdictsBelow
<1> HIDE DEF left, B
<1>4. ASSUME NEW k \in Nat, NEW f, Solves(f, k - 1)
      PROVE  \E h : Solves(h, k)
  <2> DEFINE h == [S \in SUBSET C |-> IF left(S) <= k - 1 THEN f[S] ELSE B(f, S)]
  <2>1. \A S \in SUBSET C : h[S] = IF left(S) <= k - 1 THEN f[S] ELSE B(f, S)
    OBVIOUS
  <2>2. h = [S \in SUBSET C |-> h[S]]
    OBVIOUS
  <2> HIDE DEF h
  <2>3. ASSUME NEW S \in SUBSET C, left(S) <= k
        PROVE  h[S] = B(h, S)
    <3>1. h[S] = B(f, S)
      BY <1>4, <2>1
    <3>2. ASSUME NEW id \in C
          PROVE  B(f, S)[id] = B(h, S)[id]
      <4>1. id \notin S => f[S \cup {id}] = h[S \cup {id}]
        BY <1>1, <1>2, <2>1, <2>3
      <4>2. id \notin S => AgreeBelow(E, f, S, h, S, id)
        BY <4>1 DEF AgreeBelow
      <4>3. Engine!VerdictsBelow(E, c, g, f, S)[id] = Engine!VerdictsBelow(E, c, g, h, S)[id]
        BY <4>2, ChildrenDecide
      <4> QED
        BY <4>3 DEF B
    <3> QED
      BY <1>3, <3>1, <3>2
  <2>4. Solves(h, k)
    BY <2>2, <2>3
  <2> QED
    BY <2>4
<1>5. Unsolved = {}
  <2> SUFFICES ASSUME Unsolved # {} PROVE FALSE
    OBVIOUS
  <2>1. PICK m \in Unsolved : \A k \in Unsolved : m <= k
    BY Limits!LeastExists
  <2>2. m \in Nat /\ ~\E f : Solves(f, m)
    OBVIOUS
  <2>3. \E f : Solves(f, m - 1)
    <3>1. CASE m = 0
      <4>1. Solves([S \in SUBSET C |-> {}], m - 1)
        BY <1>1, <3>1
      <4> QED
        BY <4>1
    <3>2. CASE m # 0
      <4>1. m - 1 \in Nat /\ ~(m <= m - 1)
        BY <2>2, <3>2
      <4> HIDE DEF Solves
      <4>2. (m - 1 \in Nat /\ ~\E f : Solves(f, m - 1)) => m - 1 \in Unsolved
        OBVIOUS
      <4> QED
        BY <2>1, <4>1, <4>2
    <3> QED
      BY <3>1, <3>2
  <2> QED
    BY <1>4, <2>2, <2>3
<1>6. Cardinality(C) \in Nat /\ \A S \in SUBSET C : left(S) <= Cardinality(C)
  <2>1. \A S \in SUBSET C : C \ S \in SUBSET C
    OBVIOUS
  <2> QED
    BY <2>1, FS_Subset, FS_CardinalityType DEF left, IsRegistry
<1>7. PICK f : Solves(f, Cardinality(C))
  BY <1>5, <1>6
<1>8. f = [S \in SUBSET C |-> B(f, S)]
  BY <1>6, <1>7
<1> QED
  BY <1>8 DEF B, Solution

LEMMA VerdictsEquation ==
  ASSUME NEW E, NEW c, NEW g, IsRegistry(E),
         NEW S \in SUBSET Engine!Compositions(E)
  PROVE  Engine!CompositionVerdicts(E, c, g)[S] =
           Engine!VerdictsBelow(E, c, g, Engine!CompositionVerdicts(E, c, g), S)
<1> DEFINE F == Engine!CompositionVerdicts(E, c, g)
<1>1. \E f : Solution(E, c, g, f)
  BY VerdictsExist
<1>2. Solution(E, c, g, F)
  BY <1>1 DEF Engine!CompositionVerdicts, Solution
<1> HIDE DEF F
<1>3. F[S] = Engine!VerdictsBelow(E, c, g, F, S)
  BY <1>2 DEF Solution
<1> QED
  BY <1>3 DEF F

\* Where no composition is a descendant of itself, what is above a composition does not
\* matter for its verdict.
LEMMA AboveIsIrrelevant ==
  ASSUME NEW E, NEW c, NEW g, IsRegistry(E),
         NEW rank \in [Engine!Compositions(E) -> Nat],
         \A id \in Engine!Compositions(E) :
           \A ch \in Engine!Children(E, id) \cap Engine!Compositions(E) : rank[ch] < rank[id],
         NEW id \in Engine!Compositions(E), NEW S \in SUBSET Engine!Compositions(E),
         \A a \in S : rank[a] > rank[id]
  PROVE  Engine!CompositionVerdicts(E, c, g)[S][id] = Engine!CompositionVerdicts(E, c, g)[{}][id]
<1> DEFINE C == Engine!Compositions(E)
           F == Engine!CompositionVerdicts(E, c, g)
           Higher(d, A) == \A a \in A : rank[a] > rank[d]
           Bad(d) == \E A \in SUBSET C : Higher(d, A) /\ F[A][d] # F[{}][d]
           R == {rank[d] : d \in {d \in C : Bad(d)}}
<1>1. \A A \in SUBSET C : F[A] = Engine!VerdictsBelow(E, c, g, F, A)
  BY VerdictsEquation
<1> HIDE DEF F
<1>2. R = {}
  <2> SUFFICES ASSUME R # {} PROVE FALSE
    OBVIOUS
  <2>1. R \in SUBSET Nat
    OBVIOUS
  <2>2. PICK m \in R : \A k \in R : m <= k
    BY <2>1, Limits!LeastExists
  <2>3. PICK d \in C : Bad(d) /\ m = rank[d]
    OBVIOUS
  <2>4. PICK A \in SUBSET C : Higher(d, A) /\ F[A][d] # F[{}][d]
    BY <2>3
  <2>5. d \notin A /\ d \notin {}
    BY <2>4
  <2>6. ASSUME NEW ch \in Engine!Children(E, d) \cap C
        PROVE  F[A \cup {d}][ch] = F[{} \cup {d}][ch]
    <3>1. rank[ch] < rank[d] /\ rank[ch] \in Nat /\ ~Bad(ch)
      <4>1. rank[ch] < rank[d] /\ rank[ch] \in Nat
        OBVIOUS
      <4> QED
        BY <2>2, <2>3, <4>1
    <3>2. /\ A \cup {d} \in SUBSET C /\ Higher(ch, A \cup {d})
          /\ {} \cup {d} \in SUBSET C /\ Higher(ch, {} \cup {d})
      BY <2>4, <3>1
    <3> QED
      BY <3>1, <3>2
  <2>7. Engine!VerdictsBelow(E, c, g, F, A)[d] = Engine!VerdictsBelow(E, c, g, F, {})[d]
    <3>1. AgreeBelow(E, F, A, F, {}, d)
      BY <2>6 DEF AgreeBelow
    <3> QED
      BY <2>5, <3>1, ChildrenDecide
  <2> QED
    BY <1>1, <2>4, <2>7
<1>3. ~Bad(id)
  BY <1>2
<1> QED
  BY <1>3 DEF F

LEMMA NestingHolds ==
  ASSUME NEW E, NEW c, NEW g, IsRegistry(E),
         NEW rank \in [Engine!Compositions(E) -> Nat],
         \A id \in Engine!Compositions(E) :
           \A ch \in Engine!Children(E, id) \cap Engine!Compositions(E) : rank[ch] < rank[id],
         NEW id \in Engine!Compositions(E), Engine!Children(E, id) # {}
  PROVE  Engine!EntryVerdict(E, c, g, id) =
           Engine!Combine(E[id].operator,
                          {Engine!EntryVerdict(E, c, g, ch) : ch \in Engine!Children(E, id)})
<1> DEFINE C == Engine!Compositions(E)
           F == Engine!CompositionVerdicts(E, c, g)
           K == Engine!Children(E, id)
<1>1. F[{}] = Engine!VerdictsBelow(E, c, g, F, {})
  BY VerdictsEquation
<1>2. \A ch \in K \cap C : F[{} \cup {id}][ch] = F[{}][ch]
  <2> SUFFICES ASSUME NEW ch \in K \cap C PROVE F[{} \cup {id}][ch] = F[{}][ch]
    OBVIOUS
  <2>1. {id} \in SUBSET C /\ \A a \in {id} : rank[a] > rank[ch]
    OBVIOUS
  <2>2. F[{id}][ch] = F[{}][ch]
    BY <2>1, AboveIsIrrelevant
  <2> QED
    BY <2>2
<1> HIDE DEF F
<1>3. F[{}][id] = Engine!Combine(E[id].operator,
                    {IF E[ch].kind = "rule" THEN Engine!RuleVerdict(ch, c, g)
                     ELSE F[{} \cup {id}][ch] : ch \in K})
  BY <1>1 DEF Engine!VerdictsBelow, Engine!Visiting
<1>4. /\ \A ch \in K : E[ch].kind = "rule" \/ ch \in C
      /\ \A ch \in C : E[ch].kind # "rule"
  BY DEF IsRegistry, Engine!Children, Engine!Compositions
<1>5. \A ch : Engine!EntryVerdict(E, c, g, ch) =
                IF E[ch].kind = "rule" THEN Engine!RuleVerdict(ch, c, g) ELSE F[{}][ch]
  BY DEF Engine!EntryVerdict, F
<1>6. {IF E[ch].kind = "rule" THEN Engine!RuleVerdict(ch, c, g)
       ELSE F[{} \cup {id}][ch] : ch \in K} = {Engine!EntryVerdict(E, c, g, ch) : ch \in K}
  <2>1. \A ch \in K : (IF E[ch].kind = "rule" THEN Engine!RuleVerdict(ch, c, g)
                       ELSE F[{} \cup {id}][ch]) = Engine!EntryVerdict(E, c, g, ch)
    <3> SUFFICES ASSUME NEW ch \in K
                 PROVE (IF E[ch].kind = "rule" THEN Engine!RuleVerdict(ch, c, g)
                        ELSE F[{} \cup {id}][ch]) = Engine!EntryVerdict(E, c, g, ch)
      OBVIOUS
    <3> HIDE DEF K
    <3>1. CASE E[ch].kind = "rule"
      BY <1>5, <3>1
    <3>2. CASE E[ch].kind # "rule"
      BY <1>2, <1>4, <1>5, <3>2
    <3> QED
      BY <3>1, <3>2
  <2> HIDE DEF K
  <2> QED
    BY <2>1
<1> QED
  BY <1>3, <1>4, <1>5, <1>6

\* What a pack makes of the default rules is a registry.
LEMMA PackedIsRegistry ==
  ASSUME NEW p, IsFiniteSet(DOMAIN p.compositions)
  PROVE  IsRegistry(Engine!ApplyPack(Engine!NewEngine, p))
<1> DEFINE N == Engine!Toggled(Engine!NewEngine, p.rules)
           comps == p.compositions
           acc == {i \in DOMAIN comps : Engine!Accepted(N, comps[i])}
           added == {comps[i].ruleId : i \in acc}
           E == Engine!Registered(N, comps)
<1>1. \A e \in DOMAIN N : N[e].kind = "rule"
  BY DEF Engine!Toggled, Engine!NewEngine, Engine!RuleEntry
<1> HIDE DEF N
<1>2. DOMAIN E = DOMAIN N \cup added
  BY DEF Engine!Registered
<1>3. \A e \in added : E[e].kind = "composition"
  BY DEF Engine!Registered, Engine!CompositionEntry
<1>4. \A e \in DOMAIN N \ added : E[e].kind = "rule"
  BY <1>1 DEF Engine!Registered
<1>5. IsFiniteSet(added)
  <2>1. acc \in SUBSET (DOMAIN comps)
    OBVIOUS
  <2>2. IsFiniteSet(acc)
    BY <2>1, FS_Subset
  <2>3. [i \in acc |-> comps[i].ruleId] \in Surjection(acc, added)
    BY DEF Surjection
  <2> HIDE DEF acc, added
  <2> QED
    BY <2>2, <2>3, FS_Surjection
<1> HIDE DEF E, added
<1>6. Engine!Compositions(E) \in SUBSET added
  BY <1>2, <1>4 DEF Engine!Compositions
<1>7. IsFiniteSet(Engine!Compositions(E))
  BY <1>5, <1>6, FS_Subset
<1>8. \A e \in DOMAIN E : E[e].kind \in {"rule", "composition"}
  BY <1>2, <1>3, <1>4
<1>9. IsRegistry(E)
  BY <1>7, <1>8 DEF IsRegistry
<1> QED
  BY <1>9 DEF E, N, Engine!ApplyPack

\* Unless compositions refer to each other in a cycle, a composition that is a child of
\* another counts there for what it is on its own, whatever its place and however often
\* it is a child: the set of the compositions above, which stops a cycle, changes no
\* other verdict (engine.ts:374).
THEOREM NestingIsSound == Spec => []NestingIsTransparent
<1>1. ASSUME x1 \in PolicyPacks, Acyclic, NEW id \in Engine!Compositions(Packed),
             Engine!Children(Packed, id) # {}
      PROVE  VerdictOf(id) = Engine!Combine(Packed[id].operator,
                               {VerdictOf(ch) : ch \in Engine!Children(Packed, id)})
  <2> DEFINE C == Engine!Compositions(Packed)
  <2>1. IsFiniteSet(DOMAIN x1.compositions)
    BY <1>1, ComponentsAssumption
  <2>2. IsRegistry(Packed)
    BY <2>1, PackedIsRegistry DEF Packed
  <2>3. Cardinality(C) \in Nat
    BY <2>2, FS_CardinalityType DEF IsRegistry
  <2>4. PICK rank \in [C -> 1..Cardinality(C)] :
          \A d \in C : \A i \in DOMAIN Packed[d].children :
            Packed[d].children[i] \in C => rank[Packed[d].children[i]] < rank[d]
    BY <1>1 DEF Acyclic
  <2>5. rank \in [C -> Nat]
    BY <2>3, <2>4
  <2>6. \A d \in C : \A ch \in Engine!Children(Packed, d) \cap C : rank[ch] < rank[d]
    BY <2>4 DEF Engine!Children, Engine!ToSet
  <2>7. Engine!EntryVerdict(Packed, x2, Config, id) =
          Engine!Combine(Packed[id].operator,
            {Engine!EntryVerdict(Packed, x2, Config, ch) : ch \in Engine!Children(Packed, id)})
    BY <1>1, <2>2, <2>5, <2>6, NestingHolds
  <2> QED
    BY <2>7 DEF VerdictOf
<1>2. x1 \in PolicyPacks => NestingIsTransparent
  BY <1>1 DEF NestingIsTransparent
<1>3. (part # "policy") => NestingIsTransparent
  BY DEF NestingIsTransparent
<1> QED
  BY <1>2, <1>3, PolicyStays, PTL

----------------------------------------------------------------------------
(* Operator metrics: x1 is window, x2 unsettled, x3 samples, x4 cache, x5 route, x6 agg *)

LEMMA MetricsStarts ==
  ASSUME Metrics!MetricsAssumption, Metrics!Init PROVE Metrics!TypeOK
<1>1. None \in Metrics!Values
  BY DEF Metrics!Values
<1>2. x1 \in [Adapters -> Seq(BOOLEAN)] /\ \A a \in Adapters : Len(x1[a]) <= MaxOutcomes
  BY DEF Metrics!Init, Metrics!MetricsAssumption
<1>3. x5 \in [RouteJobs -> Metrics!RouteTypes]
  BY <1>1 DEF Metrics!Init, Metrics!IdleRoute, Metrics!Ask, Metrics!FetchTypes,
              Metrics!RouteTypes
<1>4. x6 \in [pc : {"idle", "insert", "invalidate"}, rates : [Adapters -> Metrics!Values],
              todo : SUBSET Adapters, touched : SUBSET Adapters]
  BY <1>1 DEF Metrics!Init, Metrics!IdleAgg
<1>5. /\ x3 \in [Adapters -> Metrics!Values]
      /\ x4 \in [Adapters -> [entry : BOOLEAN, rate : Metrics!Values]]
  BY <1>1 DEF Metrics!Init, Metrics!NoEntry
<1> QED
  BY <1>2, <1>3, <1>4, <1>5 DEF Metrics!Init, Metrics!TypeOK

LEMMA PercentType ==
  ASSUME NEW n \in Nat \ {0}, NEW s \in 0..n
  PROVE  (100 * s) \div n \in 0..100
<1> DEFINE q == (100 * s) \div n
<1>1. q \in Int /\ n * q <= 100 * s /\ 100 * s < n * q + n
  OBVIOUS
<1> HIDE DEF q
<1>2. ASSUME NEW k \in Nat PROVE n * k \in Nat
  OBVIOUS
<1>3. ~(q > 100)
  <2> SUFFICES ASSUME q > 100 PROVE FALSE
    OBVIOUS
  <2>1. q - 101 \in Nat /\ n * q = n * (q - 101) + 101 * n
    BY <1>1
  <2> QED
    BY <1>1, <1>2, <2>1
<1>4. ~(q < 0)
  <2> SUFFICES ASSUME q < 0 PROVE FALSE
    OBVIOUS
  <2>1. -1 - q \in Nat /\ n * q = -(n * (-1 - q)) - n
    BY <1>1
  <2> QED
    BY <1>1, <1>2, <2>1
<1> QED
  BY <1>1, <1>3, <1>4 DEF q

\* A success rate is a percentage.
LEMMA SuccessRateType ==
  ASSUME NEW w \in Seq(BOOLEAN), w # <<>>
  PROVE  Metrics!SuccessRate(w) \in Metrics!Values
<1> DEFINE S == {i \in DOMAIN w : w[i]}
           s == Metrics!Cardinality(S)
           n == Len(w)
<1>1. n \in Nat \ {0} /\ DOMAIN w = 1..n
  OBVIOUS
<1>2. S \in SUBSET (1..n)
  BY <1>1
<1>3. s = Cardinality(S)
  BY DEF Metrics!Cardinality, Cardinality
<1>4. IsFiniteSet(1..n) /\ Cardinality(1..n) = n
  BY <1>1, FS_Interval
<1>5. s \in 0..n
  <2>1. IsFiniteSet(S) /\ Cardinality(S) <= n
    BY <1>2, <1>4, FS_Subset
  <2> QED
    BY <1>1, <1>3, <2>1, FS_CardinalityType
<1>6. Metrics!SuccessRate(w) = (100 * s) \div n
  BY DEF Metrics!SuccessRate, Metrics!Successes
<1> HIDE DEF s, n
<1>7. (100 * s) \div n \in 0..100
  BY <1>1, <1>5, PercentType
<1> QED
  BY <1>6, <1>7 DEF Metrics!Values, Metrics!Rates

\* The outcomes of an anchor stay a bounded sequence.
LEMMA OutcomeType ==
  ASSUME Metrics!MetricsAssumption, Metrics!TypeOK, NEW a \in Adapters, NEW ok \in BOOLEAN,
         Metrics!Outcome(a, ok)
  PROVE  x1' \in [Adapters -> Seq(BOOLEAN)] /\ \A b \in Adapters : Len(x1'[b]) <= MaxOutcomes
<1>1. CASE UNCHANGED x1
  BY <1>1 DEF Metrics!TypeOK
<1>2. CASE Len(x1[a]) < MaxOutcomes /\ x1' = [x1 EXCEPT ![a] = Append(@, ok)]
  <2>1. x1[a] \in Seq(BOOLEAN) /\ MaxOutcomes \in Nat
    BY DEF Metrics!TypeOK, Metrics!MetricsAssumption
  <2>2. Append(x1[a], ok) \in Seq(BOOLEAN) /\ Len(Append(x1[a], ok)) <= MaxOutcomes
    BY <1>2, <2>1
  <2> QED
    BY <1>2, <2>2 DEF Metrics!TypeOK
<1> QED
  BY <1>1, <1>2 DEF Metrics!Outcome

LEMMA RouteStepKeeps ==
  ASSUME Metrics!MetricsAssumption, Metrics!TypeOK, NEW j \in RouteJobs, Metrics!RouteStep(j)
  PROVE  Metrics!TypeOK'
<1> USE DEF Metrics!TypeOK
<1>1. None \in Metrics!Values
  BY DEF Metrics!Values
<1>2. ASSUME NEW a \in Adapters, NEW f \in Metrics!FetchTypes, Metrics!Fetched(j, a, f)
      PROVE  x5' \in [RouteJobs -> Metrics!RouteTypes]
  <2>1. x5[j] \in Metrics!RouteTypes
    OBVIOUS
  <2>2. [x5[j] EXCEPT !.fetch[a] = f] \in Metrics!RouteTypes
    BY <2>1 DEF Metrics!RouteTypes
  <2> QED
    BY <1>2, <2>2 DEF Metrics!Fetched
<1>3. \A a \in Adapters : x5[j].fetch[a].rate \in Metrics!Values
  <2>1. x5[j] \in Metrics!RouteTypes
    OBVIOUS
  <2> QED
    BY <2>1 DEF Metrics!RouteTypes, Metrics!FetchTypes
<1>4. CASE Metrics!RouteStart(j)
  <2>1. x5[j] \in Metrics!RouteTypes /\ x5[j].pc = "idle"
    BY <1>4 DEF Metrics!RouteStart
  <2>2. [x5[j] EXCEPT !.pc = "fetch"] \in Metrics!RouteTypes
    BY <2>1 DEF Metrics!RouteTypes
  <2> QED
    BY <1>4, <2>2 DEF Metrics!RouteStart
<1>5. CASE Metrics!RoutePlan(j)
  <2>1. \A a \in Adapters :
          [Metrics!IdleRoute EXCEPT !.pc = "execute", !.adapter = a] \in Metrics!RouteTypes
    BY <1>1 DEF Metrics!IdleRoute, Metrics!Ask, Metrics!FetchTypes, Metrics!RouteTypes
  <2>2. Metrics!IdleRoute \in Metrics!RouteTypes
    BY <1>1 DEF Metrics!IdleRoute, Metrics!Ask, Metrics!FetchTypes, Metrics!RouteTypes
  <2>3. x5' \in [RouteJobs -> Metrics!RouteTypes]
    BY <1>5, <2>1, <2>2 DEF Metrics!RoutePlan, Metrics!Usable
  <2> QED
    BY <1>5, <2>3 DEF Metrics!RoutePlan
<1>6. ASSUME NEW a \in Adapters, Metrics!CacheGet(j, a)
      PROVE  Metrics!TypeOK'
  <2>1. Metrics!Have(x4[a].rate) \in Metrics!FetchTypes /\ Metrics!Missed \in Metrics!FetchTypes
    BY <1>1 DEF Metrics!Have, Metrics!Missed, Metrics!FetchTypes
  <2>2. x5' \in [RouteJobs -> Metrics!RouteTypes]
    BY <1>2, <1>6, <2>1 DEF Metrics!CacheGet
  <2> QED
    BY <1>6, <2>2 DEF Metrics!CacheGet
<1>7. ASSUME NEW a \in Adapters, Metrics!ReadSamples(j, a)
      PROVE  Metrics!TypeOK'
  <2>1. Metrics!Read(x3[a]) \in Metrics!FetchTypes
    BY DEF Metrics!Read, Metrics!FetchTypes
  <2>2. x5' \in [RouteJobs -> Metrics!RouteTypes]
    BY <1>2, <1>7, <2>1 DEF Metrics!ReadSamples
  <2> QED
    BY <1>7, <2>2 DEF Metrics!ReadSamples
<1>8. ASSUME NEW a \in Adapters, Metrics!CacheSet(j, a)
      PROVE  Metrics!TypeOK'
  <2>1. /\ Metrics!Have(x5[j].fetch[a].rate) \in Metrics!FetchTypes
        /\ Metrics!Entry(x5[j].fetch[a].rate) \in [entry : BOOLEAN, rate : Metrics!Values]
    BY <1>3 DEF Metrics!Have, Metrics!Entry, Metrics!FetchTypes
  <2>2. x5' \in [RouteJobs -> Metrics!RouteTypes]
    BY <1>2, <1>8, <2>1 DEF Metrics!CacheSet
  <2>3. x4' \in [Adapters -> [entry : BOOLEAN, rate : Metrics!Values]]
    BY <1>8, <2>1 DEF Metrics!CacheSet
  <2> QED
    BY <1>8, <2>2, <2>3 DEF Metrics!CacheSet
<1>9. ASSUME NEW a \in Adapters, Metrics!FetchFails(j, a)
      PROVE  Metrics!TypeOK'
  <2>1. Metrics!Have(None) \in Metrics!FetchTypes
    BY <1>1 DEF Metrics!Have, Metrics!FetchTypes
  <2>2. x5' \in [RouteJobs -> Metrics!RouteTypes]
    BY <1>2, <1>9, <2>1 DEF Metrics!FetchFails
  <2> QED
    BY <1>9, <2>2 DEF Metrics!FetchFails
<1>10. ASSUME NEW ok \in BOOLEAN, Metrics!Execute(j, ok)
       PROVE  Metrics!TypeOK'
  <2>1. x5' \in [RouteJobs -> Metrics!RouteTypes]
    <3>1. Metrics!IdleRoute \in Metrics!RouteTypes
      BY <1>1 DEF Metrics!IdleRoute, Metrics!Ask, Metrics!FetchTypes, Metrics!RouteTypes
    <3> QED
      BY <1>10, <3>1 DEF Metrics!Execute
  <2>2. /\ x5[j].adapter \in Adapters /\ Metrics!Settles(x5[j].adapter, ok)
        /\ Metrics!Outcome(x5[j].adapter, ok)
    <3>1. x5[j] \in Metrics!RouteTypes
      OBVIOUS
    <3> QED
      BY <1>10, <3>1 DEF Metrics!Execute, Metrics!RouteTypes
  <2>3. x1' \in [Adapters -> Seq(BOOLEAN)] /\ \A a \in Adapters : Len(x1'[a]) <= MaxOutcomes
    BY <2>2, OutcomeType
  <2>4. x2' \subseteq Adapters
    BY <2>2 DEF Metrics!Settles
  <2> QED
    BY <1>10, <2>1, <2>3, <2>4 DEF Metrics!Execute
<1> QED
  BY <1>4, <1>5, <1>6, <1>7, <1>8, <1>9, <1>10 DEF Metrics!RouteStep

LEMMA MetricsKeep ==
  ASSUME Metrics!MetricsAssumption, Metrics!TypeOK, [Metrics!Next]_(Metrics!vars)
  PROVE  Metrics!TypeOK'
<1> USE DEF Metrics!TypeOK
<1>1. None \in Metrics!Values
  BY DEF Metrics!Values
<1>2. CASE UNCHANGED Metrics!vars
  BY <1>2 DEF Metrics!vars
<1>3. CASE Metrics!Aggregate
  <2>1. \A a \in Adapters : x1[a] # <<>> => Metrics!SuccessRate(x1[a]) \in Metrics!Values
    BY SuccessRateType
  <2>2. x6' \in [pc : {"idle", "insert", "invalidate"}, rates : [Adapters -> Metrics!Values],
                 todo : SUBSET Adapters, touched : SUBSET Adapters]
    BY <1>1, <1>3, <2>1 DEF Metrics!Aggregate
  <2> QED
    BY <1>3, <2>2 DEF Metrics!Aggregate
<1>4. CASE Metrics!Inserted
  BY <1>4 DEF Metrics!Inserted
<1>5. CASE Metrics!AggregateEnds
  BY <1>1, <1>5 DEF Metrics!AggregateEnds, Metrics!IdleAgg
<1>6. ASSUME NEW a \in Adapters, Metrics!InsertSample(a)
      PROVE  Metrics!TypeOK'
  BY <1>6 DEF Metrics!InsertSample
<1>7. ASSUME NEW a \in Adapters, Metrics!Invalidate(a)
      PROVE  Metrics!TypeOK'
  <2>1. x4' \in [Adapters -> [entry : BOOLEAN, rate : Metrics!Values]]
    <3>1. Metrics!NoEntry \in [entry : BOOLEAN, rate : Metrics!Values]
      BY <1>1 DEF Metrics!NoEntry
    <3>2. x4' = x4 \/ x4' = [x4 EXCEPT ![a] = Metrics!NoEntry]
      BY <1>7 DEF Metrics!Invalidate
    <3> QED
      BY <3>1, <3>2
  <2>2. x6' \in [pc : {"idle", "insert", "invalidate"}, rates : [Adapters -> Metrics!Values],
                 todo : SUBSET Adapters, touched : SUBSET Adapters]
    BY <1>7 DEF Metrics!Invalidate
  <2> QED
    BY <1>7, <2>1, <2>2 DEF Metrics!Invalidate
<1>8. ASSUME NEW a \in Adapters, Metrics!OutcomeAges(a)
      PROVE  Metrics!TypeOK'
  <2>1. /\ Tail(x1[a]) \in Seq(BOOLEAN) /\ Len(Tail(x1[a])) <= MaxOutcomes
    BY <1>8 DEF Metrics!OutcomeAges, Metrics!MetricsAssumption
  <2> QED
    BY <1>8, <2>1 DEF Metrics!OutcomeAges
<1>9. ASSUME NEW a \in Adapters, Metrics!EntryExpires(a)
      PROVE  Metrics!TypeOK'
  BY <1>1, <1>9 DEF Metrics!EntryExpires, Metrics!NoEntry
<1>10. ASSUME NEW a \in Adapters, NEW ok \in BOOLEAN, Metrics!Simulated(a, ok)
       PROVE  Metrics!TypeOK'
  BY <1>10, OutcomeType DEF Metrics!Simulated
<1> QED
  BY <1>2, <1>3, <1>4, <1>5, <1>6, <1>7, <1>8, <1>9, <1>10, RouteStepKeeps
  DEF Metrics!Next, Metrics!AggStep

LEMMA MetricsRuns ==
  Spec => \/ [](part # "metrics")
          \/ ([](part = "metrics") /\ Metrics!Init /\ [][Metrics!Next]_(Metrics!vars))
<1>1. (part = "metrics") /\ Init => Metrics!Init
  BY DEF Init, MetricsInit
<1>2. (part = "metrics") /\ [Next]_vars => [Metrics!Next]_(Metrics!vars)
  BY DEF Next, vars, MetricsStep, StreamStep, SimsStep, AgentStep, ProcessStep, AccessStep,
         RouterStep, LimitsStep, NamingStep, SweepStep, Metrics!vars
<1>3. [Next]_vars => ((part = "metrics") <=> (part = "metrics")')
  BY PartStays
<1>4. (part # "metrics") <=> ~(part = "metrics")
  OBVIOUS
<1> QED
  BY <1>1, <1>2, <1>3, <1>4, PTL DEF Spec

LEMMA MetricsTyped == Spec => [](part = "metrics" => Metrics!TypeOK)
<1>1. Metrics!Init => Metrics!TypeOK
  BY ComponentsAssumption, MetricsStarts
<1>2. Metrics!TypeOK /\ [Metrics!Next]_(Metrics!vars) => Metrics!TypeOK'
  BY ComponentsAssumption, MetricsKeep
<1>3. (part # "metrics") <=> ~(part = "metrics")
  OBVIOUS
<1> QED
  BY <1>1, <1>2, <1>3, MetricsRuns, PTL

----------------------------------------------------------------------------
(* Scheduled reconciliation: x1 is age, x2 listed, x3 checked, x4 todo, x5 faults *)

LEMMA SweepCounts ==
  /\ \A S : Sweep!Cardinality(S) = Cardinality(S)
  /\ \A S : Sweep!IsFiniteSet(S) <=> IsFiniteSet(S)
BY DEF Sweep!Cardinality, Cardinality, Sweep!IsFiniteSet, IsFiniteSet

LEMMA SweepStarts ==
  ASSUME Sweep!SweepAssumption, Sweep!Init PROVE Sweep!TypeOK
<1>1. x4 \in Sweep!Injection(DOMAIN x4, 0..BatchSize - 1)
  BY DEF Sweep!Init, Sweep!Injection, Sweep!IsInjective
<1> QED
  BY <1>1 DEF Sweep!SweepAssumption, Sweep!Init, Sweep!TypeOK

\* The place of an anchor in the list is the number of newer ones: no two have the same.
LEMMA BatchPlaces ==
  ASSUME Sweep!SweepAssumption, Sweep!TypeOK
  PROVE  [a \in Sweep!Batch |-> Sweep!Cardinality(Sweep!Newer(a))]
           \in Sweep!Injection(Sweep!Batch, 0..BatchSize - 1)
<1> DEFINE N(a) == Sweep!Newer(a)
           n(a) == Sweep!Cardinality(N(a))
<1>1. /\ IsFiniteSet(x2) /\ x2 \subseteq Anchors
      /\ \A a \in Anchors : x1[a] \in Int
      /\ \A a, b \in Anchors : x1[a] = x1[b] => a = b
  <2>1. IsFiniteSet(Anchors) /\ x2 \subseteq Anchors
    BY SweepCounts DEF Sweep!SweepAssumption, Sweep!TypeOK
  <2>2. x1 \in [Anchors -> 1..Sweep!Cardinality(Anchors)] /\ Sweep!IsInjective(x1)
    BY DEF Sweep!TypeOK, Sweep!Bijection, Sweep!Injection
  <2> QED
    BY <2>1, <2>2, FS_Subset DEF Sweep!IsInjective
<1>2. \A a \in x2 : /\ N(a) \subseteq x2 /\ IsFiniteSet(N(a)) /\ n(a) = Cardinality(N(a))
                    /\ n(a) \in Nat
  <2>1. \A a \in x2 : N(a) \in SUBSET x2
    BY DEF Sweep!Newer
  <2> QED
    BY <1>1, <2>1, FS_Subset, FS_CardinalityType, SweepCounts
<1>3. ASSUME NEW a \in x2, NEW b \in x2, x1[a] < x1[b]
      PROVE  n(a) # n(b)
  <2>1. N(a) \in SUBSET N(b) /\ a \in N(b) /\ a \notin N(a)
    BY <1>1, <1>3 DEF Sweep!Newer
  <2> QED
    BY <1>2, <2>1, FS_Subset
<1>4. \A a, b \in x2 : n(a) = n(b) => a = b
  BY <1>1, <1>3
<1>5. Sweep!Batch \subseteq x2 /\ \A a \in Sweep!Batch : n(a) \in 0..BatchSize - 1
  <2>1. Sweep!Batch = {a \in x2 : n(a) < BatchSize}
    BY DEF Sweep!Batch
  <2> QED
    BY <1>2, <2>1 DEF Sweep!SweepAssumption
<1> HIDE DEF n
<1>6. [a \in Sweep!Batch |-> n(a)] \in Sweep!Injection(Sweep!Batch, 0..BatchSize - 1)
  BY <1>4, <1>5 DEF Sweep!Injection, Sweep!IsInjective
<1> QED
  BY <1>6 DEF n

\* Moving an anchor to the front leaves every place taken once.
LEMMA ToFrontPlaces ==
  ASSUME Sweep!SweepAssumption, Sweep!TypeOK, NEW a \in Anchors
  PROVE  Sweep!ToFront(a) \in Sweep!Bijection(Anchors, 1..Sweep!Cardinality(Anchors))
<1> DEFINE C == Sweep!Cardinality(Anchors)
           f == Sweep!ToFront(a)
<1>1. C \in Nat
  BY SweepCounts, FS_CardinalityType DEF Sweep!SweepAssumption
<1> HIDE DEF C
<1>2. /\ x1 \in [Anchors -> 1..C]
      /\ \A b, c \in Anchors : x1[b] = x1[c] => b = c
      /\ \A k \in 1..C : \E b \in Anchors : x1[b] = k
  BY DEF C, Sweep!TypeOK, Sweep!Bijection, Sweep!Injection, Sweep!Surjection, Sweep!IsInjective
<1>3. /\ DOMAIN f = Anchors
      /\ \A b \in Anchors :
           f[b] = IF b = a THEN 1 ELSE IF x1[b] < x1[a] THEN x1[b] + 1 ELSE x1[b]
      /\ f = [b \in Anchors |-> f[b]]
  BY DEF Sweep!ToFront
<1> HIDE DEF f
<1>4. f \in [Anchors -> 1..C]
  <2>1. \A b \in Anchors : f[b] \in 1..C
    BY <1>1, <1>2, <1>3
  <2> QED
    BY <1>3, <2>1
<1>5. \A b, c \in Anchors : f[b] = f[c] => b = c
  BY <1>1, <1>2, <1>3
<1>6. \A k \in 1..C : \E b \in Anchors : f[b] = k
  <2> SUFFICES ASSUME NEW k \in 1..C PROVE \E b \in Anchors : f[b] = k
    OBVIOUS
  <2>1. CASE k = 1
    BY <1>3, <2>1
  <2>2. CASE k # 1 /\ k <= x1[a]
    <3>1. PICK b \in Anchors : x1[b] = k - 1
      BY <1>1, <1>2, <2>2
    <3> QED
      BY <1>2, <1>3, <2>2, <3>1
  <2>3. CASE k > x1[a]
    <3>1. PICK b \in Anchors : x1[b] = k
      BY <1>2
    <3> QED
      BY <1>2, <1>3, <2>3, <3>1
  <2> QED
    BY <1>1, <1>2, <2>1, <2>2, <2>3
<1> QED
  BY <1>4, <1>5, <1>6 DEF C, f, Sweep!Bijection, Sweep!Injection, Sweep!Surjection,
                          Sweep!IsInjective

LEMMA SweepKeeps ==
  ASSUME Sweep!SweepAssumption, Sweep!TypeOK, [Sweep!Next]_(Sweep!vars)
  PROVE  Sweep!TypeOK'
<1>1. CASE UNCHANGED Sweep!vars
  BY <1>1 DEF Sweep!vars, Sweep!TypeOK
<1>2. CASE Sweep!Tick
  <2>1. x4' \in Sweep!Injection(DOMAIN x4', 0..BatchSize - 1) /\ DOMAIN x4' \subseteq Anchors
    BY <1>2, BatchPlaces DEF Sweep!Tick, Sweep!Batch, Sweep!TypeOK
  <2> QED
    BY <1>2, <2>1 DEF Sweep!Tick, Sweep!TypeOK
<1>3. CASE Sweep!CheckNext
  <2>1. PICK a \in DOMAIN x4 : /\ x3' = x3 \cup {a} /\ x4' = Sweep!Restrict(x4, DOMAIN x4 \ {a})
                               /\ UNCHANGED <<x1, x2, x5>>
    BY <1>3 DEF Sweep!CheckNext
  <2>2. DOMAIN x4' \subseteq DOMAIN x4 /\ \A b \in DOMAIN x4' : x4'[b] = x4[b]
    BY <2>1 DEF Sweep!Restrict
  <2>3. x4' = [b \in DOMAIN x4' |-> x4'[b]]
    BY <2>1 DEF Sweep!Restrict
  <2>4. x4' \in Sweep!Injection(DOMAIN x4', 0..BatchSize - 1)
    BY <2>2, <2>3 DEF Sweep!TypeOK, Sweep!Injection, Sweep!IsInjective
  <2> QED
    BY <2>1, <2>2, <2>4 DEF Sweep!TypeOK
<1>4. CASE Sweep!TickFails
  <2>1. x4' \in Sweep!Injection(DOMAIN x4', 0..BatchSize - 1) /\ DOMAIN x4' \subseteq Anchors
    BY <1>4 DEF Sweep!TickFails, Sweep!Injection, Sweep!IsInjective
  <2> QED
    BY <1>4, <2>1 DEF Sweep!TickFails, Sweep!TypeOK, Sweep!SweepAssumption
<1>5. ASSUME NEW a \in Anchors, Sweep!CheckOne(a) \/ Sweep!PatchBond(a)
      PROVE  Sweep!TypeOK'
  BY <1>5 DEF Sweep!CheckOne, Sweep!PatchBond, Sweep!TypeOK
<1>6. ASSUME NEW a \in Anchors, Sweep!PatchAnchor(a) \/ Sweep!ChangeStatus(a)
      PROVE  Sweep!TypeOK'
  <2>1. x1' \in Sweep!Bijection(Anchors, 1..Sweep!Cardinality(Anchors))
    BY <1>6, ToFrontPlaces DEF Sweep!PatchAnchor, Sweep!ChangeStatus
  <2> QED
    BY <1>6, <2>1 DEF Sweep!PatchAnchor, Sweep!ChangeStatus, Sweep!TypeOK
<1> QED
  BY <1>1, <1>2, <1>3, <1>4, <1>5, <1>6 DEF Sweep!Next

LEMMA SweepRuns ==
  Spec => \/ [](part # "sweep")
          \/ ([](part = "sweep") /\ Sweep!Init /\ [][Sweep!Next]_(Sweep!vars))
<1>1. (part = "sweep") /\ Init => Sweep!Init
  BY DEF Init, SweepInit
<1>2. (part = "sweep") /\ [Next]_vars => [Sweep!Next]_(Sweep!vars)
  BY DEF Next, vars, MetricsStep, StreamStep, SimsStep, AgentStep, ProcessStep, AccessStep,
         RouterStep, LimitsStep, NamingStep, SweepStep, Sweep!vars
<1>3. [Next]_vars => ((part = "sweep") <=> (part = "sweep")')
  BY PartStays
<1>4. (part # "sweep") <=> ~(part = "sweep")
  OBVIOUS
<1> QED
  BY <1>1, <1>2, <1>3, <1>4, PTL DEF Spec

LEMMA SweepTyped == Spec => [](part = "sweep" => Sweep!TypeOK)
<1>1. Sweep!Init => Sweep!TypeOK
  BY ComponentsAssumption, SweepStarts
<1>2. Sweep!TypeOK /\ [Sweep!Next]_(Sweep!vars) => Sweep!TypeOK'
  BY ComponentsAssumption, SweepKeeps
<1>3. (part # "sweep") <=> ~(part = "sweep")
  OBVIOUS
<1> QED
  BY <1>1, <1>2, <1>3, SweepRuns, PTL

----------------------------------------------------------------------------
(* The type invariant *)

LEMMA StreamTyped == Spec => [](part = "stream" => Stream!TypeOK)
<1>1. Stream!Spec => []Stream!TypeOK
  BY ComponentsAssumption, Stream!StreamTypes
<1>2. (part # "stream") <=> ~(part = "stream")
  OBVIOUS
<1> QED
  BY <1>1, <1>2, StreamRuns, PTL

LEMMA SimsTyped == Spec => [](part = "sims" => Sims!TypeOK)
<1>1. Sims!Spec => []Sims!TypeOK
  BY ComponentsAssumption, Sims!SimulationTypes
<1>2. (part # "sims") <=> ~(part = "sims")
  OBVIOUS
<1> QED
  BY <1>1, <1>2, SimsRuns, PTL

LEMMA RoutingTyped == Spec => [](part = "router" => Routing!TypeOK)
<1>1. Routing!Spec => []Routing!TypeOK
  BY ComponentsAssumption, Routing!RouterTypes
<1>2. (part # "router") <=> ~(part = "router")
  OBVIOUS
<1> QED
  BY <1>1, <1>2, RoutingRuns, PTL

LEMMA LimitsTyped == Spec => [](part = "limits" => Limits!TypeOK)
<1>1. Limits!Spec => []Limits!TypeOK
  BY ComponentsAssumption, Limits!EvaluationTypes
<1>2. (part # "limits") <=> ~(part = "limits")
  OBVIOUS
<1> QED
  BY <1>1, <1>2, LimitsRuns, PTL

LEMMA NamingTyped == Spec => [](part = "naming" => Naming!TypeOK)
<1>1. Naming!Spec => []Naming!TypeOK
  BY ComponentsAssumption, Naming!EvaluationTypes
<1>2. (part # "naming") <=> ~(part = "naming")
  OBVIOUS
<1> QED
  BY <1>1, <1>2, NamingRuns, PTL

LEMMA ProcessTyped == Spec => [](part = "process" => Process!TypeOK)
<1>1. Process!IInv => Process!TypeOK
  BY DEF Process!IInv
<1>2. (part # "process") <=> ~(part = "process")
  OBVIOUS
<1> QED
  BY <1>1, <1>2, ProcessHolds, PTL

LEMMA AccessTyped == Spec => [](part = "access" => Access!TypeOK)
<1>1. Access!IInv => Access!TypeOK
  BY DEF Access!IInv
<1>2. (part # "access") <=> ~(part = "access")
  OBVIOUS
<1> QED
  BY <1>1, <1>2, AccessHolds, PTL

LEMMA AgentTyped == Spec => [](part = "agent" => Agent!TypeOK)
<1>1. Agent!Init => Agent!TypeOK
  BY ComponentsAssumption, AgentStarts
<1>2. Agent!TypeOK /\ [Agent!Next]_(Agent!vars) => Agent!TypeOK'
  BY AgentTypes
<1>3. (part # "agent") <=> ~(part = "agent")
  OBVIOUS
<1> QED
  BY <1>1, <1>2, <1>3, AgentRuns, PTL DEF Agent!Spec

\* Every component keeps to its types: no handler, timer or request of the code puts a
\* value where another kind of value belongs.
THEOREM ComponentTypes == Spec => []TypeOK
<1>1. TypeOK <=>
        /\ (part = "metrics" => Metrics!TypeOK) /\ (part = "stream" => Stream!TypeOK)
        /\ (part = "sims" => Sims!TypeOK) /\ (part = "agent" => Agent!TypeOK)
        /\ (part = "process" => Process!TypeOK) /\ (part = "access" => Access!TypeOK)
        /\ (part = "router" => Routing!TypeOK) /\ (part = "limits" => Limits!TypeOK)
        /\ (part = "naming" => Naming!TypeOK) /\ (part = "sweep" => Sweep!TypeOK)
  BY DEF TypeOK
<1> QED
  BY <1>1, MetricsTyped, StreamTyped, SimsTyped, AgentTyped, ProcessTyped, AccessTyped,
     RoutingTyped, LimitsTyped, NamingTyped, SweepTyped, PTL
=============================================================================
