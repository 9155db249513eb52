---------------------------- MODULE WorkerProcess ----------------------------
(***************************************************************************)
(* One worker process: the signing client its execute handlers share, made *)
(* on first use, and the shutdown, which closes workers, queues, client,   *)
(* Redis and database one after the other, each within a timeout.          *)
(***************************************************************************)
EXTENDS Naturals, Sequences, FiniteSets, SequencesExt

CONSTANTS
  Workers,   \* the BullMQ workers in the order they were started: a sequence
  Handlers,  \* handler activations
  WorkerOf,  \* the worker a handler belongs to
  MaxJobs    \* bound: jobs picked up in the life of the process

ProcessAssumption ==
  /\ Workers \in Seq(ToSet(Workers))
  /\ WorkerOf \in [Handlers -> ToSet(Workers)]
  /\ ToSet(Workers) \cap {"queues", "signing", "redis", "database"} = {}
  /\ MaxJobs \in Nat

VARIABLES
  handler,   \* where each handler stands, and the client it was given
  promise,   \* signingUserClientPromise
  memo,      \* signingUserClient
  created,   \* signing clients made
  step,      \* the shutdown step in progress; 0 before the shutdown
  closing,   \* its close has been called
  closed,    \* resources whose close has been called
  timedOut,  \* those that were given up
  jobs       \* jobs picked up so far

vars == <<handler, promise, memo, created, step, closing, closed, timedOut, jobs>>
signer == <<promise, memo, created>>
shutdown == <<step, closing, closed, timedOut>>

\* Mutant of CloseOrder: the database first.
CloseOrderReversed == <<"database", "redis", "signing", "queues">> \o Workers

CloseOrder == Workers \o <<"queues", "signing", "redis", "database">>
ExecuteWorker == "execution-processing"
Over == Len(CloseOrder) + 1

Idle == [pc |-> "idle", client |-> "none"]

Init ==
  /\ handler = [h \in Handlers |-> Idle]
  /\ promise = "undefined" /\ memo = "undefined" /\ created = 0
  /\ step = 0 /\ closing = FALSE /\ closed = {} /\ timedOut = {}
  /\ jobs = 0

----------------------------------------------------------------------------
(* Handlers *)

Pickup(h) ==
  /\ handler[h].pc = "idle" /\ WorkerOf[h] \notin closed /\ jobs < MaxJobs
  /\ handler' = [handler EXCEPT ![h].pc = IF WorkerOf[h] = ExecuteWorker THEN "ask" ELSE "work"]
  /\ jobs' = jobs + 1
  /\ UNCHANGED <<signer, shutdown>>

\* Mutant of Starts: a client that is being made does not count.
StartsUnlessMade == memo = "undefined"

\* Only the first caller starts to make a client, in live mode.
Starts == promise = "undefined"

AskSigner(h) ==
  /\ handler[h].pc = "ask"
  /\ IF Starts THEN promise' = "pending" /\ created' = created + 1
     ELSE UNCHANGED <<promise, created>>
  /\ handler' = [handler EXCEPT ![h].pc = "await"]
  /\ UNCHANGED <<memo, shutdown, jobs>>

\* A signer that cannot be made is logged and remembered as null.
SignerMade(client) ==
  /\ promise = "pending"
  /\ promise' = client
  /\ UNCHANGED <<handler, memo, created, shutdown, jobs>>

GotSigner(h) ==
  /\ handler[h].pc = "await" /\ promise \in {"client", "null"}
  /\ memo' = IF memo = "undefined" THEN promise ELSE memo
  /\ handler' = [handler EXCEPT ![h] = [pc |-> "work", client |-> memo']]
  /\ UNCHANGED <<promise, created, shutdown, jobs>>

Finish(h) ==
  /\ handler[h].pc = "work"
  /\ handler' = [handler EXCEPT ![h] = Idle]
  /\ UNCHANGED <<signer, shutdown, jobs>>

----------------------------------------------------------------------------
(* Shutdown *)

Shutdown ==
  /\ step = 0
  /\ step' = 1
  /\ UNCHANGED <<handler, signer, closing, closed, timedOut, jobs>>

Closing == CloseOrder[step]

BeginClose ==
  /\ step \in DOMAIN CloseOrder /\ ~closing
  /\ closing' = TRUE
  /\ closed' = closed \cup {Closing}
  /\ UNCHANGED <<handler, signer, step, timedOut, jobs>>

\* A worker has closed when its handlers are done; a client is destroyed at once,
\* if there is one.
Done(r) == \A h \in Handlers : WorkerOf[h] = r => handler[h].pc = "idle"

CloseEnds ==
  /\ closing /\ Done(Closing)
  /\ step' = step + 1 /\ closing' = FALSE
  /\ UNCHANGED <<handler, signer, closed, timedOut, jobs>>

\* Mutant of Expired: no timeout around a close.
NeverExpired == FALSE

Expired == closing
TimesOut ==
  /\ Expired /\ Closing # "signing"
  /\ timedOut' = timedOut \cup {Closing}
  /\ step' = step + 1 /\ closing' = FALSE
  /\ UNCHANGED <<handler, signer, closed, jobs>>

ShutdownStep == BeginClose \/ CloseEnds \/ TimesOut

Next ==
  \/ \E h \in Handlers : Pickup(h) \/ AskSigner(h) \/ GotSigner(h) \/ Finish(h)
  \/ \E client \in {"client", "null"} : SignerMade(client)
  \/ Shutdown \/ ShutdownStep

Spec == Init /\ [][Next]_vars

\* A handler may hang: only the timers and the shutdown itself are sure to go on.
FairSpec == Spec /\ WF_vars(BeginClose) /\ WF_vars(TimesOut)
  /\ WF_vars(CloseEnds /\ Closing = "signing")

----------------------------------------------------------------------------
(* Properties *)

\* Type invariant.
TypeOK ==
  /\ handler \in [Handlers -> [pc : {"idle", "ask", "await", "work"},
                               client : {"none", "client", "null"}]]
  /\ promise \in {"undefined", "pending", "client", "null"}
  /\ memo \in {"undefined", "client", "null"}
  /\ created \in Nat
  /\ step \in 0..Over /\ closing \in BOOLEAN
  /\ closed \subseteq ToSet(CloseOrder) /\ timedOut \subseteq closed
  /\ jobs \in 0..MaxJobs

\* A handler at work finds its resources open, unless the close of its worker was
\* given up.
NothingUsedAfterClose ==
  \A h \in Handlers :
    (handler[h].pc # "idle" /\ closed \cap {"signing", "redis", "database"} # {})
      => WorkerOf[h] \in timedOut

\* Handlers that ask at the same time share one client, and the shutdown destroys
\* the one that was made unless an execute handler hangs.
SigningClientIsShared ==
  /\ created <= 1
  /\ (step = Over /\ promise = "client" /\ ExecuteWorker \notin timedOut) => memo = "client"

\* The shutdown ends, whatever hangs.
ShutdownEnds == (step = 1) ~> (step = Over)

----------------------------------------------------------------------------
(* The inductive invariant.  The close of what comes before `step` was called;  *)
(* a worker before `step` is idle or was given up.                              *)

ClosedSoFar ==
  /\ closing => step \in DOMAIN CloseOrder
  /\ \A k \in DOMAIN CloseOrder : (k < step \/ (k = step /\ closing)) => CloseOrder[k] \in closed
  /\ \A r \in closed : \E k \in DOMAIN CloseOrder :
       CloseOrder[k] = r /\ (k < step \/ (k = step /\ closing))

WorkersAreDone ==
  \A k \in DOMAIN Workers : k < step =>
    Workers[k] \in timedOut \/ Done(Workers[k])

\* The client is the one the promise stands for; while nobody has it yet, a handler
\* that asked still waits for it.
ClientIsAwaited ==
  /\ \A h \in Handlers : handler[h].pc \in {"ask", "await"} => WorkerOf[h] = ExecuteWorker
  /\ promise = "undefined" => created = 0
  /\ created <= 1
  /\ memo # "undefined" => memo = promise
  /\ (promise # "undefined" /\ memo = "undefined") => \E h \in Handlers : handler[h].pc = "await"

IInv == TypeOK /\ ClosedSoFar /\ WorkersAreDone /\ ClientIsAwaited
=============================================================================
