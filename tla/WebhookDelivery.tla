--------------------------- MODULE WebhookDelivery ---------------------------
(***************************************************************************)
(* The webhook delivery worker: a repeated job (a tick) that fans fresh    *)
(* audit and anchor events out to the active subscriptions and posts the   *)
(* deliveries that are due.  A tick is split at its awaits; ticks overlap  *)
(* when one takes longer than the interval or several workers run.         *)
(***************************************************************************)
EXTENDS Naturals, Sequences, FiniteSets

CONSTANTS
  EventCount,    \* bound: the events the rest of the system writes
  AnchorEvents,  \* those of anchor_events; the others are audit events
  Subs,          \* webhook subscriptions
  Wants,         \* the events whose type matches a subscription's eventTypes
  Steady,        \* the subscriptions nobody pauses
  Ticks,         \* ticks that can be in progress at a time
  BatchSize,     \* WEBHOOK_DELIVERY_BATCH_SIZE
  MaxAttempts,   \* WEBHOOK_DELIVERY_MAX_ATTEMPTS
  MaxPerStamp,   \* bound: events that share a created_at
  MaxAborts,     \* bound: ticks that throw or lose their process
  LateCommits,   \* a transaction may commit after a later created_at was read
  None

\* Events are named in the order their transactions begin.
Events == 1..EventCount

ASSUME WebhookAssumption ==
  /\ EventCount \in Nat \ {0}
  /\ AnchorEvents \subseteq Events
  /\ Wants \in [Subs -> SUBSET Events]
  /\ Steady \subseteq Subs
  /\ {BatchSize, MaxAttempts, MaxPerStamp} \subseteq Nat \ {0}
  /\ MaxAborts \in Nat
  /\ LateCommits \in BOOLEAN

VARIABLES
  clock,       \* now, in units of created_at
  stamp,       \* created_at of an event, the start of its transaction; 0 before
  visible,     \* the events whose transaction has committed
  active,      \* the subscriptions whose status is "active"
  deliveries,  \* the webhook_deliveries row of each subscription and event
  inserted,    \* the rows in the order of their created_at
  cursor,      \* setting webhook_event_delivery_cursor, 0 if it is unset
  tick,        \* the ticks in progress
  posts,       \* how often a delivery was posted
  aborts       \* ticks that ended early so far

eventVars == <<clock, stamp, visible>>
rowVars   == <<deliveries, inserted>>
vars == <<eventVars, active, rowVars, cursor, tick, posts, aborts>>

Sources == {"audit", "anchor"}
EventsOf(source) == IF source = "anchor" THEN AnchorEvents ELSE Events \ AnchorEvents

Keys == Subs \X Events

\* The longest clock the instance needs: one instant per event.
MaxClock == EventCount

NoRow == [state |-> "none", attempts |-> 0, next |-> "never"]
Pending == [state |-> "pending", attempts |-> 0, next |-> "now"]

Idle == [pc |-> "idle", since |-> 0, listed |-> [s \in Sources |-> None],
         batch |-> {}, todo |-> {}, due |-> <<>>, ok |-> FALSE]

Init ==
  /\ clock = 1
  /\ stamp = [e \in Events |-> 0]
  /\ visible = {}
  /\ active \in {Subs, Steady}
  /\ deliveries = [k \in Keys |-> NoRow]
  /\ inserted = <<>>
  /\ cursor = 0
  /\ tick = [t \in Ticks |-> Idle]
  /\ posts = [k \in Keys |-> 0]
  /\ aborts = 0

----------------------------------------------------------------------------
(* The rest of the system *)

Open == {e \in Events : stamp[e] # 0} \ visible

\* created_at defaults to now(), which Postgres fixes when a transaction begins.
Begin(e) ==
  /\ stamp[e] = 0
  /\ \A f \in 1..(e - 1) : stamp[f] # 0
  /\ Cardinality({f \in Events : stamp[f] = clock}) < MaxPerStamp
  /\ stamp' = [stamp EXCEPT ![e] = clock]
  /\ UNCHANGED <<clock, visible, active, rowVars, cursor, tick, posts, aborts>>

Commit(e) ==
  /\ e \in Open
  /\ visible' = visible \cup {e}
  /\ UNCHANGED <<clock, stamp, active, rowVars, cursor, tick, posts, aborts>>

TimePasses ==
  /\ clock < MaxClock
  /\ LateCommits \/ Open = {}
  /\ clock' = clock + 1
  /\ UNCHANGED <<stamp, visible, active, rowVars, cursor, tick, posts, aborts>>

\* PATCH /ops/webhooks/:id
SetActive(s) ==
  /\ s \notin Steady
  /\ active' \in {active \cup {s}, active \ {s}}
  /\ UNCHANGED <<eventVars, rowVars, cursor, tick, posts, aborts>>

\* The back-off of a failed delivery is over.
ComesDue(k) ==
  /\ deliveries[k].next = "later"
  /\ deliveries' = [deliveries EXCEPT ![k].next = "now"]
  /\ UNCHANGED <<eventVars, active, inserted, cursor, tick, posts, aborts>>

----------------------------------------------------------------------------
(* A tick, first half: fan fresh events out *)

\* Mutant of Fresh: strictly after the cursor.
FreshAfter(es, since) == {e \in es \cap visible : stamp[e] > since}

Fresh(es, since) == {e \in es \cap visible : stamp[e] >= since}

\* ORDER BY created_at LIMIT n: ties are broken arbitrarily.
Firsts(es, n) ==
  {S \in SUBSET es :
     /\ Cardinality(S) = IF Cardinality(es) < n THEN Cardinality(es) ELSE n
     /\ \A e \in S, f \in es \ S : stamp[e] <= stamp[f]}

Start(t) ==
  /\ tick[t].pc = "idle"
  /\ tick' = [tick EXCEPT ![t] = [Idle EXCEPT !.pc = "list", !.since = cursor]]
  /\ UNCHANGED <<eventVars, active, rowVars, cursor, posts, aborts>>

\* The two queries of Promise.all read at instants of their own.
ListEvents(t, source) ==
  /\ tick[t].pc = "list"
  /\ tick[t].listed[source] = None
  /\ \E es \in Firsts(Fresh(EventsOf(source), tick[t].since), BatchSize) :
       tick' = [tick EXCEPT ![t].listed[source] = es]
  /\ UNCHANGED <<eventVars, active, rowVars, cursor, posts, aborts>>

\* Merge and cut the two lists, then read the active subscriptions.
ListSubscriptions(t) ==
  /\ tick[t].pc = "list"
  /\ \A source \in Sources : tick[t].listed[source] # None
  /\ \E es \in Firsts(UNION {tick[t].listed[source] : source \in Sources}, BatchSize) :
       tick' = [tick EXCEPT ![t].pc = "insert", ![t].batch = es,
                            ![t].todo = {k \in active \X es : k[2] \in Wants[k[1]]}]
  /\ UNCHANGED <<eventVars, active, rowVars, cursor, posts, aborts>>

\* Mutant of Inserted: ON CONFLICT DO UPDATE resets the row.
InsertedOver(rows, k) == [rows EXCEPT ![k] = Pending]

\* ON CONFLICT DO NOTHING on (subscription, event).
Inserted(rows, k) == IF rows[k] = NoRow THEN [rows EXCEPT ![k] = Pending] ELSE rows

InsertDelivery(t) ==
  /\ tick[t].pc = "insert"
  /\ \E k \in tick[t].todo :
       /\ \A other \in tick[t].todo : stamp[k[2]] <= stamp[other[2]]
       /\ deliveries' = Inserted(deliveries, k)
       /\ inserted' = IF deliveries[k] = NoRow THEN Append(inserted, k) ELSE inserted
       /\ tick' = [tick EXCEPT ![t].todo = @ \ {k}]
  /\ UNCHANGED <<eventVars, active, cursor, posts, aborts>>

\* Mutant of Newest: the created_at of the first event of the batch.
Oldest(es) == CHOOSE n \in {stamp[e] : e \in es} : \A e \in es : n <= stamp[e]

Newest(es) == CHOOSE n \in {stamp[e] : e \in es} : \A e \in es : stamp[e] <= n

\* The cursor is written blindly, and only when the batch had an event.
WriteCursor(t) ==
  /\ tick[t].pc = "insert"
  /\ tick[t].todo = {}
  /\ cursor' = IF tick[t].batch = {} THEN cursor ELSE Newest(tick[t].batch)
  /\ tick' = [tick EXCEPT ![t] = [Idle EXCEPT !.pc = "due"]]
  /\ UNCHANGED <<eventVars, active, rowVars, posts, aborts>>

----------------------------------------------------------------------------
(* A tick, second half: post what is due *)

\* Mutant of IsDue: only rows never tried.
IsDueOnce(row) == row.state = "pending" /\ row.next = "now"

IsDue(row) == row.state \in {"pending", "failed"} /\ row.next = "now"

\* The earliest rows that are due, by their places in inserted.
Due == LET all == {n \in DOMAIN inserted : IsDue(deliveries[inserted[n]])}
       IN {n \in all : Cardinality({m \in all : m < n}) < BatchSize}

\* A tick with these deliveries to make.
Delivering(due) == IF DOMAIN due = {} THEN Idle
                   ELSE [Idle EXCEPT !.pc = "check", !.due = due]

\* The attempt count the tick will write is the one it listed, plus one.
ListDue(t) ==
  /\ tick[t].pc = "due"
  /\ tick' = [tick EXCEPT ![t] =
       Delivering([n \in Due |-> deliveries[inserted[n]].attempts])]
  /\ UNCHANGED <<eventVars, active, rowVars, cursor, posts, aborts>>

Earliest(ns) == CHOOSE n \in ns : \A m \in ns : n <= m

\* The delivery a tick is at, and the attempts it listed for it.
Current(t) == inserted[Earliest(DOMAIN tick[t].due)]
Tried(t) == tick[t].due[Earliest(DOMAIN tick[t].due)]

\* The tick after its current delivery.
Rest(a) == Delivering([n \in DOMAIN a.due \ {Earliest(DOMAIN a.due)} |-> a.due[n]])

Counted(attempts) == attempts + 1

\* Mutant of Exhausted: one attempt too many.
ExhaustedLate(attempts) == attempts > MaxAttempts

Exhausted(attempts) == attempts >= MaxAttempts

Failed(attempts, next) == [state |-> "failed", attempts |-> attempts, next |-> next]

\* webhookRetryFailure
RetryFailure(attempts) == Failed(attempts, IF Exhausted(attempts) THEN "never" ELSE "later")

\* A subscription that is no longer active ends the delivery for good.
CheckSubscription(t) ==
  /\ tick[t].pc = "check"
  /\ IF Current(t)[1] \in active
     THEN /\ tick' = [tick EXCEPT ![t].pc = "post"]
          /\ UNCHANGED deliveries
     ELSE /\ deliveries' = [deliveries EXCEPT ![Current(t)] =
               Failed(Counted(Tried(t)), "never")]
          /\ tick' = [tick EXCEPT ![t] = Rest(tick[t])]
  /\ UNCHANGED <<eventVars, active, inserted, cursor, posts, aborts>>

\* fetch: the endpoint answers 2xx, or it refuses, fails or times out.  A 2xx
\* whose row cannot be written ends in the same catch as a failed fetch.
Post(t) ==
  /\ tick[t].pc = "post"
  /\ posts' = [posts EXCEPT ![Current(t)] = @ + 1]
  /\ \E ok \in BOOLEAN : tick' = [tick EXCEPT ![t].pc = "mark", ![t].ok = ok]
  /\ UNCHANGED <<eventVars, active, rowVars, cursor, aborts>>

Mark(t) ==
  /\ tick[t].pc = "mark"
  /\ LET attempts == Counted(Tried(t))
     IN deliveries' = [deliveries EXCEPT ![Current(t)] =
          IF tick[t].ok THEN [state |-> "delivered", attempts |-> attempts, next |-> "never"]
          ELSE RetryFailure(attempts)]
  /\ tick' = [tick EXCEPT ![t] = Rest(tick[t])]
  /\ UNCHANGED <<eventVars, active, inserted, cursor, posts, aborts>>

\* A query of the tick throws, or its process dies.
Abort(t) ==
  /\ tick[t].pc # "idle"
  /\ aborts < MaxAborts
  /\ aborts' = aborts + 1
  /\ tick' = [tick EXCEPT ![t] = Idle]
  /\ UNCHANGED <<eventVars, active, rowVars, cursor, posts>>

----------------------------------------------------------------------------

Step(t) ==
  \/ \E source \in Sources : ListEvents(t, source)
  \/ ListSubscriptions(t) \/ InsertDelivery(t) \/ WriteCursor(t)
  \/ ListDue(t) \/ CheckSubscription(t) \/ Post(t) \/ Mark(t)

Next ==
  \/ \E e \in Events : Begin(e) \/ Commit(e)
  \/ TimePasses
  \/ \E s \in Subs : SetActive(s)
  \/ \E k \in Keys : ComesDue(k)
  \/ \E t \in Ticks : Start(t) \/ Step(t) \/ Abort(t)

Spec == Init /\ [][Next]_vars

\* The job repeats, its handler keeps running, and a back-off comes to its end.
Fairness ==
  /\ WF_vars(\E t \in Ticks : Start(t))
  /\ \A t \in Ticks : WF_vars(Step(t))
  /\ \A k \in Keys : WF_vars(ComesDue(k))

FairSpec == Spec /\ Fairness

----------------------------------------------------------------------------
(* Properties *)

Row == [state : {"none", "pending", "failed", "delivered"},
        attempts : 0..MaxAttempts, next : {"never", "now", "later"}]

\* What a tick holds: events that are committed, inserts for its own batch, and
\* deliveries that were short of the limit when it listed them.
TickOK(a) ==
  /\ a.pc \in {"idle", "list", "insert", "due", "check", "post", "mark"}
  /\ a.since \in 0..MaxClock
  /\ \A source \in Sources : a.listed[source] = None \/ a.listed[source] \subseteq visible
  /\ a.batch \subseteq visible
  /\ a.todo \subseteq Subs \X a.batch
  /\ DOMAIN a.due \subseteq DOMAIN inserted
  /\ \A n \in DOMAIN a.due : a.due[n] \in 0..(MaxAttempts - 1)
  /\ a.ok \in BOOLEAN
  /\ a.pc \in {"check", "post", "mark"} <=> DOMAIN a.due # {}

\* Every variable has the shape the schema gives it, ticks included, and no
\* attempt count exceeds the limit.
TypeOK ==
  /\ clock \in 1..MaxClock
  /\ stamp \in [Events -> 0..MaxClock]
  /\ visible \subseteq Events
  /\ active \subseteq Subs
  /\ deliveries \in [Keys -> Row]
  /\ inserted \in Seq(Keys)
  /\ cursor \in 0..MaxClock
  /\ \A t \in Ticks : TickOK(tick[t])
  /\ posts \in [Keys -> Nat]
  /\ aborts \in 0..MaxAborts

\* The subscriptions nobody pauses, with the events they ask for.
Owed == {k \in Steady \X Events : k[2] \in Wants[k[1]]}

\* The cursor never passes an event that a subscription in force all along has
\* no delivery row for, although the cursor is written blindly by ticks that
\* overlap and die half-way.
NothingSkipped ==
  \A k \in Owed : (k[2] \in visible /\ stamp[k[2]] < cursor) => deliveries[k].state # "none"

\* Every event reaches its subscribers' queues: the cursor moves on, provided
\* fewer events than a batch holds share a created_at.
EveryEventFansOut ==
  \A k \in Owed : (k[2] \in visible) ~> (deliveries[k].state # "none")

\* With one tick at a time, an event fanned out again (its created_at equals
\* the cursor) or listed again never turns a delivered row back.
DeliveredIsFinal ==
  [][\A k \in Keys : deliveries[k].state = "delivered" => deliveries'[k] = deliveries[k]]_deliveries

\* With one tick at a time, an endpoint sees at most the configured number of
\* attempts of a delivery, and one more per tick that died before it could
\* write the attempt down.
SendsAreBounded == \A k \in Keys : posts[k] <= MaxAttempts + aborts

\* Every delivery ends: delivered, or left failed with no further retry.
EveryDeliverySettles ==
  \A k \in Keys : (deliveries[k].state # "none") ~> (deliveries[k].next = "never")
=============================================================================
