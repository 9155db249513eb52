------------------------ MODULE WebhookDeliveryProofs ------------------------
(***************************************************************************)
(* The webhook delivery worker, for any number of events, subscriptions    *)
(* and ticks: types; the cursor passes no event that is owed, while        *)
(* transactions commit in the order of their created_at; and a worker with *)
(* one tick at a time posts a delivery no more often than configured.      *)
(***************************************************************************)
EXTENDS WebhookDelivery, FiniteSetTheorems, WellFoundedInduction, TLAPS

----------------------------------------------------------------------------
(* Least and greatest numbers *)

LEMMA LeastExists ==
  ASSUME NEW S \in SUBSET Nat, S # {}
  PROVE  \E n \in S : \A m \in S : n <= m
<1> DEFINE Less == {p \in Nat \X Nat : p[1] < p[2]}
<1>1. Less = OpToRel(<, Nat)
  BY Zenon DEF OpToRel
<1>2. IsWellFoundedOn(Less, Nat)
  BY <1>1, NatLessThanWellFounded, Zenon
<1>3. \E n \in S : \A m \in S : ~(<<m, n>> \in Less)
  <2> HIDE DEF Less
  <2> QED BY <1>2, WFMin
<1>4. PICK n \in S : \A m \in S : ~(<<m, n>> \in Less)
  BY <1>3, Zenon
<1>5. \A m \in S : ~(m < n)
  BY <1>4
<1> QED
  BY <1>5

LEMMA GreatestExists ==
  ASSUME NEW b \in Nat, NEW S \in SUBSET (0..b), S # {}
  PROVE  \E n \in S : \A m \in S : m <= n
<1> DEFINE T == {b - n : n \in S}
<1>0. \A n \in S : n \in Nat /\ n <= b /\ b - n \in Nat
  OBVIOUS
<1>1. T \in SUBSET Nat /\ T # {}
  BY <1>0
<1>2. PICK d \in T : \A m \in T : d <= m
  BY <1>1, LeastExists
<1>3. PICK n \in S : d = b - n
  BY <1>2
<1>4. \A m \in S : b - m \in T
  OBVIOUS
<1>5. \A m \in S : b - n <= b - m
  BY <1>2, <1>3, <1>4
<1> QED
  BY <1>0, <1>5

\* The delivery a tick is at is the earliest of those it listed.
LEMMA EarliestIsLeast ==
  ASSUME NEW S \in SUBSET Nat, S # {}
  PROVE  Earliest(S) \in S /\ \A m \in S : Earliest(S) <= m
BY LeastExists DEF Earliest

\* The new cursor is the created_at of an event of the batch, and no later one is left.
LEMMA NewestIsGreatest ==
  ASSUME NEW b \in Nat, stamp \in [Events -> 0..b], NEW es \in SUBSET Events, es # {}
  PROVE  /\ Newest(es) \in {stamp[e] : e \in es}
         /\ \A e \in es : stamp[e] <= Newest(es)
<1> DEFINE S == {stamp[e] : e \in es}
<1>1. S \in SUBSET (0..b) /\ S # {}
  OBVIOUS
<1>2. \E n \in S : \A m \in S : m <= n
  BY <1>1, GreatestExists
<1>3. \E n \in S : \A e \in es : stamp[e] <= n
  BY <1>2
<1> QED
  BY <1>3 DEF Newest

----------------------------------------------------------------------------
(* Types *)

Pcs == {"idle", "list", "insert", "due", "check", "post", "mark"}

\* Deliveries to make: listed attempts by place.
DueList(D) == [D -> 0..(MaxAttempts - 1)]

TickType ==
  [pc : Pcs, since : 0..MaxClock, listed : [Sources -> (SUBSET Events) \cup {None}],
   batch : SUBSET Events, todo : SUBSET Keys,
   due : UNION {DueList(D) : D \in SUBSET DOMAIN inserted}, ok : BOOLEAN]

\* Only a delivery with an attempt left comes up again.
RetriesLeft ==
  \A k \in Keys : deliveries[k].next # "never" => deliveries[k].attempts < MaxAttempts

TInv == TypeOK /\ tick \in [Ticks -> TickType] /\ RetriesLeft

LEMMA Bounds ==
  /\ EventCount \in Nat \ {0} /\ MaxClock \in Nat \ {0} /\ Events = 1..EventCount
  /\ BatchSize \in Nat \ {0} /\ MaxAttempts \in Nat \ {0} /\ MaxAborts \in Nat
  /\ Steady \subseteq Subs /\ LateCommits \in BOOLEAN
BY WebhookAssumption DEF MaxClock, Events

LEMMA IdleOK == TickOK(Idle) /\ Idle \in TickType
<1>1. Idle.due \in DueList({}) /\ DOMAIN Idle.due = {}
  BY DEF Idle, DueList
<1>2. [s \in Sources |-> None] \in [Sources -> (SUBSET Events) \cup {None}]
  OBVIOUS
<1> QED
  BY <1>1, <1>2, Bounds DEF Idle, TickOK, TickType, Pcs

LEMMA InitTInv == Init => TInv
<1> SUFFICES ASSUME Init PROVE TInv
  OBVIOUS
<1>1. deliveries \in [Keys -> Row] /\ RetriesLeft
  BY Bounds DEF Init, NoRow, Row, RetriesLeft
<1>2. \A t \in Ticks : tick[t] = Idle
  BY DEF Init
<1>3. \A t \in Ticks : TickOK(tick[t])
  BY <1>2, IdleOK
<1>4. tick \in [Ticks -> TickType]
  BY IdleOK DEF Init
<1>5. clock \in 1..MaxClock
  BY Bounds DEF Init
<1> QED
  BY <1>1, <1>3, <1>4, Bounds DEF Init, TInv, TypeOK

Grows == visible \subseteq visible' /\ DOMAIN inserted \subseteq DOMAIN inserted'

\* What a tick holds stays good while events become visible and rows are inserted.
LEMMA TickKept ==
  ASSUME Grows, NEW a, TickOK(a), a \in TickType
  PROVE  TickOK(a)' /\ a \in TickType'
<1>1. TickOK(a)'
  BY DEF Grows, TickOK
<1>2. SUBSET DOMAIN inserted \subseteq SUBSET DOMAIN inserted'
  BY DEF Grows
<1>3. a.due \in UNION {DueList(D) : D \in SUBSET DOMAIN inserted'}
  BY <1>2 DEF TickType
<1> QED
  BY <1>1, <1>3 DEF TickType

LEMMA TicksKept ==
  ASSUME TInv, Grows, UNCHANGED tick
  PROVE  (\A t \in Ticks : TickOK(tick[t])) ' /\ (tick \in [Ticks -> TickType])'
<1>1. \A t \in Ticks : TickOK(tick[t]) /\ tick[t] \in TickType
  BY DEF TInv, TypeOK
<1>2. \A t \in Ticks : TickOK(tick[t])' /\ tick[t] \in TickType'
  <2> TAKE t \in Ticks
  <2>1. TickOK(tick[t]) /\ tick[t] \in TickType
    BY <1>1
  <2> QED
    BY <2>1, TickKept
<1> QED
  BY <1>2 DEF TInv

LEMMA TickReplaced ==
  ASSUME TInv, Grows, NEW t \in Ticks, NEW a, tick' = [tick EXCEPT ![t] = a],
         TickOK(a)', a \in TickType'
  PROVE  (\A u \in Ticks : TickOK(tick[u]))' /\ (tick \in [Ticks -> TickType])'
<1>1. \A u \in Ticks : TickOK(tick[u])' /\ tick'[u] \in TickType'
  <2> TAKE u \in Ticks
  <2>1. CASE u = t
    BY <2>1 DEF TInv
  <2>2. CASE u # t
    <3>1. TickOK(tick[u]) /\ tick[u] \in TickType /\ tick'[u] = tick[u]
      BY <2>2 DEF TInv, TypeOK
    <3> QED
      BY <3>1, TickKept
  <2> QED
    BY <2>1, <2>2
<1> QED
  BY <1>1 DEF TInv

\* The environment's steps.
LEMMA OutsideTyped ==
  ASSUME TInv,
         \/ \E e \in Events : Begin(e) \/ Commit(e)
         \/ TimePasses
         \/ \E s \in Subs : SetActive(s)
         \/ \E k \in Keys : ComesDue(k)
         \/ UNCHANGED vars
  PROVE  TInv' /\ Grows
<1>1. Grows /\ UNCHANGED tick
  BY DEF Grows, Begin, Commit, TimePasses, SetActive, ComesDue, vars, eventVars, rowVars
<1>2. (\A t \in Ticks : TickOK(tick[t]))' /\ (tick \in [Ticks -> TickType])'
  BY <1>1, TicksKept
<1>3. ASSUME NEW e \in Events, Begin(e) \/ Commit(e)
      PROVE  TInv'
  <2>1. clock \in 0..MaxClock
    BY Bounds DEF TInv, TypeOK
  <2>2. /\ stamp' \in [Events -> 0..MaxClock] /\ visible' \subseteq Events
        /\ UNCHANGED <<clock, active, deliveries, inserted, cursor, posts, aborts>>
    BY <1>3, <2>1 DEF Begin, Commit, TInv, TypeOK, eventVars, rowVars
  <2> QED
    BY <1>1, <1>2, <2>2 DEF TInv, TypeOK, RetriesLeft
<1>4. CASE TimePasses
  BY <1>1, <1>2, <1>4, Bounds DEF TimePasses, TInv, TypeOK, RetriesLeft, eventVars, rowVars
<1>5. CASE \E s \in Subs : SetActive(s)
  BY <1>1, <1>2, <1>5 DEF SetActive, TInv, TypeOK, RetriesLeft, eventVars, rowVars
<1>6. ASSUME NEW k \in Keys, ComesDue(k)
      PROVE  TInv'
  <2>1. /\ deliveries[k] \in Row /\ deliveries[k].attempts < MaxAttempts
        /\ deliveries' = [deliveries EXCEPT ![k] = [@ EXCEPT !.next = "now"]]
    BY <1>6 DEF ComesDue, TInv, TypeOK, RetriesLeft, eventVars, rowVars
  <2>2. [deliveries[k] EXCEPT !.next = "now"] \in Row
    BY <2>1 DEF Row
  <2>3. /\ deliveries' \in [Keys -> Row]
        /\ deliveries'[k].attempts = deliveries[k].attempts
        /\ \A j \in Keys : j # k => deliveries'[j] = deliveries[j]
    BY <2>1, <2>2 DEF Row, TInv, TypeOK
  <2>4. RetriesLeft'
    BY <2>1, <2>3 DEF TInv, RetriesLeft
  <2> QED
    BY <1>1, <1>2, <1>6, <2>3, <2>4 DEF ComesDue, TInv, TypeOK, RetriesLeft, eventVars, rowVars
<1>7. CASE UNCHANGED vars
  BY <1>1, <1>2, <1>7 DEF vars, TInv, TypeOK, RetriesLeft, eventVars, rowVars
<1> QED
  BY <1>1, <1>3, <1>4, <1>5, <1>6, <1>7, Zenon

\* A tick begins or dies.
LEMMA StartTyped ==
  ASSUME TInv, NEW t \in Ticks, Start(t) \/ Abort(t)
  PROVE  TInv' /\ Grows
<1>1. Grows /\ UNCHANGED <<clock, stamp, visible, active, deliveries, inserted, cursor, posts>>
  BY DEF Grows, Start, Abort, eventVars, rowVars
<1>2. TickOK(Idle) /\ Idle \in TickType
  BY IdleOK
<1> DEFINE begun == [Idle EXCEPT !.pc = "list", !.since = cursor]
<1>3. /\ begun \in TickType
      /\ begun.pc = "list" /\ begun.since = cursor /\ begun.listed = Idle.listed
      /\ begun.batch = Idle.batch /\ begun.todo = Idle.todo /\ begun.due = Idle.due
      /\ begun.ok = Idle.ok
  BY <1>2 DEF TickType, Pcs, TInv, TypeOK
<1>4. TickOK(begun)
  BY <1>2, <1>3 DEF Idle, TickOK, TInv, TypeOK
<1>5. (\A u \in Ticks : TickOK(tick[u]))' /\ (tick \in [Ticks -> TickType])'
  <2>1. CASE Start(t)
    <3>1. PICK a : a = begun
      OBVIOUS
    <3>2. TickOK(a)' /\ a \in TickType'
      BY <1>1, <1>3, <1>4, <3>1, TickKept
    <3>3. tick' = [tick EXCEPT ![t] = a]
      BY <2>1, <3>1 DEF Start
    <3> QED
      BY <1>1, <3>2, <3>3, TickReplaced
  <2>2. CASE Abort(t)
    <3>1. TickOK(Idle)' /\ Idle \in TickType'
      BY <1>1, <1>2, TickKept
    <3> QED
      BY <1>1, <2>2, <3>1, TickReplaced DEF Abort
  <2> QED
    BY <2>1, <2>2
<1>6. aborts' \in 0..MaxAborts
  BY Bounds DEF TInv, TypeOK, Start, Abort
<1> QED
  BY <1>1, <1>5, <1>6 DEF TInv, TypeOK, RetriesLeft


\* A tick that goes on holds well-typed fields; each step changes some of them.
LEMMA FieldsOf ==
  ASSUME TInv, NEW t \in Ticks
  PROVE  /\ tick[t] \in TickType /\ TickOK(tick[t])
         /\ tick[t].pc \in Pcs /\ tick[t].since \in 0..MaxClock
         /\ tick[t].listed \in [Sources -> (SUBSET Events) \cup {None}]
         /\ tick[t].batch \in SUBSET Events /\ tick[t].todo \in SUBSET Keys
         /\ tick[t].due \in UNION {DueList(D) : D \in SUBSET DOMAIN inserted}
         /\ tick[t].ok \in BOOLEAN
<1>1. tick[t] \in TickType /\ TickOK(tick[t])
  BY DEF TInv, TypeOK
<1> QED
  BY <1>1 DEF TickType

LEMMA ListEventsTyped ==
  ASSUME TInv, NEW t \in Ticks, NEW source \in Sources, ListEvents(t, source)
  PROVE  TInv' /\ Grows
<1>1. Grows /\ UNCHANGED <<clock, stamp, visible, active, deliveries, inserted, cursor, posts, aborts>>
  BY DEF Grows, ListEvents, eventVars, rowVars
<1>2. PICK es \in Firsts(Fresh(EventsOf(source), tick[t].since), BatchSize) :
        tick' = [tick EXCEPT ![t].listed[source] = es]
  BY DEF ListEvents
<1>3. es \subseteq visible /\ es \subseteq Events
  BY <1>2 DEF Firsts, Fresh, TInv, TypeOK
<1>4. PICK l : l = [tick[t].listed EXCEPT ![source] = es]
  OBVIOUS
<1>5. PICK a : a = [tick[t] EXCEPT !.listed = l]
  OBVIOUS
<1>6. tick' = [tick EXCEPT ![t] = a]
  BY <1>2, <1>4, <1>5
<1>7. /\ l \in [Sources -> (SUBSET Events) \cup {None}]
      /\ l[source] = es /\ \A other \in Sources : other # source => l[other] = tick[t].listed[other]
  BY <1>3, <1>4, FieldsOf
<1>8. /\ a \in TickType
      /\ a.pc = tick[t].pc /\ a.since = tick[t].since /\ a.listed = l /\ a.batch = tick[t].batch
      /\ a.todo = tick[t].todo /\ a.due = tick[t].due /\ a.ok = tick[t].ok
  BY <1>5, <1>7, FieldsOf DEF TickType
<1>9. TickOK(a)
  BY <1>3, <1>7, <1>8, FieldsOf DEF TickOK
<1>10. TickOK(a)' /\ a \in TickType'
  BY <1>1, <1>8, <1>9, TickKept
<1>11. (\A u \in Ticks : TickOK(tick[u]))' /\ (tick \in [Ticks -> TickType])'
  BY <1>1, <1>6, <1>10, TickReplaced
<1> QED
  BY <1>1, <1>11 DEF TInv, TypeOK, RetriesLeft

LEMMA ListSubscriptionsTyped ==
  ASSUME TInv, NEW t \in Ticks, ListSubscriptions(t)
  PROVE  TInv' /\ Grows
<1>1. Grows /\ UNCHANGED <<clock, stamp, visible, active, deliveries, inserted, cursor, posts, aborts>>
  BY DEF Grows, ListSubscriptions, eventVars, rowVars
<1> DEFINE all == UNION {tick[t].listed[source] : source \in Sources}
<1>2. PICK es \in Firsts(all, BatchSize) :
        tick' = [tick EXCEPT ![t].pc = "insert", ![t].batch = es,
                             ![t].todo = {k \in active \X es : k[2] \in Wants[k[1]]}]
  BY DEF ListSubscriptions
<1>3. \A source \in Sources : tick[t].listed[source] \subseteq visible
  BY FieldsOf DEF ListSubscriptions, TickOK
<1>4. es \subseteq visible /\ es \subseteq Events
  BY <1>2, <1>3 DEF Firsts, TInv, TypeOK
<1>5. PICK td : td = {k \in active \X es : k[2] \in Wants[k[1]]}
  OBVIOUS
<1>6. PICK a : a = [tick[t] EXCEPT !.pc = "insert", !.batch = es, !.todo = td]
  OBVIOUS
<1>7. tick' = [tick EXCEPT ![t] = a]
  BY <1>2, <1>5, <1>6
<1>8. td \subseteq Subs \X es /\ td \in SUBSET Keys
  BY <1>4, <1>5 DEF Keys, TInv, TypeOK
<1>9. /\ a \in TickType
      /\ a.pc = "insert" /\ a.since = tick[t].since /\ a.listed = tick[t].listed /\ a.batch = es
      /\ a.todo = td /\ a.due = tick[t].due /\ a.ok = tick[t].ok
  BY <1>4, <1>6, <1>8, FieldsOf DEF TickType, Pcs
<1>10. TickOK(a)
  <2>1. tick[t].pc = "list"
    BY DEF ListSubscriptions
  <2> QED
    BY <2>1, <1>4, <1>8, <1>9, FieldsOf DEF TickOK
<1>11. TickOK(a)' /\ a \in TickType'
  BY <1>1, <1>9, <1>10, TickKept
<1>12. (\A u \in Ticks : TickOK(tick[u]))' /\ (tick \in [Ticks -> TickType])'
  BY <1>1, <1>7, <1>11, TickReplaced
<1> QED
  BY <1>1, <1>12 DEF TInv, TypeOK, RetriesLeft


\* An insert gives a row to one pair and leaves the others alone.
LEMMA InsertStep ==
  ASSUME TInv, NEW t \in Ticks, InsertDelivery(t)
  PROVE  \E k \in tick[t].todo :
           /\ k \in Keys
           /\ deliveries' = Inserted(deliveries, k)
           /\ inserted' = IF deliveries[k] = NoRow THEN Append(inserted, k) ELSE inserted
           /\ tick' = [tick EXCEPT ![t].todo = @ \ {k}]
           /\ deliveries' \in [Keys -> Row]
           /\ \A j \in Keys : j # k \/ deliveries[k] # NoRow => deliveries'[j] = deliveries[j]
           /\ deliveries[k] = NoRow => deliveries'[k] = Pending
           /\ deliveries'[k].state # "none" \/ deliveries[k] # NoRow
<1>1. PICK k \in tick[t].todo :
        /\ deliveries' = Inserted(deliveries, k)
        /\ inserted' = IF deliveries[k] = NoRow THEN Append(inserted, k) ELSE inserted
        /\ tick' = [tick EXCEPT ![t].todo = @ \ {k}]
  BY DEF InsertDelivery
<1>2. k \in Keys
  BY <1>1, FieldsOf
<1>3. Pending \in Row /\ Pending.state = "pending"
  BY Bounds DEF Pending, Row
<1>4. deliveries \in [Keys -> Row]
  BY DEF TInv, TypeOK
<1>5. CASE deliveries[k] = NoRow
  <2>1. deliveries' = [deliveries EXCEPT ![k] = Pending]
    BY <1>1, <1>5 DEF Inserted
  <2>2. deliveries' \in [Keys -> Row] /\ deliveries'[k] = Pending
    BY <1>2, <1>3, <1>4, <2>1
  <2> QED
    BY <1>1, <1>2, <1>3, <1>4, <1>5, <2>1, <2>2
<1>6. CASE deliveries[k] # NoRow
  <2>1. deliveries' = deliveries
    BY <1>1, <1>6 DEF Inserted
  <2> QED
    BY <1>1, <1>2, <1>4, <1>6, <2>1
<1> QED
  BY <1>5, <1>6

LEMMA InsertTyped ==
  ASSUME TInv, NEW t \in Ticks, InsertDelivery(t)
  PROVE  TInv' /\ Grows
<1>1. UNCHANGED <<clock, stamp, visible, active, cursor, posts, aborts>>
  BY DEF InsertDelivery, eventVars
<1>2. PICK k \in tick[t].todo :
        /\ k \in Keys
        /\ inserted' = IF deliveries[k] = NoRow THEN Append(inserted, k) ELSE inserted
        /\ tick' = [tick EXCEPT ![t].todo = @ \ {k}]
        /\ deliveries' \in [Keys -> Row]
        /\ \A j \in Keys : j # k \/ deliveries[k] # NoRow => deliveries'[j] = deliveries[j]
        /\ deliveries[k] = NoRow => deliveries'[k] = Pending
  BY InsertStep
<1>3. inserted' \in Seq(Keys) /\ DOMAIN inserted \subseteq DOMAIN inserted'
  <2>1. inserted \in Seq(Keys) /\ Append(inserted, k) \in Seq(Keys)
    BY <1>2 DEF TInv, TypeOK
  <2>2. DOMAIN inserted = 1..Len(inserted) /\ DOMAIN Append(inserted, k) = 1..(Len(inserted) + 1)
    BY <2>1
  <2>3. Len(inserted) \in Nat
    BY <2>1
  <2> QED
    BY <1>2, <2>1, <2>2, <2>3
<1>4. Grows
  BY <1>1, <1>3 DEF Grows
<1>5. PICK td : td = tick[t].todo \ {k}
  OBVIOUS
<1>6. PICK a : a = [tick[t] EXCEPT !.todo = td]
  OBVIOUS
<1>7. tick' = [tick EXCEPT ![t] = a]
  BY <1>2, <1>5, <1>6
<1>8. /\ a \in TickType
      /\ a.pc = tick[t].pc /\ a.since = tick[t].since /\ a.listed = tick[t].listed
      /\ a.batch = tick[t].batch /\ a.todo = td /\ a.due = tick[t].due /\ a.ok = tick[t].ok
  BY <1>5, <1>6, FieldsOf DEF TickType
<1>9. TickOK(a)
  BY <1>5, <1>8, FieldsOf DEF TickOK
<1>10. TickOK(a)' /\ a \in TickType'
  BY <1>4, <1>8, <1>9, TickKept
<1>11. (\A u \in Ticks : TickOK(tick[u]))' /\ (tick \in [Ticks -> TickType])'
  BY <1>4, <1>7, <1>10, TickReplaced
<1>12. RetriesLeft'
  <2>1. Pending.attempts = 0 /\ 0 < MaxAttempts
    BY Bounds DEF Pending
  <2> QED
    BY <1>2, <2>1 DEF TInv, RetriesLeft
<1> QED
  BY <1>1, <1>2, <1>3, <1>4, <1>11, <1>12 DEF TInv, TypeOK

LEMMA WriteCursorTyped ==
  ASSUME TInv, NEW t \in Ticks, WriteCursor(t)
  PROVE  TInv' /\ Grows
<1>1. Grows /\ UNCHANGED <<clock, stamp, visible, active, deliveries, inserted, posts, aborts>>
  BY DEF Grows, WriteCursor, eventVars, rowVars
<1>2. cursor' \in 0..MaxClock
  <2>1. CASE tick[t].batch = {}
    BY <2>1 DEF WriteCursor, TInv, TypeOK
  <2>2. CASE tick[t].batch # {}
    <3>1. stamp \in [Events -> 0..MaxClock] /\ MaxClock \in Nat
      BY Bounds DEF TInv, TypeOK
    <3>2. tick[t].batch \in SUBSET Events
      BY FieldsOf
    <3>3. Newest(tick[t].batch) \in {stamp[e] : e \in tick[t].batch}
      BY <2>2, <3>1, <3>2, NewestIsGreatest
    <3>4. Newest(tick[t].batch) \in 0..MaxClock
      BY <3>1, <3>2, <3>3
    <3> QED
      BY <2>2, <3>4 DEF WriteCursor
  <2> QED
    BY <2>1, <2>2
<1>3. PICK a : a = [Idle EXCEPT !.pc = "due"]
  OBVIOUS
<1>4. tick' = [tick EXCEPT ![t] = a]
  BY <1>3 DEF WriteCursor
<1>5. TickOK(Idle) /\ Idle \in TickType /\ Idle.pc = "idle"
  BY IdleOK DEF Idle
<1>6. /\ a \in TickType
      /\ a.pc = "due" /\ a.since = Idle.since /\ a.listed = Idle.listed /\ a.batch = Idle.batch
      /\ a.todo = Idle.todo /\ a.due = Idle.due /\ a.ok = Idle.ok
  BY <1>3, <1>5 DEF TickType, Pcs
<1>7. TickOK(a)
  BY <1>5, <1>6 DEF TickOK
<1>8. TickOK(a)' /\ a \in TickType'
  BY <1>1, <1>6, <1>7, TickKept
<1>9. (\A u \in Ticks : TickOK(tick[u]))' /\ (tick \in [Ticks -> TickType])'
  BY <1>1, <1>4, <1>8, TickReplaced
<1> QED
  BY <1>1, <1>2, <1>9 DEF TInv, TypeOK, RetriesLeft

\* A tick that is given deliveries to make.
LEMMA DeliveringOK ==
  ASSUME TInv, NEW D \in SUBSET DOMAIN inserted, NEW due \in DueList(D)
  PROVE  TickOK(Delivering(due)) /\ Delivering(due) \in TickType
<1>1. TickOK(Idle) /\ Idle \in TickType /\ Idle.pc = "idle"
  BY IdleOK DEF Idle
<1>2. DOMAIN due = D /\ \A n \in D : due[n] \in 0..(MaxAttempts - 1)
  BY DEF DueList
<1>3. CASE DOMAIN due = {}
  BY <1>1, <1>3 DEF Delivering
<1>4. CASE DOMAIN due # {}
  <2>1. PICK a : a = [Idle EXCEPT !.pc = "check", !.due = due]
    OBVIOUS
  <2>2. due \in UNION {DueList(E) : E \in SUBSET DOMAIN inserted}
    OBVIOUS
  <2>3. /\ a \in TickType
        /\ a.pc = "check" /\ a.since = Idle.since /\ a.listed = Idle.listed
        /\ a.batch = Idle.batch /\ a.todo = Idle.todo /\ a.due = due /\ a.ok = Idle.ok
    BY <1>1, <2>1, <2>2 DEF TickType, Pcs
  <2>4. TickOK(a)
    BY <1>1, <1>2, <1>4, <2>3 DEF TickOK
  <2> QED
    BY <1>4, <2>1, <2>3, <2>4 DEF Delivering
<1> QED
  BY <1>3, <1>4

LEMMA ListDueTyped ==
  ASSUME TInv, NEW t \in Ticks, ListDue(t)
  PROVE  TInv' /\ Grows
<1>1. Grows /\ UNCHANGED <<clock, stamp, visible, active, deliveries, inserted, cursor, posts, aborts>>
  BY DEF Grows, ListDue, eventVars, rowVars
<1>2. \A n \in Due : n \in DOMAIN inserted /\ IsDue(deliveries[inserted[n]])
  BY DEF Due
<1>3. \A n \in Due : deliveries[inserted[n]].attempts \in 0..(MaxAttempts - 1)
  <2> TAKE n \in Due
  <2>1. inserted[n] \in Keys
    BY <1>2 DEF TInv, TypeOK
  <2>2. deliveries[inserted[n]] \in Row
    BY <2>1 DEF TInv, TypeOK
  <2>3. deliveries[inserted[n]].attempts < MaxAttempts
    BY <1>2, <2>1 DEF IsDue, TInv, RetriesLeft
  <2> QED
    BY <2>2, <2>3, Bounds DEF Row
<1>4. PICK due : due = [n \in Due |-> deliveries[inserted[n]].attempts]
  OBVIOUS
<1>5. due \in DueList(Due) /\ Due \in SUBSET DOMAIN inserted
  BY <1>2, <1>3, <1>4 DEF DueList
<1>6. PICK a : a = Delivering(due)
  OBVIOUS
<1>7. tick' = [tick EXCEPT ![t] = a]
  BY <1>4, <1>6 DEF ListDue
<1>8. TickOK(a) /\ a \in TickType
  BY <1>5, <1>6, DeliveringOK
<1>9. TickOK(a)' /\ a \in TickType'
  BY <1>1, <1>8, TickKept
<1>10. (\A u \in Ticks : TickOK(tick[u]))' /\ (tick \in [Ticks -> TickType])'
  BY <1>1, <1>7, <1>9, TickReplaced
<1> QED
  BY <1>1, <1>10 DEF TInv, TypeOK, RetriesLeft

\* The delivery a tick is at: a row, with an attempt left when it was listed.
LEMMA AtDelivery ==
  ASSUME TInv, NEW t \in Ticks, tick[t].pc \in {"check", "post", "mark"}
  PROVE  /\ Current(t) \in Keys /\ Tried(t) \in 0..(MaxAttempts - 1)
         /\ Earliest(DOMAIN tick[t].due) \in DOMAIN tick[t].due
         /\ \A n \in DOMAIN tick[t].due : Earliest(DOMAIN tick[t].due) <= n
         /\ DOMAIN tick[t].due \subseteq DOMAIN inserted
         /\ TickOK(Rest(tick[t])) /\ Rest(tick[t]) \in TickType
<1> DEFINE D == DOMAIN tick[t].due
           n == Earliest(D)
<1>1. D \subseteq DOMAIN inserted /\ D # {} /\ \A m \in D : tick[t].due[m] \in 0..(MaxAttempts - 1)
  BY FieldsOf DEF TickOK
<1>2. inserted \in Seq(Keys)
  BY DEF TInv, TypeOK
<1>3. D \in SUBSET Nat
  BY <1>1, <1>2
<1>4. n \in D /\ \A m \in D : n <= m
  BY <1>1, <1>3, EarliestIsLeast
<1>5. Current(t) \in Keys /\ Tried(t) \in 0..(MaxAttempts - 1)
  BY <1>1, <1>2, <1>4 DEF Current, Tried
<1>6. PICK due : due = [m \in D \ {n} |-> tick[t].due[m]]
  OBVIOUS
<1>7. due \in DueList(D \ {n}) /\ D \ {n} \in SUBSET DOMAIN inserted
  BY <1>1, <1>6 DEF DueList
<1>8. TickOK(Delivering(due)) /\ Delivering(due) \in TickType
  BY <1>7, DeliveringOK
<1>9. Rest(tick[t]) = Delivering(due)
  BY <1>6 DEF Rest
<1> QED
  BY <1>1, <1>4, <1>5, <1>8, <1>9

\* A tick that writes an attempt down and goes to its next delivery.
LEMMA AttemptTyped ==
  ASSUME TInv, NEW t \in Ticks, tick[t].pc \in {"check", "post", "mark"}, NEW row \in Row,
         row.next # "never" => row.attempts < MaxAttempts,
         deliveries' = [deliveries EXCEPT ![Current(t)] = row],
         tick' = [tick EXCEPT ![t] = Rest(tick[t])],
         UNCHANGED <<clock, stamp, visible, active, inserted, cursor, posts, aborts>>
  PROVE  TInv' /\ Grows
<1>1. Grows
  BY DEF Grows
<1>2. Current(t) \in Keys /\ TickOK(Rest(tick[t])) /\ Rest(tick[t]) \in TickType
  BY AtDelivery
<1>3. PICK a : a = Rest(tick[t])
  OBVIOUS
<1>4. TickOK(a)' /\ a \in TickType'
  BY <1>1, <1>2, <1>3, TickKept
<1>5. (\A u \in Ticks : TickOK(tick[u]))' /\ (tick \in [Ticks -> TickType])'
  BY <1>1, <1>3, <1>4, TickReplaced
<1>6. deliveries' \in [Keys -> Row] /\ RetriesLeft'
  BY <1>2 DEF TInv, TypeOK, RetriesLeft
<1> QED
  BY <1>1, <1>5, <1>6 DEF TInv, TypeOK

\* What a tick writes for an attempt.
LEMMA AttemptRows ==
  ASSUME NEW n \in 0..(MaxAttempts - 1)
  PROVE  LET a == Counted(n)
         IN /\ a \in 1..MaxAttempts
            /\ Failed(a, "never") \in Row /\ Failed(a, "never").next = "never"
            /\ [state |-> "delivered", attempts |-> a, next |-> "never"] \in Row
            /\ RetryFailure(a) \in Row /\ RetryFailure(a).attempts = a
            /\ RetryFailure(a).next # "never" => a < MaxAttempts
<1>1. Counted(n) \in 1..MaxAttempts
  BY Bounds DEF Counted
<1>2. PICK a : a = Counted(n)
  OBVIOUS
<1>3. a \in 0..MaxAttempts
  BY <1>1, <1>2, Bounds
<1>4. /\ Failed(a, "never") \in Row /\ Failed(a, "later") \in Row
      /\ Failed(a, "never").next = "never" /\ Failed(a, "never").attempts = a
      /\ Failed(a, "later").attempts = a
      /\ [state |-> "delivered", attempts |-> a, next |-> "never"] \in Row
  BY <1>3 DEF Failed, Row
<1>5. RetryFailure(a) \in Row /\ RetryFailure(a).attempts = a
  BY <1>4 DEF RetryFailure
<1>6. RetryFailure(a).next # "never" => a < MaxAttempts
  BY <1>3, <1>4, Bounds DEF RetryFailure, Exhausted
<1> QED
  BY <1>1, <1>2, <1>4, <1>5, <1>6


LEMMA CheckSubscriptionTyped ==
  ASSUME TInv, NEW t \in Ticks, CheckSubscription(t)
  PROVE  TInv' /\ Grows
<1>1. /\ tick[t].pc = "check"
      /\ UNCHANGED <<clock, stamp, visible, active, inserted, cursor, posts, aborts>>
  BY DEF CheckSubscription, eventVars
<1>2. CASE Current(t)[1] \in active
  <2>1. tick' = [tick EXCEPT ![t].pc = "post"] /\ UNCHANGED deliveries
    BY <1>2 DEF CheckSubscription
  <2>2. Grows
    BY <1>1 DEF Grows
  <2>3. PICK a : a = [tick[t] EXCEPT !.pc = "post"]
    OBVIOUS
  <2>4. /\ a \in TickType
        /\ a.pc = "post" /\ a.since = tick[t].since /\ a.listed = tick[t].listed
        /\ a.batch = tick[t].batch /\ a.todo = tick[t].todo /\ a.due = tick[t].due
        /\ a.ok = tick[t].ok
    BY <2>3, FieldsOf DEF TickType, Pcs
  <2>5. TickOK(a)
    BY <1>1, <2>4, FieldsOf DEF TickOK
  <2>6. TickOK(a)' /\ a \in TickType'
    BY <2>2, <2>4, <2>5, TickKept
  <2>7. (\A u \in Ticks : TickOK(tick[u]))' /\ (tick \in [Ticks -> TickType])'
    BY <2>1, <2>2, <2>3, <2>6, TickReplaced
  <2> QED
    BY <1>1, <2>1, <2>2, <2>7 DEF TInv, TypeOK, RetriesLeft
<1>3. CASE Current(t)[1] \notin active
  <2>1. /\ deliveries' = [deliveries EXCEPT ![Current(t)] = Failed(Counted(Tried(t)), "never")]
        /\ tick' = [tick EXCEPT ![t] = Rest(tick[t])]
    BY <1>3 DEF CheckSubscription
  <2>2. Tried(t) \in 0..(MaxAttempts - 1)
    BY <1>1, AtDelivery
  <2>3. PICK row : row = Failed(Counted(Tried(t)), "never")
    OBVIOUS
  <2>4. row \in Row /\ row.next = "never"
    BY <2>2, <2>3, AttemptRows
  <2> QED
    BY <1>1, <2>1, <2>3, <2>4, AttemptTyped
<1> QED
  BY <1>2, <1>3

LEMMA PostTyped ==
  ASSUME TInv, NEW t \in Ticks, Post(t)
  PROVE  TInv' /\ Grows
<1>1. /\ tick[t].pc = "post" /\ Grows
      /\ UNCHANGED <<clock, stamp, visible, active, deliveries, inserted, cursor, aborts>>
  BY DEF Grows, Post, eventVars, rowVars
<1>2. PICK ok \in BOOLEAN : tick' = [tick EXCEPT ![t].pc = "mark", ![t].ok = ok]
  BY DEF Post
<1>3. PICK a : a = [tick[t] EXCEPT !.pc = "mark", !.ok = ok]
  OBVIOUS
<1>4. tick' = [tick EXCEPT ![t] = a]
  BY <1>2, <1>3
<1>5. /\ a \in TickType
      /\ a.pc = "mark" /\ a.since = tick[t].since /\ a.listed = tick[t].listed
      /\ a.batch = tick[t].batch /\ a.todo = tick[t].todo /\ a.due = tick[t].due /\ a.ok = ok
  BY <1>3, FieldsOf DEF TickType, Pcs
<1>6. TickOK(a)
  BY <1>1, <1>5, FieldsOf DEF TickOK
<1>7. TickOK(a)' /\ a \in TickType'
  BY <1>1, <1>5, <1>6, TickKept
<1>8. (\A u \in Ticks : TickOK(tick[u]))' /\ (tick \in [Ticks -> TickType])'
  BY <1>1, <1>4, <1>7, TickReplaced
<1>9. posts' \in [Keys -> Nat]
  <2>1. Current(t) \in Keys
    BY <1>1, AtDelivery
  <2>2. posts \in [Keys -> Nat] /\ posts' = [posts EXCEPT ![Current(t)] = @ + 1]
    BY DEF TInv, TypeOK, Post
  <2> QED
    BY <2>1, <2>2
<1> QED
  BY <1>1, <1>8, <1>9 DEF TInv, TypeOK, RetriesLeft

LEMMA MarkTyped ==
  ASSUME TInv, NEW t \in Ticks, Mark(t)
  PROVE  TInv' /\ Grows
<1>1. /\ tick[t].pc = "mark" /\ tick' = [tick EXCEPT ![t] = Rest(tick[t])]
      /\ UNCHANGED <<clock, stamp, visible, active, inserted, cursor, posts, aborts>>
  BY DEF Mark, eventVars
<1>2. PICK row : row = IF tick[t].ok
        THEN [state |-> "delivered", attempts |-> Counted(Tried(t)), next |-> "never"]
        ELSE RetryFailure(Counted(Tried(t)))
  OBVIOUS
<1>3. deliveries' = [deliveries EXCEPT ![Current(t)] = row]
  BY <1>2 DEF Mark
<1>4. Tried(t) \in 0..(MaxAttempts - 1)
  BY <1>1, AtDelivery
<1>5. row \in Row /\ (row.next # "never" => row.attempts < MaxAttempts)
  <2>1. PICK done : done = [state |-> "delivered", attempts |-> Counted(Tried(t)), next |-> "never"]
    OBVIOUS
  <2>2. done \in Row /\ done.next = "never"
    BY <1>4, <2>1, AttemptRows
  <2>3. PICK again : again = RetryFailure(Counted(Tried(t)))
    OBVIOUS
  <2>4. again \in Row /\ (again.next # "never" => again.attempts < MaxAttempts)
    BY <1>4, <2>3, AttemptRows
  <2>5. row = IF tick[t].ok THEN done ELSE again
    BY <1>2, <2>1, <2>3
  <2> QED
    BY <2>2, <2>4, <2>5
<1> QED
  BY <1>1, <1>3, <1>5, AttemptTyped

\* Every step keeps the types, and rows and committed events only grow.
LEMMA TypedStep == TInv /\ [Next]_vars => TInv' /\ Grows
<1> SUFFICES ASSUME TInv, [Next]_vars PROVE TInv' /\ Grows
  OBVIOUS
<1>1. CASE \E t \in Ticks : Start(t) \/ Abort(t)
  BY <1>1, StartTyped
<1>2. CASE \E t \in Ticks : Step(t)
  <2>1. PICK t \in Ticks : Step(t)
    BY <1>2
  <2> QED
    BY <2>1, ListEventsTyped, ListSubscriptionsTyped, InsertTyped, WriteCursorTyped,
       ListDueTyped, CheckSubscriptionTyped, PostTyped, MarkTyped DEF Step
<1>3. CASE ~(\E t \in Ticks : Start(t) \/ Step(t) \/ Abort(t))
  BY <1>3, OutsideTyped, Zenon DEF Next
<1> QED
  BY <1>1, <1>2, <1>3

\* What the tables and the ticks hold has the shape the schema gives it, and no
\* attempt count exceeds the limit, in every worker however its ticks overlap.
THEOREM WebhookTypes == Spec => []TypeOK
<1>1. TInv => TypeOK
  BY DEF TInv
<1> QED
  BY <1>1, InitTInv, TypedStep, PTL DEF Spec


----------------------------------------------------------------------------
(* The cursor passes nothing *)

\* Events of one source, in transactions that commit in the order they begin.
InOrder == ~LateCommits /\ AnchorEvents = {}

\* Nothing that is owed from before c is without its row.
Complete(c) ==
  \A k \in Owed : (k[2] \in visible /\ stamp[k[2]] < c) => deliveries[k].state # "none"

\* What is left out of es is no earlier than anything in it.
Behind(since, es) ==
  \A e \in visible \ es : since <= stamp[e] => \A f \in es : stamp[f] <= stamp[e]

\* A pair without a row is as it was at the start.
Blank == \A k \in Keys : deliveries[k].state = "none" => deliveries[k] = NoRow

\* A tick holds a prefix of what came after the cursor it read, and has the rows of
\* its batch still to insert or inserted.
FanOK(a) ==
  /\ a.since <= clock /\ Complete(a.since)
  /\ a.pc = "list" => /\ a.listed["anchor"] \in {None, {}}
                      /\ a.listed["audit"] = None \/ Behind(a.since, a.listed["audit"])
  /\ a.pc = "insert" =>
       /\ Behind(a.since, a.batch)
       /\ \A k \in Owed : k[2] \in a.batch => k \in a.todo \/ deliveries[k].state # "none"

\* A transaction in progress began at this instant.
StampsOK ==
  /\ \A e \in Events : stamp[e] <= clock
  /\ \A e \in Events : e \in visible => stamp[e] # 0
  /\ \A e \in Open : stamp[e] = clock

FanInv ==
  /\ TInv /\ Blank /\ StampsOK
  /\ Steady \subseteq active
  /\ cursor <= clock /\ Complete(cursor)
  /\ \A t \in Ticks : FanOK(tick[t])

LEMMA OwedKeys == Owed \subseteq Keys /\ \A k \in Owed : k[1] \in Steady /\ k[2] \in Events /\ k[2] \in Wants[k[1]]
BY Bounds DEF Owed, Keys

\* No step takes a row away: what it changes has a row then.
LEMMA RowsStay ==
  ASSUME TInv, Blank, [Next]_vars
  PROVE  \A k \in Keys : deliveries'[k] = deliveries[k] \/ deliveries'[k].state # "none"
<1> DEFINE Stay == \A k \in Keys : deliveries'[k] = deliveries[k] \/ deliveries'[k].state # "none"
<1>0. deliveries \in [Keys -> Row]
  BY DEF TInv, TypeOK
<1>1. UNCHANGED deliveries => Stay
  OBVIOUS
<1>2. ASSUME NEW j \in Keys, NEW row, row.state # "none", deliveries' = [deliveries EXCEPT ![j] = row]
      PROVE  Stay
  BY <1>0, <1>2
<1>3. ASSUME NEW k \in Keys, ComesDue(k)
      PROVE  Stay
  <2>1. PICK row : row = [deliveries[k] EXCEPT !.next = "now"]
    OBVIOUS
  <2>2. deliveries[k] \in Row /\ deliveries[k].next = "later" /\ deliveries[k].state # "none"
    BY <1>0, <1>3 DEF ComesDue, Blank, NoRow
  <2>3. row.state # "none"
    BY <2>1, <2>2 DEF Row
  <2>4. deliveries' = [deliveries EXCEPT ![k] = row]
    BY <1>3, <2>1 DEF ComesDue
  <2> QED
    BY <1>0, <2>3, <2>4
<1>4. ASSUME NEW t \in Ticks, InsertDelivery(t)
      PROVE  Stay
  <2>1. PICK k \in tick[t].todo :
          /\ k \in Keys
          /\ \A j \in Keys : j # k \/ deliveries[k] # NoRow => deliveries'[j] = deliveries[j]
          /\ deliveries'[k].state # "none" \/ deliveries[k] # NoRow
    BY <1>4, InsertStep
  <2> QED
    BY <2>1
<1>5. ASSUME NEW t \in Ticks, CheckSubscription(t)
      PROVE  Stay
  <2>1. Current(t) \in Keys
    BY <1>5, AtDelivery DEF CheckSubscription
  <2>2. PICK row : row = Failed(Counted(Tried(t)), "never")
    OBVIOUS
  <2>3. row.state # "none"
    BY <2>2 DEF Failed
  <2>4. UNCHANGED deliveries \/ deliveries' = [deliveries EXCEPT ![Current(t)] = row]
    BY <1>5, <2>2 DEF CheckSubscription
  <2> QED
    BY <1>1, <1>2, <2>1, <2>3, <2>4
<1>6. ASSUME NEW t \in Ticks, Mark(t)
      PROVE  Stay
  <2>1. Current(t) \in Keys
    BY <1>6, AtDelivery DEF Mark
  <2>2. PICK row : row = IF tick[t].ok
          THEN [state |-> "delivered", attempts |-> Counted(Tried(t)), next |-> "never"]
          ELSE RetryFailure(Counted(Tried(t)))
    OBVIOUS
  <2>3. row.state # "none"
    BY <2>2 DEF RetryFailure, Failed
  <2>4. deliveries' = [deliveries EXCEPT ![Current(t)] = row]
    BY <1>6, <2>2 DEF Mark
  <2> QED
    BY <1>2, <2>1, <2>3, <2>4
<1>7. ASSUME NEW t \in Ticks, Start(t) \/ Step(t) \/ Abort(t)
      PROVE  Stay
  BY <1>1, <1>4, <1>5, <1>6, <1>7
     DEF Start, Step, ListEvents, ListSubscriptions, WriteCursor, ListDue, Post, Abort, rowVars
<1>8. ASSUME NEW e \in Events, Begin(e) \/ Commit(e)
      PROVE  Stay
  BY <1>1, <1>8 DEF Begin, Commit, rowVars
<1>9. ASSUME NEW s \in Subs, SetActive(s)
      PROVE  Stay
  BY <1>1, <1>9 DEF SetActive, rowVars
<1>10. TimePasses \/ UNCHANGED vars => Stay
  BY <1>1 DEF TimePasses, vars, rowVars
<1> QED
  BY <1>3, <1>7, <1>8, <1>9, <1>10 DEF Next

\* Time goes on, what is committed keeps its stamp, what commits is stamped now.
LEMMA TimeStep ==
  ASSUME InOrder, TInv, StampsOK, Steady \subseteq active, [Next]_vars
  PROVE  /\ clock <= clock' /\ StampsOK' /\ (Steady \subseteq active)'
         /\ visible \subseteq visible'
         /\ \A e \in visible : stamp'[e] = stamp[e]
         /\ \A e \in visible' \ visible : stamp'[e] = clock
<1> DEFINE Goal == /\ clock <= clock' /\ StampsOK' /\ (Steady \subseteq active)'
                   /\ visible \subseteq visible'
                   /\ \A e \in visible : stamp'[e] = stamp[e]
                   /\ \A e \in visible' \ visible : stamp'[e] = clock
<1>0. clock \in 1..MaxClock /\ stamp \in [Events -> 0..MaxClock] /\ visible \subseteq Events
      /\ MaxClock \in Nat
  BY Bounds DEF TInv, TypeOK
<1>1. UNCHANGED <<clock, stamp, visible>> /\ Steady \subseteq active' => Goal
  BY <1>0 DEF StampsOK, Open
<1>2. ASSUME NEW e \in Events, Begin(e)
      PROVE  Goal
  <2>1. stamp[e] = 0 /\ stamp' = [stamp EXCEPT ![e] = clock] /\ UNCHANGED <<clock, visible, active>>
    BY <1>2 DEF Begin
  <2> QED
    BY <1>0, <2>1 DEF StampsOK, Open
<1>3. ASSUME NEW e \in Events, Commit(e)
      PROVE  Goal
  <2>1. e \in Open /\ visible' = visible \cup {e} /\ UNCHANGED <<clock, stamp, active>>
    BY <1>3 DEF Commit
  <2> QED
    BY <1>0, <2>1 DEF StampsOK, Open
<1>4. CASE TimePasses
  <2>1. Open = {} /\ clock' = clock + 1 /\ UNCHANGED <<stamp, visible, active>>
    BY <1>4 DEF TimePasses, InOrder
  <2> QED
    BY <1>0, <2>1 DEF StampsOK, Open
<1>5. ASSUME NEW s \in Subs, SetActive(s)
      PROVE  Goal
  BY <1>1, <1>5 DEF SetActive, eventVars
<1>6. ASSUME NEW k \in Keys, ComesDue(k)
      PROVE  Goal
  BY <1>1, <1>6 DEF ComesDue, eventVars
<1>7. ASSUME NEW t \in Ticks, Start(t) \/ Step(t) \/ Abort(t)
      PROVE  Goal
  BY <1>1, <1>7 DEF Start, Step, ListEvents, ListSubscriptions, InsertDelivery, WriteCursor,
     ListDue, CheckSubscription, Post, Mark, Abort, eventVars
<1>8. UNCHANGED vars => Goal
  BY <1>1 DEF vars, eventVars
<1> QED
  BY <1>2, <1>3, <1>4, <1>5, <1>6, <1>7, <1>8 DEF Next

\* What is complete stays complete, and what a tick left out stays behind it.
LEMMA FanStays ==
  ASSUME InOrder, FanInv, [Next]_vars
  PROVE  /\ \A c \in 0..MaxClock : c <= clock /\ Complete(c) => c <= clock' /\ Complete(c)'
         /\ \A since \in Nat, es \in SUBSET visible : Behind(since, es) => Behind(since, es)'
         /\ \A t \in Ticks : \A a : a = tick[t] => FanOK(a)'
<1>1. /\ clock <= clock' /\ visible \subseteq visible'
      /\ \A e \in visible : stamp'[e] = stamp[e]
      /\ \A e \in visible' \ visible : stamp'[e] = clock
  BY TimeStep DEF FanInv
<1>2. \A k \in Owed : deliveries[k].state # "none" => deliveries'[k].state # "none"
  <2>1. \A k \in Keys : deliveries'[k] = deliveries[k] \/ deliveries'[k].state # "none"
    BY RowsStay DEF FanInv
  <2> QED
    BY <2>1, OwedKeys
<1>3. /\ clock \in 1..MaxClock /\ clock' \in 1..MaxClock /\ stamp \in [Events -> 0..MaxClock]
      /\ visible \subseteq Events /\ MaxClock \in Nat /\ \A e \in Events : stamp[e] <= clock
  BY Bounds, TypedStep DEF FanInv, TInv, TypeOK, StampsOK
<1>4. ASSUME NEW c \in 0..MaxClock, c <= clock, Complete(c)
      PROVE  c <= clock' /\ Complete(c)'
  BY <1>1, <1>2, <1>3, <1>4 DEF Complete
<1>5. ASSUME NEW since \in Nat, NEW es \in SUBSET visible, Behind(since, es)
      PROVE  Behind(since, es)'
  BY <1>1, <1>3, <1>5 DEF Behind
<1>6. ASSUME NEW t \in Ticks
      PROVE  \A a : a = tick[t] => FanOK(a)'
  <2> SUFFICES ASSUME NEW a, a = tick[t] PROVE FanOK(a)'
    OBVIOUS
  <2>1. FanOK(a) /\ TickOK(a) /\ a.since \in 0..MaxClock
    BY FieldsOf DEF FanInv
  <2>2. a.since <= clock' /\ Complete(a.since)'
    BY <1>4, <2>1 DEF FanOK
  <2>3. a.listed["audit"] = None \/ a.listed["audit"] \in SUBSET visible
    BY <2>1 DEF TickOK, Sources
  <2>4. a.pc = "list" => a.listed["audit"] = None \/ Behind(a.since, a.listed["audit"])'
    BY <1>5, <2>1, <2>3 DEF FanOK
  <2>5. a.pc = "insert" => Behind(a.since, a.batch)'
    BY <1>5, <2>1 DEF FanOK, TickOK
  <2> QED
    BY <1>2, <2>1, <2>2, <2>4, <2>5 DEF FanOK
<1> QED
  BY <1>4, <1>5, <1>6


\* A step of one tick leaves the others in order.
LEMMA FanReplaced ==
  ASSUME InOrder, FanInv, [Next]_vars, NEW t \in Ticks, NEW a,
         tick' = [tick EXCEPT ![t] = a], FanOK(a)'
  PROVE  (\A u \in Ticks : FanOK(tick[u]))'
<1>1. \A u \in Ticks : FanOK(tick[u])'
  <2> TAKE u \in Ticks
  <2>1. CASE u = t
    BY <2>1 DEF FanInv, TInv
  <2>2. CASE u # t
    <3>1. tick'[u] = tick[u]
      BY <2>2 DEF FanInv, TInv
    <3>2. PICK b : b = tick[u]
      OBVIOUS
    <3>3. FanOK(b)'
      BY <3>2, FanStays
    <3> QED
      BY <3>1, <3>2, <3>3
  <2> QED
    BY <2>1, <2>2
<1> QED
  BY <1>1

\* A tick that has neither a batch nor a list.
LEMMA FanFree ==
  ASSUME InOrder, FanInv, [Next]_vars, NEW a, a.since = 0, a.pc \notin {"list", "insert"}
  PROVE  FanOK(a)'
<1>1. clock' \in 1..MaxClock /\ stamp' \in [Events -> 0..MaxClock] /\ MaxClock \in Nat
  BY TypedStep, Bounds DEF FanInv, TInv, TypeOK
<1>2. Complete(0)'
  BY <1>1, OwedKeys DEF Complete
<1> QED
  BY <1>1, <1>2 DEF FanOK

LEMMA StartFans ==
  ASSUME InOrder, FanInv, NEW t \in Ticks, Start(t)
  PROVE  (\A u \in Ticks : FanOK(tick[u]))'
<1>1. [Next]_vars
  BY DEF Next
<1>2. PICK a : a = [Idle EXCEPT !.pc = "list", !.since = cursor]
  OBVIOUS
<1>3. tick' = [tick EXCEPT ![t] = a] /\ UNCHANGED <<clock, stamp, visible, active, deliveries, cursor>>
  BY <1>2 DEF Start, eventVars, rowVars
<1>4. a.pc = "list" /\ a.since = cursor /\ a.listed = [s \in Sources |-> None]
  BY <1>2 DEF Idle
<1>5. FanOK(a)
  BY <1>4 DEF FanOK, FanInv, Sources
<1>6. FanOK(a)'
  BY <1>3, <1>5 DEF FanOK, Complete, Behind
<1> QED
  BY <1>1, <1>3, <1>6, FanReplaced

\* A full list leaves out nothing earlier than what it holds; a later commit is stamped later.
LEMMA ListEventsFans ==
  ASSUME InOrder, FanInv, NEW t \in Ticks, NEW source \in Sources, ListEvents(t, source)
  PROVE  (\A u \in Ticks : FanOK(tick[u]))'
<1>1. [Next]_vars
  BY DEF Next, Step
<1>2. PICK es \in Firsts(Fresh(EventsOf(source), tick[t].since), BatchSize) :
        tick' = [tick EXCEPT ![t].listed[source] = es]
  BY DEF ListEvents
<1>3. PICK l : l = [tick[t].listed EXCEPT ![source] = es]
  OBVIOUS
<1>4. PICK a : a = [tick[t] EXCEPT !.listed = l]
  OBVIOUS
<1>5. tick' = [tick EXCEPT ![t] = a] /\ UNCHANGED <<clock, stamp, visible, active, deliveries, cursor>>
  BY <1>2, <1>3, <1>4 DEF ListEvents, eventVars, rowVars
<1>6. tick[t].pc = "list" /\ FanOK(tick[t])
  BY DEF ListEvents, FanInv
<1>7. a.pc = "list" /\ a.since = tick[t].since /\ a.listed = l
  BY <1>4, <1>6, FieldsOf DEF TickType, FanInv
<1>8. /\ l[source] = es /\ \A other \in Sources : other # source => l[other] = tick[t].listed[other]
  BY <1>3, FieldsOf DEF FanInv
<1>9. es \subseteq Fresh(EventsOf(source), tick[t].since)
      /\ \A e \in es, f \in Fresh(EventsOf(source), tick[t].since) \ es : stamp[e] <= stamp[f]
  BY <1>2 DEF Firsts
<1>10. l["anchor"] \in {None, {}}
  <2>1. CASE source = "anchor"
    BY <1>8, <1>9, <2>1 DEF Fresh, EventsOf, InOrder
  <2>2. CASE source # "anchor"
    BY <1>6, <1>8, <2>2 DEF FanOK, Sources
  <2> QED
    BY <2>1, <2>2
<1>11. l["audit"] = None \/ Behind(tick[t].since, l["audit"])
  <2>1. CASE source = "audit"
    <3>1. EventsOf("audit") = Events /\ visible \subseteq Events
      BY DEF EventsOf, InOrder, FanInv, TInv, TypeOK
    <3> QED
      BY <1>8, <1>9, <2>1, <3>1 DEF Behind, Fresh
  <2>2. CASE source # "audit"
    BY <1>6, <1>8, <2>2 DEF FanOK, Sources
  <2> QED
    BY <2>1, <2>2
<1>12. FanOK(a)
  BY <1>6, <1>7, <1>10, <1>11 DEF FanOK
<1>13. FanOK(a)'
  BY <1>5, <1>12 DEF FanOK, Complete, Behind
<1> QED
  BY <1>1, <1>5, <1>13, FanReplaced

\* Cutting the merged list keeps its earliest events, and every pair that is owed
\* one of them is on the list of inserts.
LEMMA ListSubscriptionsFans ==
  ASSUME InOrder, FanInv, NEW t \in Ticks, ListSubscriptions(t)
  PROVE  (\A u \in Ticks : FanOK(tick[u]))'
<1>1. [Next]_vars
  BY DEF Next, Step
<1> DEFINE all == UNION {tick[t].listed[source] : source \in Sources}
<1>2. PICK es \in Firsts(all, BatchSize) :
        tick' = [tick EXCEPT ![t].pc = "insert", ![t].batch = es,
                             ![t].todo = {k \in active \X es : k[2] \in Wants[k[1]]}]
  BY DEF ListSubscriptions
<1>3. PICK td : td = {k \in active \X es : k[2] \in Wants[k[1]]}
  OBVIOUS
<1>4. PICK a : a = [tick[t] EXCEPT !.pc = "insert", !.batch = es, !.todo = td]
  OBVIOUS
<1>5. tick' = [tick EXCEPT ![t] = a] /\ UNCHANGED <<clock, stamp, visible, active, deliveries, cursor>>
  BY <1>2, <1>3, <1>4 DEF ListSubscriptions, eventVars, rowVars
<1>6. /\ tick[t].pc = "list" /\ FanOK(tick[t])
      /\ tick[t].listed["audit"] # None /\ tick[t].listed["anchor"] # None
  BY DEF ListSubscriptions, FanInv, Sources
<1>7. a.pc = "insert" /\ a.since = tick[t].since /\ a.batch = es /\ a.todo = td
  BY <1>4, FieldsOf DEF TickType, FanInv
<1>8. tick[t].listed["anchor"] = {} /\ Behind(tick[t].since, tick[t].listed["audit"])
  BY <1>6 DEF FanOK
<1>9. all = tick[t].listed["audit"]
  BY <1>8 DEF Sources
<1>10. /\ es \subseteq tick[t].listed["audit"]
       /\ \A e \in es, f \in tick[t].listed["audit"] \ es : stamp[e] <= stamp[f]
  BY <1>2, <1>9 DEF Firsts
<1>11. Behind(tick[t].since, es)
  BY <1>8, <1>10 DEF Behind
<1>12. \A k \in Owed : k[2] \in es => k \in td
  BY <1>3, OwedKeys DEF FanInv, Owed
<1>13. FanOK(a)
  BY <1>6, <1>7, <1>11, <1>12 DEF FanOK
<1>14. FanOK(a)'
  BY <1>5, <1>13 DEF FanOK, Complete, Behind
<1> QED
  BY <1>1, <1>5, <1>14, FanReplaced

LEMMA InsertFans ==
  ASSUME InOrder, FanInv, NEW t \in Ticks, InsertDelivery(t)
  PROVE  (\A u \in Ticks : FanOK(tick[u]))'
<1>1. [Next]_vars
  BY DEF Next, Step
<1>2. PICK k \in tick[t].todo :
        /\ k \in Keys
        /\ tick' = [tick EXCEPT ![t].todo = @ \ {k}]
        /\ \A j \in Keys : j # k \/ deliveries[k] # NoRow => deliveries'[j] = deliveries[j]
        /\ deliveries'[k].state # "none" \/ deliveries[k] # NoRow
  BY InsertStep DEF FanInv
<1>3. PICK td : td = tick[t].todo \ {k}
  OBVIOUS
<1>4. PICK a : a = [tick[t] EXCEPT !.todo = td]
  OBVIOUS
<1>5. tick' = [tick EXCEPT ![t] = a] /\ UNCHANGED <<clock, stamp, visible>>
  BY <1>2, <1>3, <1>4 DEF InsertDelivery, eventVars
<1>6. PICK b : b = tick[t]
  OBVIOUS
<1>7. FanOK(b)' /\ b.pc = "insert"
  BY <1>1, <1>6, FanStays DEF InsertDelivery
<1>8. a.pc = "insert" /\ a.since = b.since /\ a.batch = b.batch /\ a.todo = b.todo \ {k}
  BY <1>3, <1>4, <1>6, <1>7, FieldsOf DEF TickType, FanInv
<1>9. deliveries'[k].state # "none"
  <2>1. CASE deliveries[k] = NoRow
    BY <1>2, <2>1
  <2>2. CASE deliveries[k] # NoRow
    BY <1>2, <2>2 DEF FanInv, Blank
  <2> QED
    BY <2>1, <2>2
<1>10. FanOK(a)'
  BY <1>7, <1>8, <1>9 DEF FanOK
<1> QED
  BY <1>1, <1>5, <1>10, FanReplaced


\* The new cursor: whatever is earlier was in the batch, or before the cursor read.
LEMMA CursorFans ==
  ASSUME InOrder, FanInv, NEW t \in Ticks, WriteCursor(t)
  PROVE  /\ cursor' <= clock /\ Complete(cursor')
         /\ (\A u \in Ticks : FanOK(tick[u]))'
<1>1. [Next]_vars
  BY DEF Next, Step
<1>2. PICK a : a = [Idle EXCEPT !.pc = "due"]
  OBVIOUS
<1>3. tick' = [tick EXCEPT ![t] = a]
  BY <1>2 DEF WriteCursor
<1>4. a.since = 0 /\ a.pc = "due"
  BY <1>2 DEF Idle
<1>5. (\A u \in Ticks : FanOK(tick[u]))'
  BY <1>1, <1>3, <1>4, FanFree, FanReplaced
<1>6. CASE tick[t].batch = {}
  BY <1>5, <1>6 DEF WriteCursor, FanInv
<1>7. CASE tick[t].batch # {}
  <2>1. PICK es : es = tick[t].batch
    OBVIOUS
  <2>2. stamp \in [Events -> 0..MaxClock] /\ MaxClock \in Nat /\ visible \subseteq Events
        /\ es \in SUBSET Events /\ clock \in 1..MaxClock
    BY <2>1, Bounds, FieldsOf DEF FanInv, TInv, TypeOK
  <2>3. PICK n : n = Newest(es)
    OBVIOUS
  <2>4. n \in {stamp[e] : e \in es} /\ \A e \in es : stamp[e] <= n
    BY <1>7, <2>1, <2>2, <2>3, NewestIsGreatest
  <2>5. n \in Nat /\ n <= clock
    BY <2>2, <2>4 DEF FanInv, StampsOK
  <2>6. /\ tick[t].pc = "insert" /\ tick[t].todo = {} /\ FanOK(tick[t])
        /\ tick[t].since \in Nat
    BY FieldsOf, Bounds DEF WriteCursor, FanInv
  <2>7. /\ Complete(tick[t].since) /\ Behind(tick[t].since, es)
        /\ \A k \in Owed : k[2] \in es => deliveries[k].state # "none"
    BY <2>1, <2>6 DEF FanOK
  <2>8. ASSUME NEW k \in Owed, k[2] \in visible, stamp[k[2]] < n
        PROVE  deliveries[k].state # "none"
    <3>1. CASE k[2] \in es
      BY <2>7, <3>1
    <3>2. CASE k[2] \notin es /\ tick[t].since <= stamp[k[2]]
      <4>1. \A f \in es : stamp[f] <= stamp[k[2]]
        BY <2>7, <2>8, <3>2 DEF Behind
      <4> QED
        BY <2>2, <2>4, <2>8, <4>1
    <3>3. CASE ~(tick[t].since <= stamp[k[2]])
      <4>1. stamp[k[2]] < tick[t].since
        BY <2>2, <2>6, <2>8, <3>3
      <4> QED
        BY <2>7, <2>8, <4>1 DEF Complete
    <3> QED
      BY <3>1, <3>2, <3>3
  <2>9. Complete(n)
    BY <2>8 DEF Complete
  <2>10. cursor' = n
    BY <1>7, <2>1, <2>3 DEF WriteCursor
  <2> QED
    BY <1>5, <2>5, <2>9, <2>10
<1> QED
  BY <1>6, <1>7

LEMMA DeliveringFans ==
  ASSUME NEW due
  PROVE  Delivering(due).since = 0 /\ Delivering(due).pc \notin {"list", "insert"}
BY DEF Delivering, Idle

\* The second half of a tick has no part in the fan-out.
LEMMA PostingFans ==
  ASSUME InOrder, FanInv, NEW t \in Ticks,
         ListDue(t) \/ CheckSubscription(t) \/ Post(t) \/ Mark(t) \/ Abort(t)
  PROVE  (\A u \in Ticks : FanOK(tick[u]))'
<1>1. [Next]_vars
  BY DEF Next, Step
<1>2. CASE ListDue(t)
  <2>1. PICK a : a = Delivering([n \in Due |-> deliveries[inserted[n]].attempts])
    OBVIOUS
  <2>2. tick' = [tick EXCEPT ![t] = a]
    BY <1>2, <2>1 DEF ListDue
  <2> QED
    BY <1>1, <2>1, <2>2, DeliveringFans, FanFree, FanReplaced
<1>3. CASE Mark(t) \/ (CheckSubscription(t) /\ Current(t)[1] \notin active)
  <2>1. PICK a : a = Rest(tick[t])
    OBVIOUS
  <2>2. tick' = [tick EXCEPT ![t] = a]
    BY <1>3, <2>1 DEF Mark, CheckSubscription
  <2>3. a.since = 0 /\ a.pc \notin {"list", "insert"}
    BY <2>1, DeliveringFans DEF Rest
  <2> QED
    BY <1>1, <2>2, <2>3, FanFree, FanReplaced
<1>4. CASE Abort(t)
  <2>1. Idle.since = 0 /\ Idle.pc = "idle"
    BY DEF Idle
  <2>2. tick' = [tick EXCEPT ![t] = Idle]
    BY <1>4 DEF Abort
  <2> QED
    BY <1>1, <2>1, <2>2, FanFree, FanReplaced
<1>5. CASE CheckSubscription(t) /\ Current(t)[1] \in active
  <2>1. PICK a : a = [tick[t] EXCEPT !.pc = "post"]
    OBVIOUS
  <2>2. tick' = [tick EXCEPT ![t] = a] /\ UNCHANGED <<clock, stamp, visible, deliveries>>
    BY <1>5, <2>1 DEF CheckSubscription, eventVars
  <2>3. a.pc = "post" /\ a.since = tick[t].since
    BY <2>1, FieldsOf DEF TickType, FanInv
  <2>4. FanOK(a)'
    BY <2>2, <2>3 DEF FanOK, FanInv, Complete
  <2> QED
    BY <1>1, <2>2, <2>4, FanReplaced
<1>6. CASE Post(t)
  <2>1. PICK ok \in BOOLEAN : tick' = [tick EXCEPT ![t].pc = "mark", ![t].ok = ok]
    BY <1>6 DEF Post
  <2>2. PICK a : a = [tick[t] EXCEPT !.pc = "mark", !.ok = ok]
    OBVIOUS
  <2>3. tick' = [tick EXCEPT ![t] = a] /\ UNCHANGED <<clock, stamp, visible, deliveries>>
    BY <1>6, <2>1, <2>2 DEF Post, eventVars, rowVars
  <2>4. a.pc = "mark" /\ a.since = tick[t].since
    BY <2>2, FieldsOf DEF TickType, FanInv
  <2>5. FanOK(a)'
    BY <2>3, <2>4 DEF FanOK, FanInv, Complete
  <2> QED
    BY <1>1, <2>3, <2>5, FanReplaced
<1> QED
  BY <1>2, <1>3, <1>4, <1>5, <1>6

LEMMA FanStep == InOrder /\ FanInv /\ [Next]_vars => FanInv'
<1> SUFFICES ASSUME InOrder, FanInv, [Next]_vars PROVE FanInv'
  OBVIOUS
<1>1. TInv' /\ StampsOK' /\ (Steady \subseteq active)' /\ clock <= clock'
  BY TypedStep, TimeStep DEF FanInv
<1>2. Blank'
  <2>1. \A k \in Keys : deliveries'[k] = deliveries[k] \/ deliveries'[k].state # "none"
    BY RowsStay DEF FanInv
  <2> QED
    BY <2>1 DEF FanInv, Blank
<1>3. cursor \in 0..MaxClock
  BY DEF FanInv, TInv, TypeOK
<1>4. cursor <= clock' /\ \A c : c = cursor => Complete(c)'
  BY <1>3, FanStays DEF FanInv
<1>5. CASE \E t \in Ticks : WriteCursor(t)
  <2>1. PICK t \in Ticks : WriteCursor(t)
    BY <1>5
  <2>2. cursor' <= clock /\ Complete(cursor') /\ (\A u \in Ticks : FanOK(tick[u]))'
    BY <2>1, CursorFans
  <2>3. UNCHANGED <<clock, stamp, visible, deliveries>>
    BY <2>1 DEF WriteCursor, eventVars, rowVars
  <2>4. (cursor <= clock /\ Complete(cursor))'
    BY <2>2, <2>3 DEF Complete
  <2> QED
    BY <1>1, <1>2, <2>2, <2>4 DEF FanInv
<1>6. CASE ~(\E t \in Ticks : WriteCursor(t))
  <2>1. UNCHANGED cursor
    BY <1>6 DEF Next, Begin, Commit, TimePasses, SetActive, ComesDue, Start, Step, ListEvents,
       ListSubscriptions, InsertDelivery, ListDue, CheckSubscription, Post, Mark, Abort, vars
  <2>2. (cursor <= clock /\ Complete(cursor))'
    BY <1>4, <2>1
  <2>3. (\A u \in Ticks : FanOK(tick[u]))'
    <3>1. CASE \E t \in Ticks : Start(t) \/ Step(t) \/ Abort(t)
      BY <1>6, <3>1, StartFans, ListEventsFans, ListSubscriptionsFans, InsertFans, PostingFans
         DEF Step
    <3>2. CASE ~(\E t \in Ticks : Start(t) \/ Step(t) \/ Abort(t))
      <4>1. UNCHANGED tick
        BY <3>2 DEF Next, Begin, Commit, TimePasses, SetActive, ComesDue, vars
      <4>2. \A t \in Ticks : \A a : a = tick[t] => FanOK(a)'
        BY FanStays
      <4> QED
        BY <4>1, <4>2
    <3> QED
      BY <3>1, <3>2
  <2> QED
    BY <1>1, <1>2, <2>2, <2>3 DEF FanInv
<1> QED
  BY <1>5, <1>6

LEMMA FanInit == Init => FanInv
<1> SUFFICES ASSUME Init PROVE FanInv
  OBVIOUS
<1>1. TInv
  BY InitTInv
<1>2. /\ clock = 1 /\ stamp = [e \in Events |-> 0] /\ visible = {} /\ cursor = 0
      /\ active \in {Subs, Steady} /\ deliveries = [k \in Keys |-> NoRow]
      /\ \A t \in Ticks : tick[t] = Idle
  BY DEF Init
<1>3. StampsOK /\ Steady \subseteq active /\ Blank
  BY <1>2, Bounds DEF StampsOK, Open, Blank
<1>4. Complete(0) /\ Idle.since = 0 /\ Idle.pc = "idle"
  BY <1>2 DEF Complete, Idle
<1>5. FanOK(Idle)
  BY <1>2, <1>4 DEF FanOK
<1> QED
  BY <1>1, <1>2, <1>3, <1>4, <1>5 DEF FanInv

\* While events of one source commit in the order of their created_at, no cursor
\* written by any number of racing and dying ticks passes an event that is owed.
THEOREM CursorSkipsNothing ==
  ASSUME InOrder
  PROVE  Spec => []NothingSkipped
<1>1. FanInv => NothingSkipped
  BY DEF FanInv, Complete, NothingSkipped
<1> QED
  BY <1>1, FanInit, FanStep, PTL DEF Spec


----------------------------------------------------------------------------
(* One tick at a time *)

\* The attempt being made, not yet written down.
Underway(k, t) == IF tick[t].pc = "mark" /\ Current(t) = k THEN 1 ELSE 0

\* Each row is inserted once, and a delivered one is not due.
RowsOnce ==
  /\ \A m, n \in DOMAIN inserted : inserted[m] = inserted[n] => m = n
  /\ \A n \in DOMAIN inserted : deliveries[inserted[n]].state # "none"
  /\ \A k \in Keys : deliveries[k].state = "delivered" => deliveries[k].next = "never"

\* What the tick listed is still what the rows hold.
ListCurrent(t) ==
  \A n \in DOMAIN tick[t].due :
    /\ tick[t].due[n] = deliveries[inserted[n]].attempts
    /\ deliveries[inserted[n]].state # "delivered"

SentInv(t) ==
  /\ TInv /\ Blank /\ RowsOnce /\ ListCurrent(t)
  /\ \A k \in Keys : posts[k] <= deliveries[k].attempts + aborts + Underway(k, t)

LEMMA IdleHoldsNothing ==
  /\ DOMAIN Idle.due = {} /\ Idle.pc = "idle"
  /\ \A due : DOMAIN Delivering(due).due \subseteq DOMAIN due
  /\ \A due : \A n \in DOMAIN Delivering(due).due : Delivering(due).due[n] = due[n]
  /\ \A due : Delivering(due).pc # "mark"
BY DEF Idle, Delivering

\* An attempt that is written down counts every post of its delivery.
LEMMA AttemptSent ==
  ASSUME NEW t, SentInv(t), Ticks = {t}, tick[t].pc \in {"check", "mark"}, NEW row \in Row,
         row.attempts = Counted(Tried(t)), row.state # "none",
         row.state = "delivered" => row.next = "never",
         deliveries' = [deliveries EXCEPT ![Current(t)] = row],
         tick' = [tick EXCEPT ![t] = Rest(tick[t])],
         UNCHANGED <<inserted, posts, aborts>>
  PROVE  /\ RowsOnce' /\ ListCurrent(t)'
         /\ (\A k \in Keys : posts[k] <= deliveries[k].attempts + aborts + Underway(k, t))'
         /\ deliveries[Current(t)].state # "delivered"
<1> DEFINE D == DOMAIN tick[t].due
           p == Earliest(D)
<1>1. /\ Current(t) \in Keys /\ Tried(t) \in 0..(MaxAttempts - 1)
      /\ p \in D /\ D \subseteq DOMAIN inserted
  BY AtDelivery DEF SentInv
<1>2. Current(t) = inserted[p] /\ Tried(t) = tick[t].due[p]
  BY DEF Current, Tried
<1>3. Tried(t) = deliveries[Current(t)].attempts /\ deliveries[Current(t)].state # "delivered"
  BY <1>1, <1>2 DEF SentInv, ListCurrent
<1>4. /\ deliveries \in [Keys -> Row] /\ inserted \in Seq(Keys) /\ posts \in [Keys -> Nat]
      /\ aborts \in Nat /\ MaxAttempts \in Nat
  BY Bounds DEF SentInv, TInv, TypeOK
<1>5. deliveries'[Current(t)] = row /\ \A k \in Keys : k # Current(t) => deliveries'[k] = deliveries[k]
  BY <1>1, <1>4
<1>6. RowsOnce'
  BY <1>4, <1>5 DEF SentInv, RowsOnce
<1>7. PICK a : a = Rest(tick[t])
  OBVIOUS
<1>8. PICK due : due = [n \in D \ {p} |-> tick[t].due[n]]
  OBVIOUS
<1>9. a = Delivering(due)
  BY <1>7, <1>8 DEF Rest
<1>10. a.pc # "mark" /\ DOMAIN a.due \subseteq D \ {p} /\ \A n \in DOMAIN a.due : a.due[n] = tick[t].due[n]
  BY <1>8, <1>9, IdleHoldsNothing
<1>11. tick'[t] = a
  BY <1>7 DEF SentInv, TInv
<1>12. ListCurrent(t)'
  <2> SUFFICES ASSUME NEW n \in DOMAIN a.due
               PROVE  /\ a.due[n] = deliveries'[inserted[n]].attempts
                      /\ deliveries'[inserted[n]].state # "delivered"
    BY <1>11 DEF ListCurrent
  <2>1. n \in D /\ n # p /\ inserted[n] # Current(t) /\ inserted[n] \in Keys
    BY <1>1, <1>2, <1>4, <1>10 DEF SentInv, RowsOnce
  <2> QED
    BY <1>5, <1>10, <2>1 DEF SentInv, ListCurrent
<1>13. ASSUME NEW k \in Keys
       PROVE  (posts[k] <= deliveries[k].attempts + aborts + Underway(k, t))'
  <2>1. /\ posts[k] <= deliveries[k].attempts + aborts + Underway(k, t)
        /\ posts[k] \in Nat /\ deliveries[k].attempts \in Nat
    BY <1>4 DEF SentInv, Row
  <2>2. Underway(k, t)' = 0
    BY <1>10, <1>11 DEF Underway
  <2>3. CASE k = Current(t)
    BY <1>1, <1>3, <1>4, <1>5, <2>1, <2>2, <2>3 DEF Counted, Underway
  <2>4. CASE k # Current(t)
    BY <1>4, <1>5, <2>1, <2>2, <2>4 DEF Underway
  <2> QED
    BY <2>3, <2>4
<1> QED
  BY <1>3, <1>6, <1>12, <1>13

\* While the tick posts nothing and writes nothing down, rows keep their count.
LEMMA NothingSent ==
  ASSUME NEW t \in Ticks, SentInv(t), TInv', UNCHANGED <<inserted, posts>>, aborts <= aborts',
         \A k \in Keys : deliveries'[k].attempts = deliveries[k].attempts
                         /\ deliveries'[k].state = deliveries[k].state,
         \A k \in Keys : deliveries[k].state = "delivered" => deliveries'[k] = deliveries[k],
         \/ /\ tick'[t].due = tick[t].due
            /\ tick[t].pc = "mark" <=> tick'[t].pc = "mark"
         \/ /\ DOMAIN tick'[t].due = {} /\ tick'[t].pc # "mark"
            /\ tick[t].pc # "mark" \/ aborts' = aborts + 1
  PROVE  /\ RowsOnce' /\ ListCurrent(t)'
         /\ (\A k \in Keys : posts[k] <= deliveries[k].attempts + aborts + Underway(k, t))'
<1>1. /\ deliveries \in [Keys -> Row] /\ inserted \in Seq(Keys) /\ posts \in [Keys -> Nat]
      /\ aborts \in Nat /\ aborts' \in Nat
  BY Bounds DEF SentInv, TInv, TypeOK
<1>2. RowsOnce'
  <2>1. \A n \in DOMAIN inserted : inserted[n] \in Keys
    BY <1>1
  <2>2. \A n \in DOMAIN inserted : deliveries'[inserted[n]].state # "none"
    BY <2>1 DEF SentInv, RowsOnce
  <2>3. \A k \in Keys : deliveries'[k].state = "delivered" => deliveries'[k].next = "never"
    BY DEF SentInv, RowsOnce
  <2> QED
    BY <2>2, <2>3 DEF SentInv, RowsOnce
<1>3. CASE /\ tick'[t].due = tick[t].due
           /\ tick[t].pc = "mark" <=> tick'[t].pc = "mark"
  <2>1. DOMAIN tick[t].due \subseteq DOMAIN inserted
    BY FieldsOf DEF SentInv, TickOK
  <2>2. ListCurrent(t)'
    <3> SUFFICES ASSUME NEW n \in DOMAIN tick[t].due
                 PROVE  /\ tick[t].due[n] = deliveries'[inserted[n]].attempts
                        /\ deliveries'[inserted[n]].state # "delivered"
      BY <1>3 DEF ListCurrent
    <3>1. inserted[n] \in Keys
      BY <1>1, <2>1
    <3> QED
      BY <3>1 DEF SentInv, ListCurrent
  <2>3. \A k \in Keys : Underway(k, t)' = Underway(k, t)
    BY <1>3 DEF Underway, Current
  <2>4. ASSUME NEW k \in Keys
        PROVE  (posts[k] <= deliveries[k].attempts + aborts + Underway(k, t))'
    <3>1. posts[k] \in Nat /\ deliveries[k].attempts \in Nat /\ Underway(k, t) \in {0, 1}
      BY <1>1 DEF Row, Underway
    <3> QED
      BY <1>1, <2>3, <3>1 DEF SentInv
  <2> QED
    BY <1>2, <2>2, <2>4
<1>4. CASE /\ DOMAIN tick'[t].due = {} /\ tick'[t].pc # "mark"
           /\ tick[t].pc # "mark" \/ aborts' = aborts + 1
  <2>1. ListCurrent(t)'
    BY <1>4 DEF ListCurrent
  <2>2. ASSUME NEW k \in Keys
        PROVE  (posts[k] <= deliveries[k].attempts + aborts + Underway(k, t))'
    <3>1. posts[k] \in Nat /\ deliveries[k].attempts \in Nat
      BY <1>1 DEF Row
    <3>2. Underway(k, t)' = 0
      BY <1>4 DEF Underway
    <3> QED
      BY <1>1, <1>4, <3>1, <3>2 DEF SentInv, Underway
  <2> QED
    BY <1>2, <2>1, <2>2
<1> QED
  BY <1>3, <1>4


LEMMA InsertSent ==
  ASSUME NEW t \in Ticks, SentInv(t), TInv', InsertDelivery(t)
  PROVE  /\ RowsOnce' /\ ListCurrent(t)'
         /\ (\A k \in Keys : posts[k] <= deliveries[k].attempts + aborts + Underway(k, t))'
<1>1. PICK k \in tick[t].todo :
        /\ k \in Keys
        /\ inserted' = IF deliveries[k] = NoRow THEN Append(inserted, k) ELSE inserted
        /\ tick' = [tick EXCEPT ![t].todo = @ \ {k}]
        /\ \A j \in Keys : j # k \/ deliveries[k] # NoRow => deliveries'[j] = deliveries[j]
        /\ deliveries[k] = NoRow => deliveries'[k] = Pending
  BY InsertStep DEF SentInv
<1>2. tick[t].pc = "insert" /\ UNCHANGED <<posts, aborts>>
  BY DEF InsertDelivery
<1>3. PICK a : a = [tick[t] EXCEPT !.todo = tick[t].todo \ {k}]
  OBVIOUS
<1>4. tick'[t] = a /\ a.pc = "insert" /\ a.due = tick[t].due
  BY <1>1, <1>2, <1>3, FieldsOf DEF TickType, SentInv, TInv
<1>5. DOMAIN a.due = {}
  BY <1>2, <1>4, FieldsOf DEF TickOK, SentInv
<1>6. ListCurrent(t)'
  BY <1>4, <1>5 DEF ListCurrent
<1>7. /\ NoRow.attempts = 0 /\ NoRow.state = "none"
      /\ Pending.attempts = 0 /\ Pending.state = "pending"
  BY DEF NoRow, Pending
<1>8. inserted \in Seq(Keys) /\ posts \in [Keys -> Nat] /\ deliveries \in [Keys -> Row]
      /\ \A n \in DOMAIN inserted : inserted[n] \in Keys
  BY DEF SentInv, TInv, TypeOK
<1>9. RowsOnce'
  <2>1. CASE deliveries[k] # NoRow
    <3>1. inserted' = inserted /\ \A j \in Keys : deliveries'[j] = deliveries[j]
      BY <1>1, <2>1
    <3> QED
      BY <1>8, <3>1 DEF SentInv, RowsOnce
  <2>2. CASE deliveries[k] = NoRow
    <3>1. /\ Len(inserted) \in Nat /\ DOMAIN inserted = 1..Len(inserted)
          /\ DOMAIN inserted' = 1..(Len(inserted) + 1)
          /\ inserted'[Len(inserted) + 1] = k
          /\ \A n \in DOMAIN inserted : inserted'[n] = inserted[n]
      BY <1>1, <1>8, <2>2
    <3>2. \A n \in DOMAIN inserted : inserted[n] # k
      BY <1>7, <2>2 DEF SentInv, RowsOnce
    <3>3. \A m, n \in DOMAIN inserted' : inserted'[m] = inserted'[n] => m = n
      BY <3>1, <3>2 DEF SentInv, RowsOnce
    <3>4. \A n \in DOMAIN inserted' : deliveries'[inserted'[n]].state # "none"
      <4>1. \A n \in DOMAIN inserted : deliveries'[inserted[n]].state # "none"
        BY <1>1, <1>8, <3>2 DEF SentInv, RowsOnce
      <4>2. deliveries'[k].state # "none"
        BY <1>1, <1>7, <2>2
      <4> QED
        BY <3>1, <4>1, <4>2
    <3>5. \A j \in Keys : deliveries'[j].state = "delivered" => deliveries'[j].next = "never"
      BY <1>1, <1>7, <2>2 DEF SentInv, RowsOnce
    <3> QED
      BY <3>3, <3>4, <3>5 DEF RowsOnce
  <2> QED
    BY <2>1, <2>2
<1>10. ASSUME NEW j \in Keys
       PROVE  (posts[j] <= deliveries[j].attempts + aborts + Underway(j, t))'
  <2>1. deliveries'[j].attempts = deliveries[j].attempts
    BY <1>1, <1>7
  <2>2. Underway(j, t) = 0 /\ Underway(j, t)' = 0
    BY <1>2, <1>4 DEF Underway
  <2> QED
    BY <1>2, <2>1, <2>2 DEF SentInv
<1> QED
  BY <1>6, <1>9, <1>10

LEMMA PostSent ==
  ASSUME NEW t \in Ticks, SentInv(t), TInv', Post(t)
  PROVE  /\ RowsOnce' /\ ListCurrent(t)'
         /\ (\A k \in Keys : posts[k] <= deliveries[k].attempts + aborts + Underway(k, t))'
<1>1. /\ tick[t].pc = "post" /\ posts' = [posts EXCEPT ![Current(t)] = @ + 1]
      /\ UNCHANGED <<deliveries, inserted, aborts>>
  BY DEF Post, rowVars
<1>2. PICK ok \in BOOLEAN : tick' = [tick EXCEPT ![t].pc = "mark", ![t].ok = ok]
  BY DEF Post
<1>3. PICK a : a = [tick[t] EXCEPT !.pc = "mark", !.ok = ok]
  OBVIOUS
<1>4. tick'[t] = a /\ a.pc = "mark" /\ a.due = tick[t].due
  BY <1>2, <1>3, FieldsOf DEF TickType, SentInv, TInv
<1>5. Current(t) \in Keys /\ Current(t)' = Current(t)
  BY <1>1, <1>4, AtDelivery DEF SentInv, Current
<1>6. RowsOnce' /\ ListCurrent(t)'
  BY <1>1, <1>4 DEF SentInv, RowsOnce, ListCurrent
<1>7. ASSUME NEW k \in Keys
      PROVE  (posts[k] <= deliveries[k].attempts + aborts + Underway(k, t))'
  <2>1. posts \in [Keys -> Nat] /\ deliveries[k].attempts \in Nat /\ aborts \in Nat
    BY Bounds DEF SentInv, TInv, TypeOK, Row
  <2>2. Underway(k, t) = 0 /\ Underway(k, t)' = IF Current(t) = k THEN 1 ELSE 0
    BY <1>1, <1>4, <1>5 DEF Underway
  <2> QED
    BY <1>1, <1>5, <2>1, <2>2 DEF SentInv
<1> QED
  BY <1>6, <1>7

\* A delivered row stays as it is: no list of a single tick holds it.
LEMMA SentStep ==
  ASSUME NEW t, Ticks = {t}, SentInv(t), [Next]_vars
  PROVE  /\ SentInv(t)'
         /\ \A k \in Keys : deliveries[k].state = "delivered" => deliveries'[k] = deliveries[k]
<1> DEFINE Bound == \A k \in Keys : posts[k] <= deliveries[k].attempts + aborts + Underway(k, t)
           Final == \A k \in Keys : deliveries[k].state = "delivered" => deliveries'[k] = deliveries[k]
           Goal == RowsOnce' /\ ListCurrent(t)' /\ Bound' /\ Final
<1>0. t \in Ticks /\ TInv /\ TInv' /\ aborts \in Nat /\ deliveries \in [Keys -> Row]
  <2>1. TInv /\ TInv'
    BY TypedStep DEF SentInv
  <2> QED
    BY <2>1, Bounds DEF TInv, TypeOK
<1>1. Blank'
  <2>1. \A k \in Keys : deliveries'[k] = deliveries[k] \/ deliveries'[k].state # "none"
    BY RowsStay DEF SentInv
  <2> QED
    BY <2>1 DEF SentInv, Blank
<1> SUFFICES Goal
  BY <1>0, <1>1 DEF SentInv
<1>2. UNCHANGED <<deliveries, inserted, posts, aborts, tick>> => Goal
  BY <1>0, NothingSent
<1>3. ASSUME NEW k \in Keys, ComesDue(k)
      PROVE  Goal
  <2>1. PICK row : row = [deliveries[k] EXCEPT !.next = "now"]
    OBVIOUS
  <2>2. row.state = deliveries[k].state /\ row.attempts = deliveries[k].attempts
    BY <1>0, <2>1 DEF Row
  <2>3. /\ deliveries' = [deliveries EXCEPT ![k] = row] /\ deliveries[k].next = "later"
        /\ UNCHANGED <<inserted, posts, aborts, tick>>
    BY <1>3, <2>1 DEF ComesDue
  <2>4. deliveries[k].state # "delivered"
    BY <2>3 DEF SentInv, RowsOnce
  <2>5. \A j \in Keys : /\ deliveries'[j].attempts = deliveries[j].attempts
                        /\ deliveries'[j].state = deliveries[j].state
    BY <1>0, <2>2, <2>3
  <2>6. Final
    BY <1>0, <2>3, <2>4
  <2> QED
    BY <1>0, <2>3, <2>5, <2>6, NothingSent
<1>4. CASE \/ \E e \in Events : Begin(e) \/ Commit(e)
           \/ TimePasses
           \/ \E s \in Subs : SetActive(s)
           \/ UNCHANGED vars
  BY <1>2, <1>4 DEF Begin, Commit, TimePasses, SetActive, vars, rowVars
<1>5. CASE Start(t) \/ Abort(t) \/ WriteCursor(t)
  <2>1. PICK a : a = tick'[t]
    OBVIOUS
  <2>2. DOMAIN a.due = {} /\ a.pc # "mark" /\ aborts <= aborts'
        /\ (tick[t].pc # "mark" \/ aborts' = aborts + 1)
        /\ UNCHANGED <<deliveries, inserted, posts>>
    <3>1. \E b : a = [Idle EXCEPT !.pc = "list", !.since = b] \/ a = Idle \/ a = [Idle EXCEPT !.pc = "due"]
      BY <1>0, <1>5, <2>1 DEF Start, Abort, WriteCursor, TInv
    <3>2. DOMAIN a.due = {} /\ a.pc # "mark"
      BY <3>1, IdleOK, IdleHoldsNothing DEF TickType
    <3> QED
      BY <1>0, <1>5, <3>2 DEF Start, Abort, WriteCursor, rowVars
  <2> QED
    BY <1>0, <2>1, <2>2, NothingSent
<1>6. CASE \/ \E source \in Sources : ListEvents(t, source)
           \/ ListSubscriptions(t)
           \/ CheckSubscription(t) /\ Current(t)[1] \in active
  <2>1. UNCHANGED <<deliveries, inserted, posts, aborts>>
    BY <1>6 DEF ListEvents, ListSubscriptions, CheckSubscription, rowVars
  <2>2. PICK a : a = tick'[t]
    OBVIOUS
  <2>3. \E l, es, td : \/ a = [tick[t] EXCEPT !.listed = l] /\ tick[t].pc = "list"
                       \/ a = [tick[t] EXCEPT !.pc = "insert", !.batch = es, !.todo = td]
                          /\ tick[t].pc = "list"
                       \/ a = [tick[t] EXCEPT !.pc = "post"] /\ tick[t].pc = "check"
    <3>1. ASSUME NEW source \in Sources, ListEvents(t, source)
          PROVE  \E l : a = [tick[t] EXCEPT !.listed = l] /\ tick[t].pc = "list"
      BY <1>0, <2>2, <3>1 DEF ListEvents, TInv
    <3>2. ASSUME ListSubscriptions(t)
          PROVE  \E es, td : a = [tick[t] EXCEPT !.pc = "insert", !.batch = es, !.todo = td]
                             /\ tick[t].pc = "list"
      <4>1. PICK es : tick' = [tick EXCEPT ![t].pc = "insert", ![t].batch = es,
                                 ![t].todo = {k \in active \X es : k[2] \in Wants[k[1]]}]
        BY <3>2 DEF ListSubscriptions
      <4>2. PICK td : td = {k \in active \X es : k[2] \in Wants[k[1]]}
        OBVIOUS
      <4>3. a = [tick[t] EXCEPT !.pc = "insert", !.batch = es, !.todo = td]
        BY <1>0, <2>2, <4>1, <4>2 DEF TInv
      <4> QED
        BY <3>2, <4>3 DEF ListSubscriptions
    <3>3. CheckSubscription(t) /\ Current(t)[1] \in active
            => a = [tick[t] EXCEPT !.pc = "post"] /\ tick[t].pc = "check"
      BY <1>0, <2>2 DEF CheckSubscription, TInv
    <3> QED
      BY <1>6, <3>1, <3>2, <3>3
  <2>4. a.due = tick[t].due /\ a.pc # "mark" /\ tick[t].pc # "mark"
    BY <1>0, <2>3, FieldsOf DEF TickType
  <2> QED
    BY <1>0, <2>1, <2>2, <2>4, NothingSent
<1>7. CASE InsertDelivery(t)
  <2>1. PICK k \in tick[t].todo :
          /\ k \in Keys
          /\ \A j \in Keys : j # k \/ deliveries[k] # NoRow => deliveries'[j] = deliveries[j]
    BY <1>0, <1>7, InsertStep
  <2>2. NoRow.state = "none"
    BY DEF NoRow
  <2>3. Final
    BY <2>1, <2>2
  <2> QED
    BY <1>0, <1>7, <2>3, InsertSent
<1>8. CASE ListDue(t)
  <2>1. PICK due : due = [n \in Due |-> deliveries[inserted[n]].attempts]
    OBVIOUS
  <2>2. PICK a : a = Delivering(due)
    OBVIOUS
  <2>3. tick'[t] = a /\ tick[t].pc = "due" /\ UNCHANGED <<deliveries, inserted, posts, aborts>>
    BY <1>0, <1>8, <2>1, <2>2 DEF ListDue, rowVars, TInv
  <2>4. a.pc # "mark" /\ DOMAIN a.due \subseteq Due
        /\ \A n \in DOMAIN a.due : a.due[n] = deliveries[inserted[n]].attempts
    BY <2>1, <2>2, IdleHoldsNothing
  <2>5. \A n \in Due : deliveries[inserted[n]].state # "delivered"
    BY DEF Due, IsDue
  <2>6. ListCurrent(t)'
    BY <2>3, <2>4, <2>5 DEF ListCurrent
  <2>7. RowsOnce' /\ Final
    BY <2>3 DEF SentInv, RowsOnce
  <2>8. Bound'
    BY <2>3, <2>4 DEF SentInv, Underway
  <2> QED
    BY <2>6, <2>7, <2>8
<1>9. CASE CheckSubscription(t) /\ Current(t)[1] \notin active
  <2>1. PICK row : row = Failed(Counted(Tried(t)), "never")
    OBVIOUS
  <2>2. Tried(t) \in 0..(MaxAttempts - 1)
    BY <1>0, <1>9, AtDelivery DEF CheckSubscription
  <2>3. row \in Row /\ row.attempts = Counted(Tried(t)) /\ row.state = "failed"
    BY <2>1, <2>2, AttemptRows DEF Failed
  <2>4. /\ tick[t].pc = "check" /\ deliveries' = [deliveries EXCEPT ![Current(t)] = row]
        /\ tick' = [tick EXCEPT ![t] = Rest(tick[t])] /\ UNCHANGED <<inserted, posts, aborts>>
    BY <1>9, <2>1 DEF CheckSubscription
  <2>5. RowsOnce' /\ ListCurrent(t)' /\ Bound' /\ deliveries[Current(t)].state # "delivered"
    BY <2>3, <2>4, AttemptSent
  <2>6. Final
    BY <1>0, <2>4, <2>5
  <2> QED
    BY <2>5, <2>6
<1>10. CASE Mark(t)
  <2>1. PICK row : row = IF tick[t].ok
          THEN [state |-> "delivered", attempts |-> Counted(Tried(t)), next |-> "never"]
          ELSE RetryFailure(Counted(Tried(t)))
    OBVIOUS
  <2>2. Tried(t) \in 0..(MaxAttempts - 1)
    BY <1>0, <1>10, AtDelivery DEF Mark
  <2>3. /\ row \in Row /\ row.attempts = Counted(Tried(t)) /\ row.state # "none"
        /\ row.state = "delivered" => row.next = "never"
    <3>1. PICK done : done = [state |-> "delivered", attempts |-> Counted(Tried(t)), next |-> "never"]
      OBVIOUS
    <3>2. /\ done \in Row /\ done.attempts = Counted(Tried(t)) /\ done.state = "delivered"
          /\ done.next = "never"
      BY <2>2, <3>1, AttemptRows
    <3>3. PICK again : again = RetryFailure(Counted(Tried(t)))
      OBVIOUS
    <3>4. again \in Row /\ again.attempts = Counted(Tried(t)) /\ again.state = "failed"
      BY <2>2, <3>3, AttemptRows DEF RetryFailure, Failed
    <3>5. row = IF tick[t].ok THEN done ELSE again
      BY <2>1, <3>1, <3>3
    <3> QED
      BY <3>2, <3>4, <3>5
  <2>4. /\ tick[t].pc = "mark" /\ deliveries' = [deliveries EXCEPT ![Current(t)] = row]
        /\ tick' = [tick EXCEPT ![t] = Rest(tick[t])] /\ UNCHANGED <<inserted, posts, aborts>>
    BY <1>10, <2>1 DEF Mark
  <2>5. RowsOnce' /\ ListCurrent(t)' /\ Bound' /\ deliveries[Current(t)].state # "delivered"
    BY <2>3, <2>4, AttemptSent
  <2>6. Final
    BY <1>0, <2>4, <2>5
  <2> QED
    BY <2>5, <2>6
<1>11. CASE Post(t)
  BY <1>0, <1>11, PostSent DEF Post, rowVars
<1> QED
  BY <1>3, <1>4, <1>5, <1>6, <1>7, <1>8, <1>9, <1>10, <1>11 DEF Next, Step

LEMMA SentInit == ASSUME NEW t, Ticks = {t}, Init PROVE SentInv(t)
<1>1. TInv
  BY InitTInv
<1>2. /\ inserted = <<>> /\ aborts = 0 /\ tick[t] = Idle
      /\ deliveries = [k \in Keys |-> NoRow] /\ posts = [k \in Keys |-> 0]
  BY DEF Init
<1>3. NoRow.state = "none" /\ NoRow.attempts = 0
  BY DEF NoRow
<1>4. DOMAIN Idle.due = {} /\ Idle.pc = "idle"
  BY IdleHoldsNothing
<1>5. RowsOnce /\ Blank
  BY <1>2, <1>3 DEF RowsOnce, Blank
<1>6. ListCurrent(t)
  BY <1>2, <1>4 DEF ListCurrent
<1>7. \A k \in Keys : Underway(k, t) = 0
  BY <1>2, <1>4 DEF Underway
<1> QED
  BY <1>1, <1>2, <1>3, <1>5, <1>6, <1>7 DEF SentInv

LEMMA SentBound == ASSUME NEW t, Ticks = {t}, SentInv(t) PROVE SendsAreBounded
<1>1. TInv /\ posts \in [Keys -> Nat] /\ deliveries \in [Keys -> Row] /\ aborts \in Nat
      /\ MaxAttempts \in Nat
  BY Bounds DEF SentInv, TInv, TypeOK
<1> SUFFICES ASSUME NEW k \in Keys PROVE posts[k] <= MaxAttempts + aborts
  BY DEF SendsAreBounded
<1>2. /\ posts[k] <= deliveries[k].attempts + aborts + Underway(k, t)
      /\ deliveries[k].attempts \in 0..MaxAttempts /\ posts[k] \in Nat
  BY <1>1 DEF SentInv, Row
<1>3. CASE tick[t].pc = "mark" /\ Current(t) = k
  <2>1. /\ Tried(t) \in 0..(MaxAttempts - 1)
        /\ Earliest(DOMAIN tick[t].due) \in DOMAIN tick[t].due
    BY <1>1, <1>3, AtDelivery
  <2>2. Tried(t) = deliveries[k].attempts
    BY <1>3, <2>1 DEF SentInv, ListCurrent, Tried, Current
  <2> QED
    BY <1>1, <1>2, <1>3, <2>1, <2>2 DEF Underway
<1>4. CASE ~(tick[t].pc = "mark" /\ Current(t) = k)
  BY <1>1, <1>2, <1>4 DEF Underway
<1> QED
  BY <1>3, <1>4

\* A worker with one tick at a time posts a delivery at most as often as it is
\* configured to, and once more for each tick that died before it could count.
THEOREM PostsAreBounded ==
  ASSUME NEW CONSTANT t, Ticks = {t}
  PROVE  Spec => []SendsAreBounded
<1>1. Init => SentInv(t)
  BY SentInit
<1>2. SentInv(t) /\ [Next]_vars => SentInv(t)'
  BY SentStep
<1>3. SentInv(t) => SendsAreBounded
  BY SentBound
<1> QED
  BY <1>1, <1>2, <1>3, PTL DEF Spec

\* With one tick at a time a delivered row is never written again.
THEOREM DeliveredStays ==
  ASSUME NEW CONSTANT t, Ticks = {t}
  PROVE  Spec => DeliveredIsFinal
<1>1. Init => SentInv(t)
  BY SentInit
<1>2. SentInv(t) /\ [Next]_vars => SentInv(t)'
  BY SentStep
<1>3. SentInv(t) /\ [Next]_vars =>
        [\A k \in Keys : deliveries[k].state = "delivered" => deliveries'[k] = deliveries[k]]_deliveries
  BY SentStep
<1> QED
  BY <1>1, <1>2, <1>3, PTL DEF Spec, DeliveredIsFinal
=============================================================================
