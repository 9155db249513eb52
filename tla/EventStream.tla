----------------------------- MODULE EventStream -----------------------------
(***************************************************************************)
(* GET /events/stream: a connection that polls the audit and anchor events *)
(* since its cursor, filters and merges them, and writes those it has not  *)
(* written yet.  Polls overlap when a query outlasts the interval, and an  *)
(* event whose transaction takes long becomes visible after later ones.    *)
(*                                                                         *)
(* A query may ask for the events of one intent, which are audit events,   *)
(* or of one type, which is a type of audit or of anchor events.  Left out *)
(* is a query for one payment anchor, whose rows the database picks before *)
(* it limits them.                                                         *)
(***************************************************************************)
EXTENDS Integers, Sequences, FiniteSets, SequencesExt

CONSTANTS
  EventCount,    \* bound: events the rest of the system writes
  AnchorEvents,  \* those of anchor_events; the others are audit events
  Filters,       \* the sets of events a query's filter lets through
  Polls,         \* polls that can be in progress at a time
  Limit,         \* the query's limit
  SeenCap,       \* ids remembered per connection (1000)
  MaxPerStamp,   \* bound: events that share a created_at
  MaxLate,       \* bound: events that become visible late
  MaxDrops       \* bound: connections that are lost

Events == 1..EventCount

StreamAssumption ==
  /\ EventCount \in Nat
  /\ AnchorEvents \subseteq Events
  /\ Filters \subseteq SUBSET Events
  /\ \A F \in Filters : F \in {Events, F \cap AnchorEvents, F \ AnchorEvents}
  /\ {Limit, SeenCap, MaxPerStamp} \subseteq Nat \ {0}
  /\ {MaxLate, MaxDrops} \subseteq Nat

VARIABLES
  clock,    \* now, in units of created_at
  stamp,    \* created_at of the events visible so far, and whether it had passed
  wanted,   \* the events the query asks for
  open,     \* a client is connected
  start,    \* the cursor the connection began with
  cursor,   \* created_at of the row written last
  seenIds,  \* the ids written, oldest first
  poll,     \* the rows a poll has loaded, or none
  written,  \* what the connection wrote
  drops     \* connections lost so far

vars == <<clock, stamp, wanted, open, start, cursor, seenIds, poll, written, drops>>

FetchLimit == 2 * Limit
NoRows == [loaded |-> FALSE, rows |-> {}]

Init ==
  /\ clock = 1
  /\ stamp = <<>>
  /\ wanted \in Filters
  /\ open = TRUE
  /\ start = 1 /\ cursor = 1
  /\ seenIds = <<>>
  /\ poll = [p \in Polls |-> NoRows]
  /\ written = <<>>
  /\ drops = 0

Inserted == DOMAIN stamp

Before(d, e) == stamp[d].at < stamp[e].at \/ (stamp[d].at = stamp[e].at /\ d < e)

\* How many rows of S come before e: the order is that of created_at, then of the ids.
Rank(S, e) == Cardinality({d \in S : Before(d, e)})

\* Mutant of FirstOf: the newest rows instead of the oldest.
NewestOf(n, S) == {e \in S : Cardinality({d \in S : Before(e, d)}) < n}

FirstOf(n, S) == {e \in S : Rank(S, e) < n}

Since(S, t) == {e \in S \cap Inserted : stamp[e].at >= t}

\* Mutant of LoadEvents: the filter comes after the limit.
LoadEventsUnfiltered(t) ==
  FirstOf(Limit, FirstOf(FetchLimit, Since(Events \ AnchorEvents, t))
                   \cup FirstOf(FetchLimit, Since(AnchorEvents, t))) \cap wanted

\* Each list is limited before the filter, and the merged rows after it.
LoadEvents(t) ==
  FirstOf(Limit, (FirstOf(FetchLimit, Since(Events \ AnchorEvents, t))
                    \cup FirstOf(FetchLimit, Since(AnchorEvents, t))) \cap wanted)

\* The rows of S one after the other.
Sorted(S) ==
  {s \in [1..Cardinality(S) -> S] :
     ToSet(s) = S /\ \A i, j \in DOMAIN s : i < j => Before(s[i], s[j])}

\* Mutant of Kept: ids are never forgotten.
KeptForEver(ids) == ids

Kept(ids) ==
  IF Len(ids) <= SeenCap THEN ids ELSE SubSeq(ids, Len(ids) - SeenCap + 1, Len(ids))

\* Mutant of IsNew: the ids are not looked up.
IsNewBlindly(e, out) == TRUE

\* At its turn, after the rows `out`, e is not among the ids remembered.
IsNew(e, out) == e \notin ToSet(Kept(seenIds \o out))

----------------------------------------------------------------------------
(* The rest of the system *)

\* created_at is the time the transaction began.
InsertEvent(at) ==
  /\ Len(stamp) < EventCount
  /\ Cardinality({e \in Inserted : stamp[e].at = at}) < MaxPerStamp
  /\ at < clock => Cardinality({e \in Inserted : stamp[e].late}) < MaxLate
  /\ stamp' = Append(stamp, [at |-> at, late |-> at < clock])
  /\ UNCHANGED <<clock, wanted, open, start, cursor, seenIds, poll, written, drops>>

TimePasses ==
  /\ clock <= Len(stamp)
  /\ clock' = clock + 1
  /\ UNCHANGED <<stamp, wanted, open, start, cursor, seenIds, poll, written, drops>>

(* The connection *)

\* A poll whose query fails is logged and changes nothing.
Load(p) ==
  /\ open /\ ~poll[p].loaded
  /\ poll' = [poll EXCEPT ![p] = [loaded |-> TRUE, rows |-> LoadEvents(cursor)]]
  /\ UNCHANGED <<clock, stamp, wanted, open, start, cursor, seenIds, written, drops>>

\* The loop takes the rows in order; `out` are those it writes.
Write(p) ==
  /\ open /\ poll[p].loaded
  /\ \E S \in SUBSET poll[p].rows : \E out \in Sorted(S) :
       /\ \A e \in poll[p].rows : e \in S <=> IsNew(e, SubSeq(out, 1, Rank(S, e)))
       /\ seenIds' = Kept(seenIds \o out)
       /\ written' = written \o out
       /\ cursor' = IF out = <<>> THEN cursor ELSE stamp[out[Len(out)]].at
  /\ poll' = [poll EXCEPT ![p] = NoRows]
  /\ UNCHANGED <<clock, stamp, wanted, open, start, drops>>

Drop ==
  /\ open /\ drops < MaxDrops
  /\ open' = FALSE
  /\ drops' = drops + 1
  /\ poll' = [p \in Polls |-> NoRows]
  /\ UNCHANGED <<clock, stamp, wanted, start, cursor, seenIds, written>>

\* The dashboard connects again without `after`: the cursor is now.
Reconnect ==
  /\ ~open
  /\ open' = TRUE
  /\ start' = clock /\ cursor' = clock
  /\ seenIds' = <<>> /\ written' = <<>>
  /\ UNCHANGED <<clock, stamp, wanted, poll, drops>>

Next ==
  \/ \E at \in 1..clock : InsertEvent(at)
  \/ TimePasses \/ Drop \/ Reconnect
  \/ \E p \in Polls : Load(p) \/ Write(p)

Spec == Init /\ [][Next]_vars

\* The interval keeps polling and a query ends.
FairSpec == Spec /\ WF_vars(\E p \in Polls : Load(p)) /\ \A p \in Polls : WF_vars(Write(p))

----------------------------------------------------------------------------
(* Properties *)

\* Type invariant.
TypeOK ==
  /\ clock \in 1..EventCount + 1
  /\ stamp \in Seq([at : 1..clock, late : BOOLEAN]) /\ Len(stamp) <= EventCount
  /\ wanted \in Filters
  /\ open \in BOOLEAN
  /\ start \in 1..clock /\ cursor \in start..clock
  /\ seenIds \in Seq(Inserted) /\ Len(seenIds) <= SeenCap
  /\ poll \in [Polls -> [loaded : BOOLEAN, rows : SUBSET Inserted]]
  /\ written \in Seq(wanted \cap Inserted)
  /\ drops \in 0..MaxDrops

\* A poll that outlasts the interval hands over rows that others have written
\* meanwhile: they are written again only when SeenCap ids came in between.
RepeatsAreFarApart ==
  \A i, j \in DOMAIN written : (i < j /\ written[i] = written[j]) => j - i > SeenCap

\* The events a connection is asked for, those aside that become visible when the
\* cursor may have gone past them.
Due(e) == e \in Inserted /\ e \in wanted /\ stamp[e].at >= start /\ ~stamp[e].late

\* A connection that wrote an event wrote every earlier one it was asked for, unless
\* that became visible late.
NoGaps ==
  \A e \in Inserted \ ToSet(written) :
    Due(e) => \A i \in DOMAIN written : stamp[written[i]].at <= stamp[e].at

\* The lists of a poll reach as far as event e: no more than FetchLimit rows of its
\* table lie between the cursor and e, be they asked for or not.
WithinReach(e) ==
  LET ahead == {d \in Inserted : /\ (d \in AnchorEvents) = (e \in AnchorEvents)
                                 /\ stamp[d].at >= cursor /\ Before(d, e)}
  IN Cardinality(ahead) < FetchLimit

\* No event of an open connection is awaited for ever while the lists reach as far,
\* through a filter and a limit that leave most of the table behind.  Events that share
\* a created_at have to be fewer than the limit (MaxPerStamp < Limit).
Awaited(e) == open /\ Due(e) /\ e \notin ToSet(written) /\ WithinReach(e)
EventArrives == \A e \in Events : []<>~Awaited(e)
=============================================================================
