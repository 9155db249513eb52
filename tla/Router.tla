-------------------------------- MODULE Router --------------------------------
(***************************************************************************)
(* Router.buildPlans for one intent: discover adapters, enumerate paths    *)
(* from the intent's base asset to its quote asset, ask the adapter of     *)
(* each hop for a quote, drop the paths a quote fails on, and take the     *)
(* plan with the best score.  Adapters may answer differently each time    *)
(* they are asked, or reject the promise.  Sizes are left out: each hop    *)
(* sells what the hop before it is quoted to buy.                          *)
(***************************************************************************)
EXTENDS Integers, Sequences, SequencesExt

CONSTANTS
  Registry,   \* the registered adapters, in order
  Markets,    \* what they may trade: functions from adapters to sets of <<base, quote>>
  Adjustment, \* scoreAdapter: whole points per adapter
  Base, Quote,\* the intent's assets
  MaxQuotes,  \* adapters discovered
  MaxHops,
  Costs       \* bound: fee plus slippage of a quote, in basis points

Venues == ToSet(Registry)

RouterAssumption ==
  /\ Adjustment \in [Venues -> Int]
  /\ \A m \in Markets, a \in Venues : a \in DOMAIN m
  /\ MaxQuotes \in Nat /\ MaxHops \in Nat
  /\ Costs \subseteq Nat

VARIABLES
  market,   \* the pairs of each adapter
  usable,   \* the adapters canUseAdapter accepts
  pc,       \* where buildPlans stands
  todo,     \* the paths to visit, and later the candidates that are left
  quotes,   \* what the quotes of the current one add up to
  plans,    \* the plans built
  dropped,  \* the paths a quote failed on
  best      \* the plan returned, or none

vars == <<market, usable, pc, todo, quotes, plans, dropped, best>>

NoPlan == [path |-> <<>>, score |-> 0]
NoQuotes == [hops |-> 0, cost |-> 0, healthy |-> TRUE, adjustment |-> 0]

Init ==
  /\ market \in Markets
  /\ usable \in SUBSET Venues
  /\ pc = "visit"
  /\ todo = {<<>>} /\ quotes = NoQuotes
  /\ plans = {} /\ dropped = {}
  /\ best = NoPlan

----------------------------------------------------------------------------
(* Paths: sequences of [adapter, base, quote] *)

\* The limit applies to the registered adapters, before the usable ones are picked.
Discovered == ToSet(SubSeq(Registry, 1, IF MaxQuotes <= Len(Registry) THEN MaxQuotes
                                        ELSE Len(Registry)))
Eligible == Discovered \cap usable

Edges == UNION {{[adapter |-> a, base |-> p[1], quote |-> p[2]] : p \in market[a]} : a \in Eligible}

HopLimit == IF MaxHops < 1 THEN 1 ELSE MaxHops

At(path) == IF path = <<>> THEN Base ELSE path[Len(path)].quote
Seen(path) == {Base} \cup {path[i].quote : i \in DOMAIN path}

\* visit: a path that reaches the quote asset ends there; one that returns to an
\* asset it has seen is given up.
Extends(path, e) == e.base = At(path) /\ (e.quote = Quote \/ e.quote \notin Seen(path))
\* Mutant of Ends: any path will do.
EndsAnywhere(path) == path # <<>>

Ends(path) == path # <<>> /\ At(path) = Quote

Extensions(path) ==
  IF Len(path) < HopLimit THEN {Append(path, e) : e \in {e \in Edges : Extends(path, e)}} ELSE {}

\* Points are counted in quarters: fee and slippage weigh 1, a hop 1/2, health 1/4.
Score(qs) ==
  - 4 * qs.cost - 2 * qs.hops + (IF qs.healthy THEN 1 ELSE 0) + 4 * qs.adjustment

----------------------------------------------------------------------------

\* One call of visit.
Visit(path) ==
  /\ pc = "visit" /\ path \in todo /\ ~Ends(path)
  /\ todo' = (todo \ {path}) \cup Extensions(path)
  /\ UNCHANGED <<market, usable, pc, quotes, plans, dropped, best>>

VisitEnds ==
  /\ pc = "visit" /\ \A path \in todo : Ends(path)
  /\ pc' = "quote"
  /\ UNCHANGED <<market, usable, todo, quotes, plans, dropped, best>>

\* The candidates are quoted one after the other.
Current == CHOOSE path \in todo : TRUE
Unquoted == pc = "quote" /\ todo # {} /\ quotes.hops < Len(Current)

\* A hop is quoted and, for a quote, the adapter's health is asked.
GetQuote(cost, healthy) ==
  /\ Unquoted
  /\ quotes' = [hops |-> quotes.hops + 1, cost |-> quotes.cost + cost,
                healthy |-> quotes.healthy /\ healthy,
                adjustment |-> quotes.adjustment + Adjustment[Current[quotes.hops + 1].adapter]]
  /\ UNCHANGED <<market, usable, pc, todo, plans, dropped, best>>

QuoteFails ==
  /\ Unquoted
  /\ dropped' = dropped \cup {Current}
  /\ todo' = todo \ {Current}
  /\ quotes' = NoQuotes
  /\ UNCHANGED <<market, usable, pc, plans, best>>

\* A rejected promise of an adapter or of a callback ends buildPlans: no plan is
\* returned, those already built included.  Adapters are awaited before the first
\* visit and for every hop.
Rejects ==
  /\ (pc = "visit" /\ todo = {<<>>}) \/ Unquoted
  /\ pc' = "rejected"
  /\ UNCHANGED <<market, usable, todo, quotes, plans, dropped, best>>

AddPlan ==
  /\ pc = "quote" /\ todo # {} /\ quotes.hops = Len(Current)
  /\ plans' = plans \cup {[path |-> Current, score |-> Score(quotes)]}
  /\ todo' = todo \ {Current}
  /\ quotes' = NoQuotes
  /\ UNCHANGED <<market, usable, pc, dropped, best>>

\* Mutant of IsBest: sorted in ascending order.
IsWorst(p) == \A q \in plans : p.score <= q.score

IsBest(p) == \A q \in plans : q.score <= p.score

Sort ==
  /\ pc = "quote" /\ todo = {}
  /\ \/ \E p \in plans : IsBest(p) /\ best' = p /\ pc' = "done"
     \/ plans = {} /\ pc' = "throws" /\ UNCHANGED best
  /\ UNCHANGED <<market, usable, todo, quotes, plans, dropped>>

Next ==
  \/ \E path \in todo : Visit(path)
  \/ VisitEnds \/ QuoteFails \/ Rejects \/ AddPlan \/ Sort
  \/ \E cost \in Costs, healthy \in BOOLEAN : GetQuote(cost, healthy)

Spec == Init /\ [][Next]_vars

----------------------------------------------------------------------------
(* Properties *)

\* Type invariant: a path is made of pairs of eligible adapters.
TypeOK ==
  /\ market \in Markets /\ usable \subseteq Venues
  /\ pc \in {"visit", "quote", "done", "throws", "rejected"}
  /\ \A path \in todo \cup dropped \cup {p.path : p \in plans} : path \in Seq(Edges)
  /\ quotes \in [hops : Nat, cost : Nat, healthy : BOOLEAN, adjustment : Int]
  /\ \A p \in plans \cup {best} : p.score \in Int

\* What a route is, said without the search: at most MaxHops edges that follow each
\* other from the base to the quote asset and visit no asset in between twice.
IsRoute(path) ==
  LET n == Len(path) IN
  /\ n \in 1..HopLimit
  /\ path[1].base = Base /\ path[n].quote = Quote
  /\ \A i \in 1..n - 1 : path[i + 1].base = path[i].quote /\ path[i].quote \notin {Base, Quote}
  /\ \A i, j \in 1..n - 1 : path[i].quote = path[j].quote => i = j

Routes == {path \in UNION {[1..n -> Edges] : n \in 1..HopLimit} : IsRoute(path)}

\* Once buildPlans ends without a rejected promise, every route through the eligible
\* adapters was quoted: it lost a quote, or its plan is no better than the one returned.
NothingMissed ==
  pc \in {"done", "throws"} =>
    \A path \in Routes :
      path \in dropped
        \/ (pc = "done" /\ \E p \in plans : p.path = path /\ p.score <= best.score)
=============================================================================
