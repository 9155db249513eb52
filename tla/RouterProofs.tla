----------------------------- MODULE RouterProofs -----------------------------
(***************************************************************************)
(* The theorems about the router, for every registry, market and bound.    *)
(*                                                                         *)
(* The search is right in both directions.  Nothing it returns is wrong: a *)
(* path it holds is a trail from the base asset that repeats no asset, and *)
(* one it quotes reaches the quote asset.  Nothing is missing: each route  *)
(* is on its way through `todo`, as one of its own prefixes, until it is   *)
(* quoted.                                                                 *)
(***************************************************************************)
EXTENDS Router, SequenceTheorems, TLAPS

Held == todo \cup dropped \cup {p.path : p \in plans}

\* What visit builds: edges that follow each other from the base asset.  An asset in
\* between is new and is not the quote asset; the last one may be.
Trail(path) ==
  LET n == Len(path) IN
  /\ path \in Seq(Edges) /\ n <= HopLimit
  /\ n > 0 => path[1].base = Base
  /\ \A i \in 1..n - 1 : path[i + 1].base = path[i].quote /\ path[i].quote # Quote
  /\ \A i \in 1..n : path[i].quote # Quote =>
       path[i].quote # Base /\ \A j \in 1..i - 1 : path[j].quote # path[i].quote

\* The paths that are quoted are those that reach the quote asset.
Quoted == dropped \cup {p.path : p \in plans} \cup
  (IF pc \in {"visit", "rejected"} THEN {} ELSE todo)

\* A route is quoted, or a prefix of it waits to be visited, unless a rejected promise
\* ended the search.
Reached ==
  pc # "rejected" =>
    \A path \in Routes :
      IF pc = "visit" THEN \E k \in 0..Len(path) : SubSeq(path, 1, k) \in todo
      ELSE path \in Held

Chosen ==
  /\ pc = "done" => todo = {} /\ best \in plans /\ IsBest(best)
  /\ pc = "throws" => todo = {} /\ plans = {}

IInv ==
  /\ TypeOK
  /\ \A path \in Held : Trail(path)
  /\ \A path \in Quoted : Ends(path)
  /\ Reached /\ Chosen

\* The plan returned follows a route: it connects the intent's assets within the hop
\* limit, hop by hop, and passes through no asset twice (router.ts:138-175).
BestIsARoute == pc = "done" => best.path \in Routes

----------------------------------------------------------------------------
(* Edges, trails and routes do not change *)

LEMMA MarketStays ==
  ASSUME [Next]_vars
  PROVE  UNCHANGED <<market, usable>>
BY DEF Next, vars, Visit, VisitEnds, QuoteFails, Rejects, AddPlan, Sort, GetQuote

LEMMA EdgesStay ==
  ASSUME [Next]_vars
  PROVE  /\ Edges' = Edges /\ Routes' = Routes
         /\ \A path : Trail(path)' = Trail(path)
         /\ \A path : Ends(path)' = Ends(path)
<1>1. Edges' = Edges
  BY MarketStays DEF Edges, Eligible
<1>2. Routes' = Routes
  BY <1>1 DEF Routes, IsRoute
<1>3. \A path : Trail(path)' = Trail(path)
  BY <1>1 DEF Trail
<1>4. \A path : Ends(path)' = Ends(path)
  BY DEF Ends, At
<1> QED
  BY <1>1, <1>2, <1>3, <1>4

\* An edge is offered by an adapter that may be used.
LEMMA EdgeIsUsable ==
  ASSUME usable \subseteq Venues, NEW e \in Edges
  PROVE  e.adapter \in Venues
BY DEF Edges, Eligible

----------------------------------------------------------------------------
(* Visiting *)

LEMMA LimitIsPositive ==
  ASSUME RouterAssumption
  PROVE  HopLimit \in Nat \ {0}
BY DEF RouterAssumption, HopLimit

LEMMA EmptyTrail ==
  ASSUME RouterAssumption
  PROVE  Trail(<<>>) /\ ~Ends(<<>>)
<1>1. HopLimit >= 0
  BY LimitIsPositive
<1> QED
  BY <1>1, EmptySeq DEF Trail, Ends

\* An extension of a trail that has not ended is a trail.
LEMMA ExtensionIsATrail ==
  ASSUME RouterAssumption, NEW path, Trail(path), ~Ends(path), NEW ext \in Extensions(path)
  PROVE  Trail(ext)
<1> DEFINE n == Len(path)
<1>1. PICK e \in Edges : Extends(path, e) /\ ext = Append(path, e) /\ n < HopLimit
  BY DEF Extensions
<1>2. path \in Seq(Edges) /\ n \in Nat /\ n <= HopLimit /\ HopLimit \in Nat
  BY LimitIsPositive DEF Trail
<1>3. /\ ext \in Seq(Edges) /\ Len(ext) = n + 1
      /\ ext[n + 1] = e /\ \A i \in 1..n : ext[i] = path[i]
  BY <1>1, <1>2
<1>4. e.base = (IF n = 0 THEN Base ELSE path[n].quote)
  BY <1>1, <1>2, EmptySeq DEF Extends, At
<1>5. n > 0 => path[n].quote # Quote
  BY <1>2, EmptySeq DEF Ends, At
<1>6. e.quote # Quote => e.quote # Base /\ \A j \in 1..n : path[j].quote # e.quote
  BY <1>1, <1>2 DEF Extends, Seen
<1>7. n + 1 <= HopLimit
  BY <1>1, <1>2
<1>8. ext[1].base = Base
  <2>1. CASE n = 0
    BY <2>1, <1>3, <1>4
  <2>2. CASE n > 0
    BY <2>2, <1>2, <1>3 DEF Trail
  <2> QED
    BY <2>1, <2>2, <1>2
<1>9. \A i \in 1..n : ext[i + 1].base = ext[i].quote /\ ext[i].quote # Quote
  <2> TAKE i \in 1..n
  <2>1. CASE i = n
    BY <2>1, <1>2, <1>3, <1>4, <1>5
  <2>2. CASE i < n
    <3>1. i \in 1..n - 1 /\ i + 1 \in 1..n
      BY <2>2, <1>2
    <3>2. path[i + 1].base = path[i].quote /\ path[i].quote # Quote
      BY <3>1 DEF Trail
    <3> QED
      BY <3>1, <3>2, <1>3
  <2> QED
    BY <2>1, <2>2, <1>2
<1>10. ASSUME NEW i \in 1..n + 1, ext[i].quote # Quote
       PROVE  ext[i].quote # Base /\ \A j \in 1..i - 1 : ext[j].quote # ext[i].quote
  <2>1. CASE i = n + 1
    <3>1. \A j \in 1..i - 1 : j \in 1..n
      BY <2>1, <1>2
    <3> QED
      BY <2>1, <3>1, <1>3, <1>6, <1>10
  <2>2. CASE i <= n
    <3>1. i \in 1..n /\ \A j \in 1..i - 1 : j \in 1..n
      BY <2>2, <1>2
    <3>2. path[i].quote # Base /\ \A j \in 1..i - 1 : path[j].quote # path[i].quote
      BY <3>1, <1>3, <1>10 DEF Trail
    <3> QED
      BY <3>1, <3>2, <1>3
  <2> QED
    BY <2>1, <2>2, <1>2
<1> QED
  BY <1>2, <1>3, <1>7, <1>8, <1>9, <1>10 DEF Trail

\* A trail that ends is a route.
LEMMA EndedTrailIsARoute ==
  ASSUME RouterAssumption, NEW path, Trail(path), Ends(path)
  PROVE  path \in Routes
<1> DEFINE n == Len(path)
<1>1. /\ path \in Seq(Edges) /\ n \in Nat \ {0} /\ n <= HopLimit /\ HopLimit \in Nat
      /\ path \in [1..n -> Edges] /\ DOMAIN path = 1..n
  BY LimitIsPositive, EmptySeq, LenProperties DEF Trail, Ends
<1>2. n \in 1..HopLimit
  BY <1>1
<1>3. path[1].base = Base /\ path[n].quote = Quote
  BY <1>1 DEF Trail, Ends, At
<1>4. \A i \in 1..n - 1 : path[i + 1].base = path[i].quote /\ path[i].quote \notin {Base, Quote}
  BY <1>1 DEF Trail
<1>5. ASSUME NEW i \in 1..n - 1, NEW j \in 1..n - 1, path[i].quote = path[j].quote
      PROVE  i = j
  <2>1. path[i].quote # Quote /\ path[j].quote # Quote /\ i \in 1..n /\ j \in 1..n
    BY <1>1, <1>4
  <2>2. /\ \A k \in 1..i - 1 : path[k].quote # path[i].quote
        /\ \A k \in 1..j - 1 : path[k].quote # path[j].quote
    BY <2>1 DEF Trail
  <2>3. ~(i < j) /\ ~(j < i)
    BY <1>5, <2>2, <1>1
  <2> QED
    BY <2>3
<1>6. IsRoute(path)
  BY <1>2, <1>3, <1>4, <1>5 DEF IsRoute
<1> QED
  BY <1>1, <1>2, <1>6 DEF Routes

\* Of a route only the whole has ended, and a part of it that is visited is extended
\* by the route's next edge.
LEMMA PrefixOfARoute ==
  ASSUME RouterAssumption, NEW path \in Routes, NEW k \in 0..Len(path)
  PROVE  /\ k = Len(path) => SubSeq(path, 1, k) = path /\ Ends(path)
         /\ k < Len(path) => /\ ~Ends(SubSeq(path, 1, k))
                             /\ SubSeq(path, 1, k + 1) \in Extensions(SubSeq(path, 1, k))
<1> DEFINE n == Len(path)
           s == SubSeq(path, 1, k)
<1>1. path \in Seq(Edges) /\ n \in 1..HopLimit /\ HopLimit \in Nat /\ IsRoute(path)
  BY LimitIsPositive DEF Routes, IsRoute
<1>2. n \in Nat /\ k \in Nat /\ k <= n /\ \A i \in 1..n : path[i] \in Edges
  BY <1>1, ElementOfSeq
<1>3. s \in Seq(Edges) /\ Len(s) = k /\ \A i \in 1..k : s[i] = path[i]
  BY <1>2, SubSeqProperties, Z3
<1>4. CASE k = n
  <2>1. s = path
    BY <1>1, <1>4, SubSeqFull
  <2>2. path # <<>> /\ path[n].quote = Quote
    BY <1>1, EmptySeq DEF IsRoute
  <2> QED
    BY <1>2, <1>4, <2>1, <2>2 DEF Ends, At
<1>5. CASE k < n
  <2> DEFINE e == path[k + 1]
  <2>1. k + 1 \in 1..n /\ e \in Edges
    BY <1>2, <1>5
  <2>2. k > 0 => /\ k \in 1..n - 1 /\ s # <<>> /\ s[k] = path[k]
    BY <1>2, <1>3, <1>5, EmptySeq
  <2>3. k = 0 => s = <<>>
    BY <1>3, EmptySeq
  <2>4. ~Ends(s)
    <3>1. k > 0 => path[k].quote # Quote
      BY <1>1, <2>2 DEF IsRoute
    <3> QED
      BY <1>2, <1>3, <2>2, <2>3, <3>1 DEF Ends, At
  <2>5. e.base = At(s)
    <3>1. CASE k = 0
      BY <1>1, <2>3, <3>1 DEF IsRoute, At
    <3>2. CASE k > 0
      <4>1. path[k + 1].base = path[k].quote
        BY <1>1, <2>2, <3>2 DEF IsRoute
      <4> QED
        BY <4>1, <1>3, <2>2, <3>2 DEF At
    <3> QED
      BY <3>1, <3>2, <1>2
  <2>6. e.quote = Quote \/ e.quote \notin Seen(s)
    <3>1. CASE k + 1 = n
      BY <1>1, <3>1 DEF IsRoute
    <3>2. CASE k + 1 < n
      <4>1. k + 1 \in 1..n - 1 /\ \A i \in 1..k : i \in 1..n - 1 /\ i # k + 1
        BY <1>2, <3>2
      <4>2. e.quote # Base /\ \A i \in 1..k : path[i].quote # e.quote
        BY <1>1, <4>1 DEF IsRoute
      <4>3. DOMAIN s = 1..k
        BY <1>3, LenProperties
      <4> QED
        BY <4>2, <4>3, <1>3 DEF Seen
    <3> QED
      BY <3>1, <3>2, <1>2, <1>5
  <2>7. SubSeq(path, 1, k + 1) = Append(s, e)
    <3> DEFINE t == SubSeq(path, 1, k + 1)
               u == Append(s, e)
    <3>1. t \in Seq(Edges) /\ Len(t) = k + 1 /\ \A i \in 1..k + 1 : t[i] = path[i]
      BY <1>2, <2>1, SubSeqProperties, Z3
    <3>2. u \in Seq(Edges) /\ Len(u) = k + 1 /\ u[k + 1] = e /\ \A i \in 1..k : u[i] = s[i]
      BY <1>2, <1>3, <2>1
    <3>3. \A i \in 1..k + 1 : t[i] = u[i]
      BY <1>2, <1>3, <3>1, <3>2
    <3> HIDE DEF t, u
    <3>4. t = u
      BY <3>1, <3>2, <3>3, SeqEqual
    <3> QED
      BY <3>4 DEF t, u
  <2>8. Len(s) < HopLimit
    BY <1>1, <1>2, <1>3, <1>5
  <2>9. SubSeq(path, 1, k + 1) \in Extensions(s)
    BY <2>1, <2>5, <2>6, <2>7, <2>8 DEF Extensions, Extends
  <2> QED
    BY <1>5, <2>4, <2>9
<1> QED
  BY <1>2, <1>4, <1>5

----------------------------------------------------------------------------
(* The steps *)

LEMMA InitRight ==
  ASSUME RouterAssumption, Init
  PROVE  IInv
<1>1. TypeOK
  <2>1. todo \cup dropped \cup {p.path : p \in plans} = {<<>>} /\ plans \cup {best} = {NoPlan}
    BY DEF Init
  <2>2. <<>> \in Seq(Edges) /\ NoPlan.score \in Int
    BY EmptySeq DEF NoPlan
  <2>3. quotes \in [hops : Nat, cost : Nat, healthy : BOOLEAN, adjustment : Int]
    BY DEF Init, NoQuotes
  <2> QED
    BY <2>1, <2>2, <2>3 DEF Init, TypeOK
<1>2. \A path \in Held : Trail(path)
  BY EmptyTrail DEF Init, Held
<1>3. \A path \in Quoted : Ends(path)
  BY DEF Init, Quoted
<1>4. Reached
  <2> SUFFICES ASSUME NEW path \in Routes
               PROVE  \E k \in 0..Len(path) : SubSeq(path, 1, k) \in todo
    BY DEF Init, Reached
  <2>1. 0 \in 0..Len(path)
    BY LimitIsPositive DEF Routes, IsRoute
  <2>2. SubSeq(path, 1, 0) = <<>>
    BY SubSeqEmpty
  <2> QED
    BY <2>1, <2>2 DEF Init
<1>5. Chosen
  BY DEF Init, Chosen
<1> QED
  BY <1>1, <1>2, <1>3, <1>4, <1>5 DEF IInv

\* The path to quote next is one of those that are left.
LEMMA CurrentIsLeft ==
  ASSUME todo # {}
  PROVE  Current \in todo
BY DEF Current

LEMMA StepTypes ==
  ASSUME RouterAssumption, IInv, [Next]_vars
  PROVE  TypeOK'
<1>1. Edges' = Edges
  BY EdgesStay
<1>2. TypeOK /\ RouterAssumption
  BY DEF IInv
<1>3. CASE UNCHANGED vars
  BY <1>1, <1>2, <1>3 DEF TypeOK, vars
<1>4. ASSUME NEW path \in todo, Visit(path) PROVE TypeOK'
  <2>1. \A ext \in Extensions(path) : ext \in Seq(Edges)
    BY <1>2, <1>4, ExtensionIsATrail DEF IInv, Held, Trail, Visit
  <2> QED
    BY <1>1, <1>2, <1>4, <2>1 DEF TypeOK, Visit
<1>5. CASE VisitEnds
  BY <1>1, <1>2, <1>5 DEF TypeOK, VisitEnds
<1>6. CASE QuoteFails
  BY <1>1, <1>2, <1>6, CurrentIsLeft DEF TypeOK, QuoteFails, NoQuotes, Unquoted
<1>7. CASE Rejects
  BY <1>1, <1>2, <1>7 DEF TypeOK, Rejects
<1>8. CASE AddPlan
  <2>1. Score(quotes) \in Int
    BY <1>2 DEF TypeOK, Score
  <2> QED
    BY <1>1, <1>2, <1>8, <2>1, CurrentIsLeft DEF TypeOK, AddPlan, NoQuotes
<1>9. CASE Sort
  BY <1>1, <1>2, <1>9 DEF TypeOK, Sort
<1>10. ASSUME NEW cost \in Costs, NEW healthy \in BOOLEAN, GetQuote(cost, healthy)
      PROVE  TypeOK'
  <2>1. Current \in todo /\ Current \in Seq(Edges)
    BY <1>2, <1>10, CurrentIsLeft DEF GetQuote, Unquoted, TypeOK
  <2> DEFINE i == quotes.hops + 1
  <2>2. i \in 1..Len(Current) /\ i \in Nat
    BY <1>2, <1>10, <2>1, LenProperties DEF GetQuote, Unquoted, TypeOK
  <2>3. Current[i] \in Edges
    BY <2>1, <2>2, ElementOfSeq
  <2>4. Adjustment[Current[i].adapter] \in Int
    BY <1>2, <2>3, EdgeIsUsable DEF TypeOK, RouterAssumption
  <2>5. cost \in Nat
    BY <1>2 DEF RouterAssumption
  <2>6. quotes' \in [hops : Nat, cost : Nat, healthy : BOOLEAN, adjustment : Int]
    BY <1>2, <1>10, <2>2, <2>4, <2>5 DEF GetQuote, TypeOK
  <2> QED
    BY <1>1, <1>2, <1>10, <2>6 DEF TypeOK, GetQuote
<1> QED
  BY <1>3, <1>4, <1>5, <1>6, <1>7, <1>8, <1>9, <1>10 DEF Next

LEMMA StepTrails ==
  ASSUME RouterAssumption, IInv, [Next]_vars
  PROVE  /\ \A path \in Held' : Trail(path)'
         /\ \A path \in Quoted' : Ends(path)'
<1>1. \A path : Trail(path)' = Trail(path) /\ Ends(path)' = Ends(path)
  BY EdgesStay
<1> SUFFICES /\ \A path \in Held' : Trail(path)
             /\ \A path \in Quoted' : Ends(path)
  BY <1>1
<1>2. /\ \A path \in Held : Trail(path)
      /\ \A path \in Quoted : Ends(path)
  BY DEF IInv
<1> USE DEF Held, Quoted
<1>3. CASE UNCHANGED vars
  BY <1>2, <1>3 DEF vars
<1>4. ASSUME NEW path \in todo, Visit(path)
      PROVE  (\A q \in Held' : Trail(q)) /\ (\A q \in Quoted' : Ends(q))
  <2>1. \A ext \in Extensions(path) : Trail(ext)
    BY <1>2, <1>4, ExtensionIsATrail DEF Visit
  <2> QED
    BY <1>2, <1>4, <2>1 DEF Visit
<1>5. CASE VisitEnds
  BY <1>2, <1>5 DEF VisitEnds
<1>6. CASE QuoteFails
  BY <1>2, <1>6, CurrentIsLeft DEF QuoteFails, Unquoted
<1>7. CASE Rejects
  BY <1>2, <1>7 DEF Rejects
<1>8. CASE AddPlan
  BY <1>2, <1>8, CurrentIsLeft DEF AddPlan
<1>9. CASE Sort
  BY <1>2, <1>9 DEF Sort
<1>10. ASSUME NEW cost \in Costs, NEW healthy \in BOOLEAN, GetQuote(cost, healthy)
      PROVE  (\A q \in Held' : Trail(q)) /\ (\A q \in Quoted' : Ends(q))
  BY <1>2, <1>10 DEF GetQuote
<1> QED
  BY <1>3, <1>4, <1>5, <1>6, <1>7, <1>8, <1>9, <1>10 DEF Next

\* A visited part of a route hands over to the next longer one; the whole is not
\* visited, and once nothing but whole paths is left it is among them.
LEMMA StepReached ==
  ASSUME RouterAssumption, IInv, [Next]_vars
  PROVE  Reached'
<1>1. Routes' = Routes
  BY EdgesStay
<1>2. Reached
  BY DEF IInv
<1>3. CASE UNCHANGED vars
  BY <1>1, <1>2, <1>3 DEF Reached, Held, vars
<1>4. ASSUME NEW visited \in todo, Visit(visited) PROVE Reached'
  <2> SUFFICES ASSUME NEW path \in Routes
               PROVE  \E k \in 0..Len(path) : SubSeq(path, 1, k) \in todo'
    BY <1>1, <1>4 DEF Reached, Visit
  <2>1. PICK k \in 0..Len(path) : SubSeq(path, 1, k) \in todo
    BY <1>2, <1>4 DEF Reached, Visit
  <2>2. CASE SubSeq(path, 1, k) # visited
    BY <1>4, <2>1, <2>2 DEF Visit
  <2>3. CASE SubSeq(path, 1, k) = visited
    <3>1. Len(path) \in Nat
      BY LimitIsPositive DEF Routes, IsRoute
    <3>2. k < Len(path) /\ k + 1 \in 0..Len(path)
      BY <1>4, <2>1, <2>3, <3>1, PrefixOfARoute DEF Visit
    <3>3. SubSeq(path, 1, k + 1) \in todo'
      BY <1>4, <2>1, <2>3, <3>2, PrefixOfARoute DEF Visit
    <3> QED
      BY <3>2, <3>3
  <2> QED
    BY <2>2, <2>3
<1>5. CASE VisitEnds
  <2> SUFFICES ASSUME NEW path \in Routes
               PROVE  path \in todo
    BY <1>1, <1>5 DEF Reached, Held, VisitEnds
  <2>1. PICK k \in 0..Len(path) : SubSeq(path, 1, k) \in todo /\ Ends(SubSeq(path, 1, k))
    BY <1>2, <1>5 DEF Reached, VisitEnds
  <2>2. Len(path) \in Nat
    BY LimitIsPositive DEF Routes, IsRoute
  <2>3. k = Len(path)
    BY <2>1, <2>2, PrefixOfARoute
  <2> QED
    BY <2>1, <2>3, PrefixOfARoute
<1>6. CASE QuoteFails
  BY <1>1, <1>2, <1>6 DEF Reached, Held, QuoteFails, Unquoted
<1>7. CASE Rejects
  BY <1>7 DEF Reached, Rejects
<1>8. CASE AddPlan
  <2> DEFINE plan == [path |-> Current, score |-> Score(quotes)]
  <2>1. plan \in plans' /\ plan.path = Current /\ plans \subseteq plans'
    BY <1>8 DEF AddPlan
  <2> HIDE DEF plan
  <2>2. Held \subseteq Held'
    BY <1>8, <2>1 DEF Held, AddPlan
  <2> QED
    BY <1>1, <1>2, <1>8, <2>2 DEF Reached, AddPlan
<1>9. CASE Sort
  BY <1>1, <1>2, <1>9 DEF Reached, Held, Sort
<1>10. ASSUME NEW cost \in Costs, NEW healthy \in BOOLEAN, GetQuote(cost, healthy)
      PROVE  Reached'
  BY <1>1, <1>2, <1>10 DEF Reached, Held, GetQuote, Unquoted
<1> QED
  BY <1>3, <1>4, <1>5, <1>6, <1>7, <1>8, <1>9, <1>10 DEF Next

LEMMA StepChosen ==
  ASSUME IInv, [Next]_vars
  PROVE  Chosen'
BY DEF IInv, Chosen, IsBest, Next, vars, Visit, VisitEnds, QuoteFails, Rejects, AddPlan, Sort, GetQuote,
       Unquoted

LEMMA Inductive ==
  ASSUME RouterAssumption
  PROVE  Spec => []IInv
<1>1. Init => IInv
  BY InitRight
<1>2. IInv /\ [Next]_vars => IInv'
  BY StepTypes, StepTrails, StepReached, StepChosen DEF IInv
<1> QED
  BY <1>1, <1>2, PTL DEF Spec

----------------------------------------------------------------------------
(* What follows *)

\* Each part of the state has its type: a path is made of edges of usable adapters.
THEOREM RouterTypes ==
  ASSUME RouterAssumption
  PROVE  Spec => []TypeOK
<1>1. IInv => TypeOK
  BY DEF IInv
<1> QED
  BY <1>1, Inductive, PTL

\* When buildPlans ends, every route was quoted, and lost a quote or is not better than
\* the one returned (router.ts:138-230).
THEOREM NoRouteIsMissed ==
  ASSUME RouterAssumption
  PROVE  Spec => []NothingMissed
<1>1. IInv => NothingMissed
  <2> SUFFICES ASSUME IInv, pc \in {"done", "throws"}, NEW path \in Routes, path \notin dropped
               PROVE  pc = "done" /\ \E p \in plans : p.path = path /\ p.score <= best.score
    BY DEF NothingMissed
  <2>1. path \in Held /\ todo = {}
    BY DEF IInv, Reached, Chosen
  <2>2. PICK p \in plans : p.path = path
    BY <2>1 DEF Held
  <2> QED
    BY <2>2 DEF IInv, Chosen, IsBest
<1> QED
  BY <1>1, Inductive, PTL

\* The plan returned follows a route.
THEOREM RoutesAreReturned ==
  ASSUME RouterAssumption
  PROVE  Spec => []BestIsARoute
<1>1. RouterAssumption /\ IInv => BestIsARoute
  <2> SUFFICES ASSUME RouterAssumption, IInv, pc = "done" PROVE best.path \in Routes
    BY DEF BestIsARoute
  <2>1. best.path \in {p.path : p \in plans}
    BY DEF IInv, Chosen
  <2>2. Trail(best.path) /\ Ends(best.path)
    BY <2>1 DEF IInv, Held, Quoted
  <2> QED
    BY <2>2, EndedTrailIsARoute
<1> QED
  BY <1>1, Inductive, PTL
===============================================================================
