-------------------------- MODULE EventStreamProofs --------------------------
(***************************************************************************)
(* The theorems about an event stream, for any number of events, polls and *)
(* lost connections: no event that becomes visible in time is passed over, *)
(* and what is written twice is far apart.                                 *)
(*                                                                         *)
(* A poll's rows are loaded long before they are written, and others write *)
(* and move the cursor meanwhile.  What stays true of them is that an      *)
(* event the connection owes is among them, written, or later than all of  *)
(* them.                                                                   *)
(***************************************************************************)
EXTENDS EventStream, SequenceTheorems, FiniteSetTheorems, TLAPS

\* A poll holds rows the query asked for, from the connection's start on.
RowsAreAsked ==
  /\ \A p \in Polls : /\ poll[p].rows \subseteq wanted \cap Inserted
                      /\ \A e \in poll[p].rows : stamp[e].at >= start
  /\ ~open => \A p \in Polls : poll[p].rows = {}

\* The ids remembered are the last ones written.
IdsAreKept == seenIds = Kept(written)

CursorIsWritten == cursor = start \/ \E e \in ToSet(written) : stamp[e].at = cursor

\* An event a poll could have loaded is among its rows, is written, or comes no earlier
\* than any of them.
PollsAreComplete ==
  \A p \in Polls : \A e \in Inserted \ (ToSet(written) \cup poll[p].rows) :
    Due(e) => \A d \in poll[p].rows : stamp[d].at <= stamp[e].at

IInv ==
  /\ TypeOK /\ RowsAreAsked /\ IdsAreKept /\ CursorIsWritten
  /\ PollsAreComplete /\ NoGaps /\ RepeatsAreFarApart

----------------------------------------------------------------------------
(* The order of events *)

LEMMA LeastExists ==
  ASSUME NEW S \in SUBSET Nat, S # {}
  PROVE  \E n \in S : \A m \in S : n <= m
<1> DEFINE Less == {p \in Nat \X Nat : p[1] < p[2]}
<1>1. Less = OpToRel(<, Nat)
  BY Zenon DEF OpToRel
<1>2. IsWellFoundedOn(Less, Nat)
  BY <1>1, NatLessThanWellFounded, Zenon
<1>3. \E n \in S : \A m \in S : ~(<<m, n>> \in Less)
  <2> HIDE DEF Less
  <2> QED BY <1>2, WFMin
<1>4. PICK n \in S : \A m \in S : ~(<<m, n>> \in Less)
  BY <1>3, Zenon
<1>5. \A m \in S : ~(m < n)
  BY <1>4
<1> QED
  BY <1>5

LEMMA StampTypes ==
  ASSUME TypeOK
  PROVE  /\ Inserted = 1..Len(stamp) /\ Len(stamp) \in Nat /\ clock \in Nat
         /\ \A e \in Inserted : /\ stamp[e] \in [at : 1..clock, late : BOOLEAN]
                                /\ stamp[e].at \in 1..clock /\ stamp[e].at \in Nat /\ e \in Nat
         /\ IsFiniteSet(Inserted)
<1>1. Inserted = 1..Len(stamp) /\ Len(stamp) \in Nat
  BY LenProperties DEF TypeOK, Inserted
<1>2. clock \in Nat
  BY DEF TypeOK
<1>3. \A e \in Inserted : stamp[e] \in [at : 1..clock, late : BOOLEAN]
  BY <1>1, ElementOfSeq DEF TypeOK
<1>4. IsFiniteSet(Inserted)
  BY <1>1, FS_Interval
<1> QED
  BY <1>1, <1>2, <1>3, <1>4

\* Before is a strict total order.
LEMMA BeforeIsAnOrder ==
  ASSUME TypeOK, NEW c \in Inserted, NEW d \in Inserted, NEW e \in Inserted
  PROVE  /\ ~Before(d, d)
         /\ Before(c, d) /\ Before(d, e) => Before(c, e)
         /\ d = e \/ Before(d, e) \/ Before(e, d)
         /\ ~Before(e, d) => stamp[d].at <= stamp[e].at
BY StampTypes DEF Before

LEMMA RankType ==
  ASSUME TypeOK, NEW S \in SUBSET Inserted, NEW e
  PROVE  Rank(S, e) \in Nat /\ IsFiniteSet({d \in S : Before(d, e)})
<1>1. {d \in S : Before(d, e)} \in SUBSET Inserted
  OBVIOUS
<1> QED
  BY <1>1, StampTypes, FS_Subset, FS_CardinalityType DEF Rank

\* An event that comes before another has fewer before it.
LEMMA RankGrows ==
  ASSUME TypeOK, NEW S \in SUBSET Inserted, NEW d \in S, NEW e \in Inserted, Before(d, e)
  PROVE  Rank(S, d) < Rank(S, e)
<1> DEFINE D == {c \in S : Before(c, d)}
           E == {c \in S : Before(c, e)}
<1>1. D \in SUBSET E /\ d \in E /\ d \notin D
  BY BeforeIsAnOrder
<1>2. IsFiniteSet(E) /\ Cardinality(E) \in Nat /\ Cardinality(D) \in Nat
  BY RankType DEF Rank
<1>3. Cardinality(D) <= Cardinality(E) /\ Cardinality(D) # Cardinality(E)
  BY <1>1, <1>2, FS_Subset
<1> QED
  BY <1>2, <1>3 DEF Rank

\* Nothing left out of the first n comes before one of them.
LEMMA FirstComeFirst ==
  ASSUME TypeOK, NEW S \in SUBSET Inserted, NEW n \in Nat,
         NEW d \in FirstOf(n, S), NEW e \in S \ FirstOf(n, S)
  PROVE  ~Before(e, d)
<1>1. Rank(S, d) < n /\ ~(Rank(S, e) < n) /\ d \in S
  BY DEF FirstOf
<1>2. Rank(S, d) \in Nat /\ Rank(S, e) \in Nat
  BY RankType
<1>3. Before(e, d) => Rank(S, e) < Rank(S, d)
  BY <1>1, RankGrows
<1> QED
  BY <1>1, <1>2, <1>3

\* The first n are n of them, when some element is left out.
LEMMA FirstAreMany ==
  ASSUME TypeOK, NEW S \in SUBSET Inserted, NEW n \in Nat, NEW e \in S \ FirstOf(n, S)
  PROVE  n <= Cardinality(FirstOf(n, S)) /\ IsFiniteSet(FirstOf(n, S))
<1> DEFINE R == {Rank(S, c) : c \in S \ FirstOf(n, S)}
<1>1. R \in SUBSET Nat /\ R # {}
  <2>1. \A c \in S : Rank(S, c) \in Nat
    BY RankType
  <2> QED
    BY <2>1
<1>2. PICK r \in R : \A s \in R : r <= s
  BY <1>1, LeastExists
<1>3. PICK l \in S \ FirstOf(n, S) : r = Rank(S, l)
  BY <1>2
<1> DEFINE L == {c \in S : Before(c, l)}
<1>4. ASSUME NEW c \in L PROVE c \in FirstOf(n, S)
  <2>1. c \in S /\ Rank(S, c) < Rank(S, l)
    BY <1>4, RankGrows
  <2>2. Rank(S, c) \in Nat /\ Rank(S, l) \in Nat
    BY RankType
  <2> QED
    BY <1>2, <1>3, <2>1, <2>2
<1>5. IsFiniteSet(FirstOf(n, S)) /\ L \in SUBSET FirstOf(n, S)
  BY <1>4, StampTypes, FS_Subset DEF FirstOf
<1>6. Cardinality(L) <= Cardinality(FirstOf(n, S))
  BY <1>5, FS_Subset
<1>7. n <= Cardinality(L)
  BY <1>3, RankType DEF FirstOf, Rank
<1>8. Cardinality(L) \in Nat /\ Cardinality(FirstOf(n, S)) \in Nat
  BY <1>5, FS_CardinalityType, RankType DEF Rank
<1> QED
  BY <1>5, <1>6, <1>7, <1>8

----------------------------------------------------------------------------
(* What a poll loads *)

LEMMA LoadedType ==
  ASSUME NEW t
  PROVE  /\ LoadEvents(t) \subseteq wanted \cap Inserted
         /\ \A e \in LoadEvents(t) : stamp[e].at >= t
BY DEF LoadEvents, FirstOf, Since

\* An event that was asked for and could have been loaded was, or is no earlier than all
\* that was: neither the limit of a list nor that of the merged rows skips one.
LEMMA LoadedInOrder ==
  ASSUME StreamAssumption, TypeOK, NEW t \in Nat,
         NEW e \in (wanted \cap Inserted) \ LoadEvents(t), stamp[e].at >= t,
         NEW d \in LoadEvents(t)
  PROVE  stamp[d].at <= stamp[e].at
<1> DEFINE Audit == Since(Events \ AnchorEvents, t)
           Anchor == Since(AnchorEvents, t)
           Merged == (FirstOf(FetchLimit, Audit) \cup FirstOf(FetchLimit, Anchor)) \cap wanted
<1>1. /\ LoadEvents(t) = FirstOf(Limit, Merged) /\ Limit \in Nat /\ FetchLimit \in Nat
      /\ Limit <= FetchLimit
  BY DEF LoadEvents, FetchLimit, StreamAssumption
<1>2. /\ Audit \in SUBSET Inserted /\ Anchor \in SUBSET Inserted /\ Merged \in SUBSET Inserted
      /\ Audit \cap Anchor = {}
  BY DEF Since, FirstOf
<1>3. d \in Merged /\ d \in Inserted /\ e \in Inserted
  BY <1>1, <1>2 DEF FirstOf
<1>4. e \in Audit \/ e \in Anchor
  <2>1. e \in Events
    BY DEF TypeOK, StreamAssumption
  <2> QED
    BY <2>1 DEF Since
<1> SUFFICES ~Before(e, d)
  BY <1>3, BeforeIsAnOrder
<1>5. CASE e \in Merged
  BY <1>1, <1>2, <1>5, FirstComeFirst
<1>6. ASSUME NEW T \in {Audit, Anchor}, e \in T, e \notin Merged
      PROVE  ~Before(e, d)
  <2>1. e \in T \ FirstOf(FetchLimit, T) /\ T \in SUBSET Inserted
    BY <1>2, <1>6
  <2>2. CASE d \in T
    <3>1. d \in FirstOf(FetchLimit, T)
      BY <1>2, <1>3, <1>6, <2>2 DEF FirstOf
    <3> QED
      BY <1>1, <2>1, <3>1, FirstComeFirst
  <2>3. CASE d \notin T
    <3>1. wanted = Events
      <4>1. wanted \in {Events, wanted \cap AnchorEvents, wanted \ AnchorEvents}
        BY DEF TypeOK, StreamAssumption
      <4>2. d \in wanted /\ e \in wanted
        BY <1>3
      <4>3. (d \in AnchorEvents) # (e \in AnchorEvents)
        BY <1>3, <1>6, <2>3 DEF Since, FirstOf
      <4> QED
        BY <4>1, <4>2, <4>3
    <3>2. FirstOf(FetchLimit, T) \in SUBSET Merged
      <4>1. FirstOf(FetchLimit, T) \subseteq wanted
        BY <1>6, <3>1 DEF FirstOf, Since, StreamAssumption
      <4> QED
        BY <1>6, <4>1
    <3>3. SUFFICES ASSUME Before(e, d) PROVE FALSE
      OBVIOUS
    <3> DEFINE B == {c \in Merged : Before(c, d)}
    <3>4. ASSUME NEW c \in FirstOf(FetchLimit, T) PROVE c \in B
      <4>1. c \in Inserted /\ c # e /\ ~Before(e, c)
        BY <1>1, <2>1, <3>4, FirstComeFirst DEF FirstOf
      <4>2. Before(c, d)
        BY <1>3, <3>3, <4>1, BeforeIsAnOrder
      <4> QED
        BY <3>2, <3>4, <4>2
    <3>5. FirstOf(FetchLimit, T) \in SUBSET B
      BY <3>4
    <3>6. IsFiniteSet(B) /\ Cardinality(B) \in Nat
      BY <1>2, RankType DEF Rank
    <3>7. FetchLimit <= Cardinality(FirstOf(FetchLimit, T)) /\ IsFiniteSet(FirstOf(FetchLimit, T))
      BY <1>1, <2>1, FirstAreMany
    <3>8. Cardinality(FirstOf(FetchLimit, T)) <= Cardinality(B)
      BY <3>5, <3>6, FS_Subset
    <3>9. Cardinality(FirstOf(FetchLimit, T)) \in Nat
      BY <3>7, FS_CardinalityType
    <3>10. Cardinality(B) < Limit
      BY <1>1 DEF FirstOf, Rank
    <3> QED
      BY <1>1, <3>6, <3>7, <3>8, <3>9, <3>10
  <2> QED
    BY <2>2, <2>3
<1> QED
  BY <1>4, <1>5, <1>6

----------------------------------------------------------------------------
(* The ids remembered *)

\* Kept keeps the last ids, SeenCap of them at the most.
LEMMA KeptIds ==
  ASSUME StreamAssumption, NEW S, NEW ids \in Seq(S), NEW n \in Nat, n = Len(ids),
         NEW k \in Nat, k = IF n <= SeenCap THEN n ELSE SeenCap
  PROVE  /\ Kept(ids) \in Seq(S) /\ Len(Kept(ids)) = k
         /\ \A i \in 1..k : Kept(ids)[i] = ids[n - k + i]
<1>0. SeenCap \in Nat \ {0}
  BY DEF StreamAssumption
<1>1. SeenCap \in Nat \ {0} /\ \A i \in 1..n : ids[i] \in S
  BY <1>0, ElementOfSeq
<1>2. CASE n <= SeenCap
  <2>1. Kept(ids) = ids /\ k = n /\ \A i \in 1..n : n - n + i = i
    BY <1>1, <1>2 DEF Kept
  <2> QED
    BY <2>1
<1>3. CASE n > SeenCap
  <2>1. PICK m \in 1..n : m = n - SeenCap + 1
    BY <1>1, <1>3
  <2>2. \A i \in m..n : ids[i] \in S
    BY <1>1
  <2>3. /\ SubSeq(ids, m, n) \in Seq(S)
        /\ Len(SubSeq(ids, m, n)) = n - m + 1
        /\ \A i \in 1..n - m + 1 : SubSeq(ids, m, n)[i] = ids[m + i - 1]
    BY <2>1, <2>2, SubSeqProperties, Z3
  <2>4. Kept(ids) = SubSeq(ids, m, n)
    BY <1>1, <1>3, <2>1 DEF Kept
  <2>5. k = SeenCap
    BY <1>1, <1>3
  <2>6. n - m + 1 = k
    BY <1>1, <2>1, <2>5
  <2>7. \A i \in 1..k : m + i - 1 = n - k + i
    BY <2>6
  <2> QED
    BY <2>3, <2>4, <2>6, <2>7
<1>4. n <= SeenCap \/ n > SeenCap
  BY <1>1
<1> QED
  BY <1>2, <1>3, <1>4, Zenon

\* Forgetting earlier makes no difference.
LEMMA KeptTwice ==
  ASSUME StreamAssumption, NEW S, NEW ids \in Seq(S), NEW out \in Seq(S)
  PROVE  Kept(Kept(ids) \o out) = Kept(ids \o out)
<1>1. PICK n \in Nat : n = Len(ids)
  OBVIOUS
<1>2. PICK m \in Nat : m = Len(out)
  OBVIOUS
<1>3. SeenCap \in Nat \ {0}
  BY DEF StreamAssumption
<1>4. PICK k \in Nat : k = IF n <= SeenCap THEN n ELSE SeenCap
  BY <1>3
<1>5. PICK l \in Nat : /\ l = IF n + m <= SeenCap THEN n + m ELSE SeenCap
                       /\ l = IF k + m <= SeenCap THEN k + m ELSE SeenCap
  BY <1>3, <1>4
<1> DEFINE a == Kept(ids)
           u == ids \o out
           v == a \o out
<1>6. a \in Seq(S) /\ Len(a) = k /\ \A i \in 1..k : a[i] = ids[n - k + i]
  BY <1>1, <1>4, KeptIds
<1>7. /\ u \in Seq(S) /\ Len(u) = n + m
      /\ \A i \in 1..n + m : u[i] = IF i <= n THEN ids[i] ELSE out[i - n]
  BY <1>1, <1>2, ConcatProperties
<1> HIDE DEF a
<1>8. /\ v \in Seq(S) /\ Len(v) = k + m
      /\ \A i \in 1..k + m : v[i] = IF i <= k THEN a[i] ELSE out[i - k]
  BY <1>2, <1>6, ConcatProperties
<1> HIDE DEF u, v
<1>9. /\ Kept(u) \in Seq(S) /\ Len(Kept(u)) = l
      /\ \A i \in 1..l : Kept(u)[i] = u[n + m - l + i]
  <2>1. PICK b \in Nat : b = n + m
    OBVIOUS
  <2>2. b = Len(u) /\ l = IF b <= SeenCap THEN b ELSE SeenCap
    BY <1>5, <1>7, <2>1
  <2>3. /\ Kept(u) \in Seq(S) /\ Len(Kept(u)) = l
        /\ \A i \in 1..l : Kept(u)[i] = u[b - l + i]
    BY <1>5, <1>7, <2>2, KeptIds
  <2> QED
    BY <2>1, <2>3
<1>10. /\ Kept(v) \in Seq(S) /\ Len(Kept(v)) = l
       /\ \A i \in 1..l : Kept(v)[i] = v[k + m - l + i]
  <2>1. PICK b \in Nat : b = k + m
    OBVIOUS
  <2>2. b = Len(v) /\ l = IF b <= SeenCap THEN b ELSE SeenCap
    BY <1>5, <1>8, <2>1
  <2>3. /\ Kept(v) \in Seq(S) /\ Len(Kept(v)) = l
        /\ \A i \in 1..l : Kept(v)[i] = v[b - l + i]
    BY <1>5, <1>8, <2>2, KeptIds
  <2> QED
    BY <2>1, <2>3
<1>11. ASSUME NEW i \in 1..l PROVE Kept(u)[i] = Kept(v)[i]
  <2>0. l <= n + m /\ l <= k + m
    BY <1>3, <1>4, <1>5
  <2>1. PICK x \in 1..n + m : x = n + m - l + i
    BY <2>0
  <2>2. PICK y \in 1..k + m : y = k + m - l + i
    BY <2>0
  <2>3. Kept(u)[i] = u[x] /\ Kept(v)[i] = v[y]
    BY <1>9, <1>10, <2>1, <2>2
  <2>4. u[x] = IF x <= n THEN ids[x] ELSE out[x - n]
    BY <1>7
  <2>5. v[y] = IF y <= k THEN a[y] ELSE out[y - k]
    BY <1>8
  <2>6. x - n = y - k /\ ((x <= n) <=> (y <= k))
    BY <2>1, <2>2
  <2>7. y <= k => y \in 1..k /\ n - k + y = x
    BY <2>1, <2>2
  <2>8. y <= k => a[y] = ids[x]
    BY <1>6, <2>7
  <2> QED
    BY <2>3, <2>4, <2>5, <2>6, <2>8
<1>12. Kept(u) = Kept(v)
  BY <1>9, <1>10, <1>11, SeqEqual
<1> QED
  BY <1>12 DEF u, v, a

----------------------------------------------------------------------------
(* What a poll writes *)

\* What Write(p) does: `out` lists the rows of S, which are those that are new at their turn.
WritesAs(p, S, out) ==
  /\ S \in SUBSET poll[p].rows /\ out \in Sorted(S)
  /\ \A e \in poll[p].rows : e \in S <=> IsNew(e, SubSeq(out, 1, Rank(S, e)))
  /\ seenIds' = Kept(seenIds \o out)
  /\ written' = written \o out
  /\ cursor' = IF out = <<>> THEN cursor ELSE stamp[out[Len(out)]].at
  /\ poll' = [poll EXCEPT ![p] = NoRows]
  /\ UNCHANGED <<clock, stamp, wanted, open, start, drops>>

\* A list of rows has each once, and its n-th has n - 1 before it.
LEMMA SortedRows ==
  ASSUME TypeOK, NEW S \in SUBSET Inserted, NEW out \in Sorted(S)
  PROVE  /\ out \in Seq(S) /\ Len(out) \in Nat /\ ToSet(out) = S /\ DOMAIN out = 1..Len(out)
         /\ Len(out) = Cardinality(S)
         /\ \A i, j \in 1..Len(out) : i # j => out[i] # out[j]
         /\ \A i \in 1..Len(out) : Rank(S, out[i]) = i - 1
<1> DEFINE n == Len(out)
<1>1. Cardinality(S) \in Nat
  BY StampTypes, FS_Subset, FS_CardinalityType
<1>2. /\ out \in [1..Cardinality(S) -> S] /\ ToSet(out) = S
      /\ \A i, j \in DOMAIN out : i < j => Before(out[i], out[j])
  BY DEF Sorted
<1>3. out \in Seq(S) /\ n = Cardinality(S) /\ DOMAIN out = 1..n
  BY <1>1, <1>2
<1>4. \A i \in 1..n : out[i] \in S /\ out[i] \in Inserted
  BY <1>2, <1>3
<1>5. ASSUME NEW i \in 1..n, NEW j \in 1..n, i # j PROVE out[i] # out[j]
  <2>1. i < j \/ j < i
    BY <1>1, <1>3, <1>5
  <2>2. Before(out[i], out[j]) \/ Before(out[j], out[i])
    BY <1>2, <1>3, <2>1
  <2> QED
    BY <1>4, <2>2, BeforeIsAnOrder
<1>6. ASSUME NEW i \in 1..n PROVE Rank(S, out[i]) = i - 1
  <2> DEFINE B == {d \in S : Before(d, out[i])}
             f == [j \in 1..i - 1 |-> out[j]]
  <2>1. i - 1 \in Nat /\ \A j \in 1..i - 1 : j \in 1..n /\ j < i
    BY <1>1, <1>3
  <2>2. \A j \in 1..i - 1 : out[j] \in B
    BY <1>2, <1>3, <1>4, <2>1
  <2>3. ASSUME NEW d \in B PROVE \E j \in 1..i - 1 : out[j] = d
    <3>1. PICK j \in 1..n : out[j] = d
      BY <1>2, <1>3, <2>3 DEF ToSet
    <3>2. ~(i < j) /\ i # j
      <4>1. ~Before(out[i], d) /\ out[i] # d
        BY <1>4, <2>3, BeforeIsAnOrder
      <4> QED
        BY <1>2, <1>3, <3>1, <4>1
    <3>3. j \in 1..i - 1
      BY <1>1, <1>3, <3>2
    <3> QED
      BY <3>1, <3>3
  <2>4. \A j, k \in 1..i - 1 : f[j] = f[k] => j = k
    BY <1>5, <2>1
  <2>5. f \in Bijection(1..i - 1, B)
    <3>1. f \in [1..i - 1 -> B]
      BY <2>2
    <3>2. \A d \in B : \E j \in 1..i - 1 : f[j] = d
      BY <2>3
    <3> HIDE DEF f, B
    <3> QED
      BY <2>4, <3>1, <3>2 DEF Bijection, Injection, IsInjective, Surjection
  <2>6. Cardinality(B) = i - 1
    BY <2>1, <2>5, FS_CountingElements DEF ExistsBijection
  <2> QED
    BY <2>6 DEF Rank
<1> QED
  BY <1>1, <1>2, <1>3, <1>5, <1>6

LEMMA ElementsOfSeq ==
  ASSUME NEW T, NEW s \in Seq(T)
  PROVE  /\ s \in Seq(ToSet(s)) /\ ToSet(s) \subseteq T
         /\ DOMAIN s = 1..Len(s) /\ Len(s) \in Nat
<1>1. Len(s) \in Nat /\ DOMAIN s = 1..Len(s) /\ s \in [1..Len(s) -> T]
  BY LenProperties
<1>2. s \in [1..Len(s) -> ToSet(s)]
  BY <1>1 DEF ToSet
<1>3. s \in Seq(ToSet(s))
  BY <1>1, <1>2, SeqDef, Zenon
<1> QED
  BY <1>1, <1>3 DEF ToSet

LEMMA ElementsOfConcat ==
  ASSUME NEW T, NEW a \in Seq(T), NEW b \in Seq(T)
  PROVE  ToSet(a \o b) = ToSet(a) \cup ToSet(b)
<1> DEFINE c == a \o b
<1>1. PICK n \in Nat : n = Len(a) /\ DOMAIN a = 1..n
  BY ElementsOfSeq
<1>2. PICK m \in Nat : m = Len(b) /\ DOMAIN b = 1..m
  BY ElementsOfSeq
<1>3. c \in Seq(T) /\ DOMAIN c = 1..n + m
      /\ \A i \in 1..n + m : c[i] = IF i <= n THEN a[i] ELSE b[i - n]
  BY <1>1, <1>2, ConcatProperties, ElementsOfSeq
<1> HIDE DEF c
<1>4. ASSUME NEW i \in 1..n + m PROVE c[i] \in ToSet(a) \cup ToSet(b)
  <2>1. CASE i <= n
    BY <1>1, <1>3, <2>1 DEF ToSet
  <2>2. CASE i > n
    <3>1. i - n \in 1..m /\ c[i] = b[i - n]
      BY <1>3, <2>2
    <3> QED
      BY <1>2, <3>1 DEF ToSet
  <2> QED
    BY <2>1, <2>2
<1>5. ASSUME NEW i \in 1..n PROVE a[i] \in ToSet(c)
  <2>1. i \in 1..n + m /\ c[i] = a[i]
    BY <1>3
  <2> QED
    BY <1>3, <2>1 DEF ToSet
<1>6. ASSUME NEW i \in 1..m PROVE b[i] \in ToSet(c)
  <2>1. PICK j \in 1..n + m : j = n + i
    OBVIOUS
  <2>2. ~(j <= n) /\ j - n = i
    BY <2>1
  <2>3. c[j] = b[i]
    BY <1>3, <2>2
  <2> QED
    BY <1>3, <2>3 DEF ToSet
<1>7. /\ ToSet(a) = {a[i] : i \in 1..n} /\ ToSet(b) = {b[i] : i \in 1..m}
      /\ ToSet(c) = {c[i] : i \in 1..n + m}
  BY <1>1, <1>2, <1>3 DEF ToSet
<1>8. ToSet(c) = ToSet(a) \cup ToSet(b)
  BY <1>4, <1>5, <1>6, <1>7
<1> QED
  BY <1>8 DEF c

LEMMA KeptElements ==
  ASSUME StreamAssumption, NEW S, NEW ids \in Seq(S)
  PROVE  /\ Kept(ids) \in Seq(S) /\ Len(Kept(ids)) <= SeenCap
         /\ ToSet(Kept(ids)) \subseteq ToSet(ids)
<1>1. Len(ids) \in Nat /\ ids \in Seq(ToSet(ids)) /\ SeenCap \in Nat
  BY ElementsOfSeq DEF StreamAssumption
<1>2. PICK k \in Nat : k = IF Len(ids) <= SeenCap THEN Len(ids) ELSE SeenCap
  BY <1>1
<1>3. Kept(ids) \in Seq(S) /\ Len(Kept(ids)) = k
  BY <1>1, <1>2, KeptIds
<1>4. Kept(ids) \in Seq(ToSet(ids))
  BY <1>1, <1>2, KeptIds
<1> QED
  BY <1>1, <1>2, <1>3, <1>4, ElementsOfSeq

\* A poll writes the rows it does not find among the ids, and the others were written.
LEMMA WrittenAfter ==
  ASSUME StreamAssumption, IInv, NEW p \in Polls, NEW S, NEW out, WritesAs(p, S, out)
  PROVE  /\ S \in SUBSET (wanted \cap Inserted) /\ S \subseteq poll[p].rows
         /\ out \in Sorted(S) /\ out \in Seq(S)
         /\ ToSet(written') = ToSet(written) \cup S
         /\ poll[p].rows \subseteq ToSet(written')
         /\ written' \in Seq(wanted \cap Inserted)
         /\ seenIds' = Kept(written')
<1> DEFINE R == poll[p].rows
           A == wanted \cap Inserted
<1>1. R \subseteq A /\ S \subseteq R /\ out \in Sorted(S) /\ written \in Seq(A)
      /\ TypeOK /\ seenIds = Kept(written)
  BY DEF IInv, RowsAreAsked, WritesAs, TypeOK, IdsAreKept
<1>2. /\ out \in Seq(S) /\ ToSet(out) = S /\ Len(out) = Cardinality(S)
      /\ DOMAIN out = 1..Len(out) /\ Len(out) \in Nat
  BY <1>1, SortedRows
<1>3. out \in Seq(A)
  BY <1>1, <1>2, SeqMonotonic
<1>4. written' = written \o out /\ written' \in Seq(A)
  BY <1>1, <1>3, ConcatProperties DEF WritesAs
<1>5. ToSet(written') = ToSet(written) \cup S
  BY <1>1, <1>2, <1>3, <1>4, ElementsOfConcat
<1>6. seenIds' = Kept(written')
  BY <1>1, <1>3, <1>4, KeptTwice DEF WritesAs
<1>7. ASSUME NEW e \in R, e \notin S PROVE e \in ToSet(written')
  <2> DEFINE r == Rank(S, e)
             pre == SubSeq(out, 1, r)
             W == ToSet(written')
  <2>1. r \in Nat /\ r <= Len(out)
    <3>1. IsFiniteSet(S) /\ {d \in S : Before(d, e)} \in SUBSET S
      BY <1>1, StampTypes, FS_Subset
    <3> QED
      BY <1>1, <1>2, <3>1, RankType, FS_Subset DEF Rank
  <2>2. \A i \in 1..r : out[i] \in W
    <3>1. \A i \in 1..r : i \in 1..Len(out)
      BY <1>2, <2>1
    <3> QED
      BY <1>2, <1>5, <3>1, ElementOfSeq
  <2>3. pre \in Seq(W)
    <3> HIDE DEF r, W
    <3> QED
      BY <2>1, <2>2, SubSeqProperties, Z3
  <2>4. seenIds \in Seq(W)
    <3>1. seenIds \in Seq(A) /\ ToSet(seenIds) \subseteq ToSet(written)
      BY <1>1, KeptElements
    <3>2. seenIds \in Seq(ToSet(seenIds))
      BY <3>1, ElementsOfSeq
    <3> QED
      BY <1>5, <3>1, <3>2, SeqMonotonic
  <2>5. seenIds \o pre \in Seq(W)
    <3> HIDE DEF pre, W
    <3> QED
      BY <2>3, <2>4, ConcatProperties
  <2>6. Kept(seenIds \o pre) \in Seq(W)
    BY <2>5, KeptElements
  <2>7. ToSet(Kept(seenIds \o pre)) \subseteq W
    BY <2>6, ElementsOfSeq
  <2>8. e \in ToSet(Kept(seenIds \o pre))
    BY <1>7 DEF WritesAs, IsNew
  <2> QED
    BY <2>7, <2>8
<1> QED
  BY <1>1, <1>2, <1>4, <1>5, <1>6, <1>7

\* What is written again is far from where it was written.
LEMMA WrittenApart ==
  ASSUME StreamAssumption, IInv, NEW p \in Polls, NEW S, NEW out, WritesAs(p, S, out)
  PROVE  RepeatsAreFarApart'
<1> DEFINE A == wanted \cap Inserted
<1>1. /\ out \in Sorted(S) /\ out \in Seq(A) /\ S \in SUBSET Inserted /\ written \in Seq(A)
      /\ S \subseteq poll[p].rows /\ TypeOK /\ seenIds = Kept(written)
  <2>1. S \in SUBSET A /\ out \in Seq(S) /\ out \in Sorted(S) /\ S \subseteq poll[p].rows
    BY WrittenAfter
  <2> QED
    BY <2>1, SeqMonotonic DEF IInv, TypeOK, IdsAreKept
<1>2. PICK n \in Nat : n = Len(written)
  BY <1>1, LenProperties
<1>3. PICK m \in Nat : m = Len(out) /\ DOMAIN out = 1..m
  BY <1>1, LenProperties
<1>4. /\ written' = written \o out /\ DOMAIN written' = 1..n + m /\ DOMAIN written = 1..n
      /\ \A i \in 1..n + m : written'[i] = IF i <= n THEN written[i] ELSE out[i - n]
  BY <1>1, <1>2, <1>3, ConcatProperties, LenProperties DEF WritesAs
<1>5. /\ ToSet(out) = S /\ \A i, j \in 1..m : i # j => out[i] # out[j]
      /\ \A i \in 1..m : Rank(S, out[i]) = i - 1
  BY <1>1, <1>3, SortedRows
<1>6. SeenCap \in Nat \ {0}
  BY DEF StreamAssumption
<1> SUFFICES ASSUME NEW i \in 1..n + m, NEW j \in 1..n + m, i < j, written'[i] = written'[j],
                    j - i <= SeenCap
             PROVE  FALSE
  BY <1>4, <1>6 DEF RepeatsAreFarApart
<1>7. CASE j <= n
  <2>1. i \in DOMAIN written /\ j \in DOMAIN written /\ written[i] = written[j]
    BY <1>4, <1>7
  <2> QED
    BY <1>6, <2>1 DEF IInv, RepeatsAreFarApart
<1>8. CASE i > n
  <2>1. i - n \in 1..m /\ j - n \in 1..m /\ i - n # j - n
    BY <1>8
  <2>2. out[i - n] = out[j - n]
    BY <1>4, <1>8
  <2> QED
    BY <1>5, <2>1, <2>2
<1>9. CASE i <= n /\ j > n
  <2>1. PICK q \in 1..m : q = j - n
    BY <1>9
  <2> DEFINE pre == SubSeq(out, 1, q - 1)
             u == written \o pre
  <2>2. out[q] \in S /\ written[i] = out[q] /\ i \in 1..n
    <3>1. i \in 1..n /\ ~(j <= n)
      BY <1>9
    <3>2. written'[i] = written[i] /\ written'[j] = out[q]
      BY <1>4, <2>1, <3>1
    <3>3. out[q] \in S
      BY <1>3, <1>5 DEF ToSet
    <3> QED
      BY <3>1, <3>2, <3>3
  <2>3. out[q] \notin ToSet(Kept(seenIds \o pre))
    BY <1>1, <1>5, <2>2 DEF WritesAs, IsNew
  <2>4. pre \in Seq(A) /\ Len(pre) = q - 1
    <3>1. q - 1 \in Int /\ \A x \in 1..q - 1 : x \in 1..m
      OBVIOUS
    <3>2. \A x \in 1..q - 1 : out[x] \in A
      BY <1>1, <1>3, <3>1, ElementOfSeq
    <3> HIDE DEF A
    <3>3. pre \in Seq(A) /\ Len(pre) = IF 1 <= q - 1 THEN q - 1 - 1 + 1 ELSE 0
      BY <3>1, <3>2, SubSeqProperties, Z3
    <3> QED
      BY <3>3
  <2> HIDE DEF pre
  <2>5. Kept(seenIds \o pre) = Kept(u)
    BY <1>1, <2>4, KeptTwice
  <2>6. u \in Seq(A) /\ Len(u) = n + (q - 1) /\ u[i] = written[i]
    <3>1. /\ u \in Seq(A) /\ Len(u) = Len(written) + Len(pre)
          /\ \A x \in 1..Len(written) + Len(pre) :
               u[x] = IF x <= Len(written) THEN written[x] ELSE pre[x - Len(written)]
      BY <1>1, <2>4, ConcatProperties
    <3> HIDE DEF u
    <3>2. i \in 1..n + (q - 1) /\ i <= n
      BY <2>2
    <3> QED
      BY <1>2, <2>4, <3>1, <3>2
  <2>7. PICK l \in Nat : l = n + (q - 1)
    OBVIOUS
  <2>8. PICK k \in Nat : k = IF l <= SeenCap THEN l ELSE SeenCap
    BY <1>6
  <2> HIDE DEF u
  <2>9. Kept(u) \in Seq(A) /\ Len(Kept(u)) = k /\ \A x \in 1..k : Kept(u)[x] = u[l - k + x]
    <3>1. l = Len(u) /\ u \in Seq(A)
      BY <2>6, <2>7
    <3> HIDE DEF A
    <3> QED
      BY <2>8, <3>1, KeptIds
  <2>10. PICK x \in 1..k : x = i - l + k
    <3>1. i - l + k >= 1 /\ i - l + k <= k
      BY <1>6, <1>9, <2>1, <2>2, <2>7, <2>8
    <3> QED
      BY <3>1, <2>2
  <2>11. Kept(u)[x] = u[i]
    <3>1. l - k + x = i
      BY <2>10
    <3> QED
      BY <2>9, <3>1
  <2>12. Kept(u)[x] \in ToSet(Kept(u))
    BY <2>9, ElementsOfSeq DEF ToSet
  <2> QED
    BY <2>2, <2>3, <2>5, <2>6, <2>11, <2>12
<1> QED
  BY <1>7, <1>8, <1>9

----------------------------------------------------------------------------
(* The steps *)

\* An event keeps its stamp, and a new one is stamped with the present unless it is late.
LEMMA StampsStay ==
  ASSUME TypeOK, [Next]_vars
  PROVE  /\ Inserted \subseteq Inserted'
         /\ \A e \in Inserted : stamp'[e] = stamp[e]
         /\ \A e \in Inserted' \ Inserted : stamp'[e].late \/ stamp'[e].at = clock
<1>1. CASE UNCHANGED stamp
  BY <1>1 DEF Inserted
<1>2. ASSUME NEW at \in 1..clock, InsertEvent(at)
      PROVE  /\ Inserted \subseteq Inserted'
             /\ \A e \in Inserted : stamp'[e] = stamp[e]
             /\ \A e \in Inserted' \ Inserted : stamp'[e].late \/ stamp'[e].at = clock
  <2> DEFINE new == [at |-> at, late |-> at < clock]
             T == [at : 1..clock, late : BOOLEAN]
  <2>1. stamp \in Seq(T) /\ new \in T /\ stamp' = Append(stamp, new) /\ clock \in Nat
    BY <1>2 DEF TypeOK, InsertEvent
  <2>2. new.late \/ new.at = clock
    <3>1. at < clock \/ at = clock
      BY <2>1
    <3>2. new.late = (at < clock) /\ new.at = at
      OBVIOUS
    <3> QED
      BY <3>1, <3>2
  <2> HIDE DEF new, T
  <2>3. /\ DOMAIN stamp' = 1..Len(stamp) + 1 /\ DOMAIN stamp = 1..Len(stamp)
        /\ Len(stamp) \in Nat /\ stamp'[Len(stamp) + 1] = new
        /\ \A e \in 1..Len(stamp) : stamp'[e] = stamp[e]
    BY <2>1
  <2> QED
    BY <2>2, <2>3 DEF Inserted
<1> QED
  BY <1>1, <1>2
  DEF Next, vars, TimePasses, Drop, Reconnect, Load, Write

\* Each write writes something as WritesAs says.
LEMMA WriteWrites ==
  ASSUME NEW p \in Polls, Write(p)
  PROVE  \E S, out : WritesAs(p, S, out)
BY DEF Write, WritesAs

LEMMA InitRight ==
  ASSUME StreamAssumption, Init
  PROVE  IInv
<1>1. <<>> = stamp /\ Len(stamp) = 0 /\ Inserted = {} /\ ToSet(written) = {} /\ DOMAIN written = {}
  BY EmptySeq DEF Init, Inserted, ToSet
<1>2. TypeOK
  BY <1>1, EmptySeq DEF Init, TypeOK, NoRows, StreamAssumption
<1>3. Kept(<<>>) = <<>>
  BY DEF Kept, StreamAssumption
<1>4. \A p \in Polls : poll[p].rows = {}
  BY DEF Init, NoRows
<1> QED
  BY <1>1, <1>2, <1>3, <1>4
  DEF Init, IInv, RowsAreAsked, IdsAreKept, CursorIsWritten, PollsAreComplete, NoGaps,
      RepeatsAreFarApart

LEMMA StepTypes ==
  ASSUME StreamAssumption, IInv, [Next]_vars
  PROVE  TypeOK'
<1>1. TypeOK
  BY DEF IInv
<1>2. /\ Inserted \subseteq Inserted' /\ \A e \in Inserted : stamp'[e] = stamp[e]
      /\ clock \in Nat /\ EventCount \in Nat
  BY <1>1, StampsStay, StampTypes DEF StreamAssumption
<1>3. /\ seenIds \in Seq(Inserted') /\ written \in Seq(wanted \cap Inserted')
      /\ poll \in [Polls -> [loaded : BOOLEAN, rows : SUBSET Inserted']]
  <2>1. seenIds \in Seq(Inserted') /\ written \in Seq(wanted \cap Inserted')
    BY <1>1, <1>2, SeqMonotonic DEF TypeOK
  <2>2. poll \in [Polls -> [loaded : BOOLEAN, rows : SUBSET Inserted']]
    BY <1>1, <1>2 DEF TypeOK
  <2> QED
    BY <2>1, <2>2
<1>4. CASE UNCHANGED vars
  BY <1>1, <1>4 DEF TypeOK, vars, Inserted
<1>5. ASSUME NEW at \in 1..clock, InsertEvent(at) PROVE TypeOK'
  <2>1. stamp' \in Seq([at : 1..clock, late : BOOLEAN]) /\ Len(stamp') = Len(stamp) + 1
    BY <1>1, <1>5 DEF TypeOK, InsertEvent
  <2>2. Len(stamp') <= EventCount
    BY <1>1, <1>2, <1>5, <2>1, StampTypes DEF InsertEvent
  <2> QED
    BY <1>1, <1>3, <1>5, <2>1, <2>2 DEF TypeOK, InsertEvent
<1>6. CASE TimePasses
  <2>1. clock' \in 1..EventCount + 1 /\ 1..clock \subseteq 1..clock'
    BY <1>1, <1>2, <1>6, StampTypes DEF TypeOK, TimePasses
  <2>2. stamp' \in Seq([at : 1..clock', late : BOOLEAN])
    <3> DEFINE T == [at : 1..clock, late : BOOLEAN]
               U == [at : 1..clock', late : BOOLEAN]
    <3>1. T \subseteq U /\ stamp \in Seq(T) /\ stamp' = stamp
      BY <1>1, <1>6, <2>1 DEF TypeOK, TimePasses
    <3> HIDE DEF T, U
    <3>2. stamp' \in Seq(U)
      BY <3>1, SeqMonotonic
    <3> QED
      BY <3>2 DEF U
  <2>3. start' \in 1..clock' /\ cursor' \in start'..clock'
    BY <1>1, <1>2, <1>6, <2>1 DEF TypeOK, TimePasses
  <2> QED
    BY <1>1, <1>3, <1>6, <2>1, <2>2, <2>3 DEF TypeOK, TimePasses
<1>7. CASE Drop
  <2>1. poll' \in [Polls -> [loaded : BOOLEAN, rows : SUBSET Inserted']]
    BY <1>7 DEF Drop, NoRows
  <2>2. drops' \in 0..MaxDrops
    BY <1>1, <1>7 DEF Drop, TypeOK, StreamAssumption
  <2> QED
    BY <1>1, <1>3, <1>7, <2>1, <2>2 DEF TypeOK, Drop
<1>8. CASE Reconnect
  <2>1. start' \in 1..clock /\ cursor' \in start'..clock
    BY <1>1, <1>2, <1>8 DEF TypeOK, Reconnect
  <2>2. seenIds' \in Seq(Inserted') /\ Len(seenIds') <= SeenCap
        /\ written' \in Seq(wanted \cap Inserted')
    BY <1>8, EmptySeq DEF Reconnect, StreamAssumption
  <2> QED
    BY <1>1, <1>3, <1>8, <2>1, <2>2 DEF TypeOK, Reconnect
<1>9. ASSUME NEW p \in Polls, Load(p) PROVE TypeOK'
  <2>1. LoadEvents(cursor) \subseteq Inserted'
    BY <1>2, LoadedType
  <2>2. poll' \in [Polls -> [loaded : BOOLEAN, rows : SUBSET Inserted']]
    BY <1>3, <1>9, <2>1 DEF Load
  <2> QED
    BY <1>1, <1>3, <1>9, <2>2 DEF TypeOK, Load
<1>10. ASSUME NEW p \in Polls, Write(p) PROVE TypeOK'
  <2>1. PICK S, out : WritesAs(p, S, out)
    BY <1>10, WriteWrites
  <2>2. /\ S \in SUBSET (wanted \cap Inserted) /\ out \in Seq(S) /\ S \subseteq poll[p].rows
        /\ written' \in Seq(wanted \cap Inserted) /\ seenIds' = Kept(written')
    BY <2>1, WrittenAfter
  <2>3. UNCHANGED <<clock, stamp, wanted, open, start, drops>> /\ Inserted' = Inserted
    BY <2>1 DEF WritesAs, Inserted
  <2>4. seenIds' \in Seq(Inserted) /\ Len(seenIds') <= SeenCap
    <3>1. written' \in Seq(Inserted)
      BY <2>2, SeqMonotonic
    <3> QED
      BY <2>2, <3>1, KeptElements
  <2>5. cursor' \in start..clock
    <3>1. CASE out = <<>>
      BY <1>1, <2>1, <3>1 DEF WritesAs, TypeOK
    <3>2. CASE out # <<>>
      <4>1. out[Len(out)] \in S
        BY <2>2, <3>2, EmptySeq, ElementOfSeq
      <4>2. out[Len(out)] \in Inserted /\ stamp[out[Len(out)]].at >= start
        BY <2>2, <4>1 DEF IInv, RowsAreAsked
      <4>3. stamp[out[Len(out)]].at \in 1..clock /\ start \in 1..clock
        BY <1>1, <4>2, StampTypes DEF TypeOK
      <4> QED
        BY <1>2, <2>1, <3>2, <4>2, <4>3 DEF WritesAs
    <3> QED
      BY <3>1, <3>2
  <2>6. poll' \in [Polls -> [loaded : BOOLEAN, rows : SUBSET Inserted]]
    BY <1>1, <2>1 DEF WritesAs, NoRows, TypeOK
  <2> QED
    BY <1>1, <2>2, <2>3, <2>4, <2>5, <2>6 DEF TypeOK
<1> QED
  BY <1>4, <1>5, <1>6, <1>7, <1>8, <1>9, <1>10 DEF Next

\* What poll q holds stays complete when the connection goes on and q keeps its rows.
LEMMA RowsStayComplete ==
  ASSUME IInv, [Next]_vars, UNCHANGED <<start, wanted>>, ToSet(written) \subseteq ToSet(written'),
         NEW q \in Polls, poll'[q].rows \in {poll[q].rows, {}},
         NEW e \in Inserted' \ (ToSet(written') \cup poll'[q].rows), Due(e)',
         NEW d \in poll'[q].rows
  PROVE  stamp'[d].at <= stamp'[e].at
<1>1. TypeOK /\ poll'[q].rows = poll[q].rows /\ d \in Inserted
  BY DEF IInv, RowsAreAsked
<1>2. /\ Inserted \subseteq Inserted' /\ stamp'[d] = stamp[d]
      /\ \A c \in Inserted : stamp'[c] = stamp[c]
      /\ \A c \in Inserted' \ Inserted : stamp'[c].late \/ stamp'[c].at = clock
  BY <1>1, StampsStay
<1>3. CASE e \in Inserted
  <2>1. Due(e)
    BY <1>2, <1>3 DEF Due
  <2>2. e \in Inserted \ (ToSet(written) \cup poll[q].rows)
    BY <1>1, <1>3
  <2>3. stamp[d].at <= stamp[e].at
    BY <1>1, <2>1, <2>2 DEF IInv, PollsAreComplete
  <2> QED
    BY <1>2, <1>3, <2>3
<1>4. CASE e \notin Inserted
  <2>1. stamp'[e].at = clock
    BY <1>2, <1>4 DEF Due
  <2> QED
    BY <1>1, <1>2, <2>1, StampTypes
<1> QED
  BY <1>3, <1>4

\* Without a write nothing new can be missing: an event that becomes visible in time is
\* not earlier than what was written.
LEMMA NoNewGap ==
  ASSUME IInv, [Next]_vars, UNCHANGED <<start, wanted, written>>
  PROVE  NoGaps'
<1>1. TypeOK
  BY DEF IInv
<1>2. /\ Inserted \subseteq Inserted'
      /\ \A c \in Inserted : stamp'[c] = stamp[c]
      /\ \A c \in Inserted' \ Inserted : stamp'[c].late \/ stamp'[c].at = clock
  BY <1>1, StampsStay
<1>3. \A i \in DOMAIN written : written[i] \in Inserted
  BY <1>1, ElementsOfSeq, ElementOfSeq DEF TypeOK
<1> SUFFICES ASSUME NEW e \in Inserted' \ ToSet(written), Due(e)', NEW i \in DOMAIN written
             PROVE  stamp'[written[i]].at <= stamp'[e].at
  BY DEF NoGaps
<1>4. CASE e \in Inserted
  <2>1. Due(e)
    BY <1>2, <1>4 DEF Due
  <2>2. stamp[written[i]].at <= stamp[e].at
    BY <1>4, <2>1 DEF IInv, NoGaps
  <2> QED
    BY <1>2, <1>3, <1>4, <2>2
<1>5. CASE e \notin Inserted
  <2>1. stamp'[e].at = clock
    BY <1>2, <1>5 DEF Due
  <2> QED
    BY <1>1, <1>2, <1>3, <2>1, StampTypes
<1> QED
  BY <1>4, <1>5

\* A step that neither loads, writes nor connects keeps what IInv says of the connection.
LEMMA OthersKeep ==
  ASSUME StreamAssumption, IInv, [Next]_vars,
         UNCHANGED <<wanted, start, cursor, seenIds, written>>,
         \A q \in Polls : poll'[q].rows = poll[q].rows \/ poll'[q].rows = {},
         open' = open \/ \A q \in Polls : poll'[q].rows = {}
  PROVE  IInv'
<1>1. TypeOK' /\ TypeOK
  BY StepTypes DEF IInv
<1>2. Inserted \subseteq Inserted' /\ \A c \in Inserted : stamp'[c] = stamp[c]
  BY <1>1, StampsStay
<1>3. RowsAreAsked'
  BY <1>2 DEF IInv, RowsAreAsked
<1>4. IdsAreKept'
  BY DEF IInv, IdsAreKept
<1>5. CursorIsWritten'
  <2>1. ToSet(written) \subseteq Inserted
    BY <1>1, ElementsOfSeq DEF TypeOK
  <2> QED
    BY <1>2, <2>1 DEF IInv, CursorIsWritten
<1>6. PollsAreComplete'
  BY RowsStayComplete DEF PollsAreComplete
<1>7. NoGaps'
  BY NoNewGap
<1>8. RepeatsAreFarApart'
  BY DEF IInv, RepeatsAreFarApart
<1> QED
  BY <1>1, <1>3, <1>4, <1>5, <1>6, <1>7, <1>8 DEF IInv

LEMMA LoadKeeps ==
  ASSUME StreamAssumption, IInv, NEW p \in Polls, Load(p)
  PROVE  IInv'
<1>1. TypeOK' /\ TypeOK /\ [Next]_vars
  BY StepTypes DEF IInv, Next
<1>2. /\ UNCHANGED <<clock, stamp, wanted, open, start, cursor, seenIds, written, drops>>
      /\ Inserted' = Inserted /\ open
      /\ poll'[p].rows = LoadEvents(cursor)
      /\ \A q \in Polls : q # p => poll'[q] = poll[q]
  BY <1>1 DEF Load, Inserted, TypeOK
<1>3. cursor \in Nat /\ start \in Nat /\ cursor >= start
  BY <1>1, StampTypes DEF TypeOK
<1>4. RowsAreAsked'
  <2>1. \A e \in LoadEvents(cursor) : e \in wanted \cap Inserted /\ stamp[e].at >= start
    <3>1. \A e \in LoadEvents(cursor) : e \in wanted \cap Inserted /\ stamp[e].at >= cursor
      BY LoadedType
    <3> QED
      BY <1>1, <1>3, <3>1, StampTypes
  <2> QED
    BY <1>2, <2>1 DEF IInv, RowsAreAsked
<1>5. IdsAreKept'
  BY <1>2 DEF IInv, IdsAreKept
<1>6. CursorIsWritten'
  BY <1>2 DEF IInv, CursorIsWritten
<1>7. PollsAreComplete'
  <2> SUFFICES ASSUME NEW q \in Polls,
                      NEW e \in Inserted \ (ToSet(written) \cup poll'[q].rows), Due(e),
                      NEW d \in poll'[q].rows
               PROVE  stamp[d].at <= stamp[e].at
    BY <1>2 DEF PollsAreComplete, Due
  <2>1. CASE q # p
    BY <1>2, <2>1 DEF IInv, PollsAreComplete
  <2>2. CASE q = p
    <3>1. stamp[e].at >= cursor
      <4>1. CASE cursor = start
        BY <4>1 DEF Due
      <4>2. CASE cursor # start
        <5>1. PICK w \in ToSet(written) : stamp[w].at = cursor
          BY <4>2 DEF IInv, CursorIsWritten
        <5>2. PICK i \in DOMAIN written : written[i] = w
          BY <5>1 DEF ToSet
        <5>3. stamp[w].at <= stamp[e].at
          BY <5>2 DEF IInv, NoGaps
        <5> QED
          BY <1>1, <1>3, <5>1, <5>3, StampTypes
      <4> QED
        BY <4>1, <4>2
    <3>2. e \in (wanted \cap Inserted) \ LoadEvents(cursor) /\ d \in LoadEvents(cursor)
      BY <1>2, <2>2 DEF Due
    <3> QED
      BY <1>1, <1>3, <3>1, <3>2, LoadedInOrder
  <2> QED
    BY <2>1, <2>2
<1>8. NoGaps'
  BY <1>1, <1>2, NoNewGap
<1>9. RepeatsAreFarApart'
  BY <1>2 DEF IInv, RepeatsAreFarApart
<1> QED
  BY <1>1, <1>4, <1>5, <1>6, <1>7, <1>8, <1>9 DEF IInv

LEMMA WriteKeeps ==
  ASSUME StreamAssumption, IInv, NEW p \in Polls, Write(p)
  PROVE  IInv'
<1>1. TypeOK' /\ TypeOK /\ [Next]_vars
  BY StepTypes DEF IInv, Next
<1>2. PICK S, out : WritesAs(p, S, out)
  BY WriteWrites
<1>3. /\ S \in SUBSET (wanted \cap Inserted) /\ out \in Seq(S) /\ S \subseteq poll[p].rows
      /\ ToSet(written') = ToSet(written) \cup S /\ out \in Sorted(S)
      /\ poll[p].rows \subseteq ToSet(written') /\ seenIds' = Kept(written')
  BY <1>2, WrittenAfter
<1>4. /\ UNCHANGED <<clock, stamp, wanted, open, start, drops>> /\ Inserted' = Inserted
      /\ poll'[p].rows = {} /\ \A q \in Polls : q # p => poll'[q] = poll[q]
  BY <1>1, <1>2 DEF WritesAs, Inserted, TypeOK, NoRows
<1>5. RowsAreAsked'
  BY <1>4 DEF IInv, RowsAreAsked
<1>6. IdsAreKept'
  BY <1>3 DEF IdsAreKept
<1>7. CursorIsWritten'
  <2>1. CASE out = <<>>
    BY <1>2, <1>3, <1>4, <2>1 DEF IInv, CursorIsWritten, WritesAs
  <2>2. CASE out # <<>>
    <3>1. out[Len(out)] \in S
      BY <1>3, <2>2, EmptySeq, ElementOfSeq
    <3> QED
      BY <1>2, <1>3, <1>4, <2>2, <3>1 DEF CursorIsWritten, WritesAs
  <2> QED
    BY <2>1, <2>2
<1>8. PollsAreComplete'
  <2>1. ToSet(written) \subseteq ToSet(written') /\ UNCHANGED <<start, wanted>>
        /\ \A q \in Polls : poll'[q].rows \in {poll[q].rows, {}}
    BY <1>3, <1>4
  <2> QED
    BY <1>1, <2>1, RowsStayComplete DEF PollsAreComplete
<1>9. NoGaps'
  <2> SUFFICES ASSUME NEW e \in Inserted \ ToSet(written'), Due(e), NEW w \in ToSet(written')
               PROVE  stamp[w].at <= stamp[e].at
    BY <1>4 DEF NoGaps, Due, ToSet
  <2>1. CASE w \in ToSet(written)
    <3>1. PICK i \in DOMAIN written : written[i] = w
      BY <2>1 DEF ToSet
    <3>2. e \in Inserted \ ToSet(written)
      BY <1>3
    <3> QED
      BY <3>1, <3>2 DEF IInv, NoGaps
  <2>2. CASE w \in S
    <3>1. e \in Inserted \ (ToSet(written) \cup poll[p].rows) /\ w \in poll[p].rows
      BY <1>3, <2>2
    <3> QED
      BY <3>1 DEF IInv, PollsAreComplete
  <2> QED
    BY <1>3, <2>1, <2>2
<1>10. RepeatsAreFarApart'
  BY <1>2, WrittenApart
<1> QED
  BY <1>1, <1>5, <1>6, <1>7, <1>8, <1>9, <1>10 DEF IInv

LEMMA ReconnectKeeps ==
  ASSUME StreamAssumption, IInv, Reconnect
  PROVE  IInv'
<1>1. TypeOK'
  BY StepTypes DEF IInv, Next
<1>2. \A q \in Polls : poll'[q].rows = {}
  BY DEF IInv, RowsAreAsked, Reconnect
<1>3. ToSet(written') = {} /\ DOMAIN written' = {} /\ Kept(written') = <<>>
  <2>1. written' = <<>> /\ Len(written') = 0 /\ DOMAIN written' = {}
    BY EmptySeq DEF Reconnect
  <2> QED
    BY <2>1 DEF Kept, ToSet, StreamAssumption
<1> QED
  BY <1>1, <1>2, <1>3
  DEF Reconnect, IInv, RowsAreAsked, IdsAreKept, CursorIsWritten, PollsAreComplete, NoGaps,
      RepeatsAreFarApart

LEMMA Inductive ==
  ASSUME StreamAssumption
  PROVE  Spec => []IInv
<1>1. Init => IInv
  BY InitRight
<1>2. ASSUME IInv, [Next]_vars PROVE IInv'
  <2>1. CASE UNCHANGED vars
    BY <1>2, <2>1, OthersKeep DEF vars
  <2>2. ASSUME NEW at \in 1..clock, InsertEvent(at) PROVE IInv'
    BY <1>2, <2>2, OthersKeep DEF InsertEvent
  <2>3. CASE TimePasses
    BY <1>2, <2>3, OthersKeep DEF TimePasses
  <2>4. CASE Drop
    <3>1. \A q \in Polls : poll'[q].rows = {}
      BY <2>4 DEF Drop, NoRows
    <3> QED
      BY <1>2, <2>4, <3>1, OthersKeep DEF Drop
  <2> QED
    BY <1>2, <2>1, <2>2, <2>3, <2>4, LoadKeeps, WriteKeeps, ReconnectKeeps DEF Next
<1> QED
  BY <1>1, <1>2, PTL DEF Spec

----------------------------------------------------------------------------
(* What follows *)

\* Each part of the state has its type; no more than SeenCap ids are remembered.
THEOREM StreamTypes == ASSUME StreamAssumption PROVE Spec => []TypeOK
<1>1. IInv => TypeOK
  BY DEF IInv
<1> QED
  BY <1>1, Inductive, PTL

\* Once a connection wrote an event it wrote every earlier one it was asked for that
\* became visible in time, however its polls overlap (events.ts:45-86 and 176-201).
THEOREM StreamHasNoGaps == ASSUME StreamAssumption PROVE Spec => []NoGaps
<1>1. IInv => NoGaps
  BY DEF IInv
<1> QED
  BY <1>1, Inductive, PTL

\* Two writes of one event on a connection are more than SeenCap writes apart
\* (events.ts:180-187).
THEOREM RepeatsAreRare == ASSUME StreamAssumption PROVE Spec => []RepeatsAreFarApart
<1>1. IInv => RepeatsAreFarApart
  BY DEF IInv
<1> QED
  BY <1>1, Inductive, PTL
=============================================================================
