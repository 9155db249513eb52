------------------------ MODULE PolicyEvaluationProofs ------------------------
(***************************************************************************)
(* Policy evaluation, for every set of intents, packs and contents of      *)
(* packs, every configuration and every bound: the payload of an intent    *)
(* and the decision on it agree, and the limits hold while executions do   *)
(* not overlap.                                                            *)
(***************************************************************************)
EXTENDS PolicyEvaluation, WellFoundedInduction, TLAPS

Payloads == [named : Ids, effective : Ids]
Resolved == [found : BOOLEAN, pack : Contents \cup {None}, source : Ids]

HandlerPcs == {"idle", "daily", "open", "resolve", "commit"}
HandlerType ==
  [pc : HandlerPcs, seen : Statuses \cup {None}, payload : Payloads \cup {None},
   daily : Nat, open : Nat, at : Nat, resolved : Resolved \cup {None}]

\* What a request, a handler and the stored packs look like.
Shapes ==
  /\ request \in [Intents -> {None} \cup [id : Packs, read : Payloads, pc : {"write", "add"}]]
  /\ handler \in [Intents -> HandlerType]
  /\ \A i \in Intents : handler[i].pc # "idle" => handler[i].payload \in Payloads
  /\ \A i \in Intents : handler[i].pc = "commit" => handler[i].resolved \in Resolved
  /\ \A p \in DOMAIN packs : packs[p] \in Contents
  /\ DOMAIN decision = Intents /\ DOMAIN executing = Intents
  /\ \A i \in Intents : decision[i] # None => decision[i].pack \in Ids
  /\ rows \in Nat /\ spent \in [Counters -> Nat]

\* A decision keeps the limits it was checked against until the next row comes: with
\* t trades today, u unsettled executions and r rows.
Keeps(d, t, u, r) ==
  /\ d.at \in 0..r /\ d.maxDaily \in CapValues /\ d.maxUnsettled \in CapValues
  /\ (d.verdict = "allowed" /\ d.at = r) =>
       /\ CountedBelow(t, d.maxDaily) = "pass"
       /\ CountedBelow(u, d.maxUnsettled) = "pass"

\* So does what a handler h has counted on the way to its decision.
Counts(h, t, u, r) ==
  /\ (h.pc \in {"open", "resolve", "commit"} /\ h.at = r) => t <= h.daily
  /\ (h.pc \in {"resolve", "commit"} /\ h.at = r) => u <= h.open

\* And what an execution e has read of it.
Executes(e, t, u, r) ==
  /\ e = [under |-> e.under, hop |-> e.hop]
  /\ e.under.verdict = "allowed"
  /\ Keeps(e.under, t, u, r)

Kept(i, t, u, r) ==
  /\ Counts(handler[i], t, u, r)
  /\ decision[i] # None => Keeps(decision[i], t, u, r)
  /\ executing[i] # None => Executes(executing[i], t, u, r)

LimitsAreKept == \A i \in Intents : Kept(i, trades, unsettled, rows)

IInv == TypeOK /\ Shapes /\ LimitsAreKept /\ PayloadIsCurrent

----------------------------------------------------------------------------
(* Least and greatest numbers *)

LEMMA LeastExists ==
  ASSUME NEW S \in SUBSET Nat, S # {}
  PROVE  \E n \in S : \A m \in S : n <= m
<1> DEFINE Less == {p \in Nat \X Nat : p[1] < p[2]}
<1>1. Less = OpToRel(<, Nat)
  BY Zenon DEF OpToRel
<1>2. IsWellFoundedOn(Less, Nat)
  BY <1>1, NatLessThanWellFounded, Zenon
<1>3. \E n \in S : \A m \in S : ~(<<m, n>> \in Less)
  <2> HIDE DEF Less
  <2> QED BY <1>2, WFMin
<1>4. PICK n \in S : \A m \in S : ~(<<m, n>> \in Less)
  BY <1>3, Zenon
<1>5. \A m \in S : ~(m < n)
  BY <1>4
<1> QED
  BY <1>5

LEMMA MinOfNumbers ==
  ASSUME NEW S \in SUBSET Nat, S # {}
  PROVE  Min(S) \in S /\ \A m \in S : Min(S) <= m
BY LeastExists DEF Min

LEMMA MaxOfBounded ==
  ASSUME NEW b \in Nat, NEW S \in SUBSET (0..b), S # {}
  PROVE  Max(S) \in S /\ \A m \in S : m <= Max(S)
<1> DEFINE T == {b - n : n \in S}
<1>0. \A n \in S : n \in Nat /\ n <= b /\ b - n \in Nat
  OBVIOUS
<1>1. T \in SUBSET Nat /\ T # {}
  BY <1>0
<1>2. PICK d \in T : \A m \in T : d <= m
  BY <1>1, LeastExists
<1>3. PICK n \in S : d = b - n
  BY <1>2
<1>4. \A m \in S : b - n <= b - m
  BY <1>2, <1>3
<1>5. \A m \in S : n >= m
  BY <1>0, <1>4
<1> QED
  BY <1>0, <1>3, <1>5 DEF Max

----------------------------------------------------------------------------
(* Which pack is chosen *)

\* The place that counts is one of the six.
LEMMA FirstPlaceIsAPlace ==
  ASSUME NEW named, Places(named) # {}
  PROVE  FirstPlace(named) \in ToSet(Precedence)
<1>1. DOMAIN Precedence = 1..6
  BY DEF Precedence
<1>2. Places(named) \in SUBSET Nat
  BY <1>1 DEF Places
<1>3. Min(Places(named)) \in Places(named)
  BY <1>2, MinOfNumbers
<1> QED
  BY <1>3 DEF FirstPlace, Places, ToSet

\* It names an id, or nothing.
LEMMA ResolvedIdIsAnId ==
  ASSUME EvaluationAssumption, NEW i \in Intents, handler[i].payload \in Payloads
  PROVE  ResolvedId(i) \in Ids
<1> DEFINE P == ToSet(Precedence)
<1>1. None \in Ids
  BY DEF Ids
<1>2. Defaults \in [P \ {"request", "intent"} -> Ids]
  BY DEF EvaluationAssumption, Ids
<1>3. handler[i].payload.named \in Ids
  BY DEF Payloads
<1> HIDE DEF P
<1>4. \A p \in P : Named(i)[p] \in Ids
  BY <1>1, <1>2, <1>3 DEF Named, P
<1>5. CASE Places(Named(i)) = {}
  BY <1>1, <1>5 DEF ResolvedId
<1>6. CASE Places(Named(i)) # {}
  BY <1>4, <1>6, FirstPlaceIsAPlace DEF ResolvedId, P
<1> QED
  BY <1>5, <1>6

\* What is loaded is a stored pack or nothing.
LEMMA ResolvedIsTyped ==
  ASSUME EvaluationAssumption, NEW i \in Intents, handler[i].payload \in Payloads,
         \A p \in DOMAIN packs : packs[p] \in Contents
  PROVE  [ResolvePack(Named(i), packs) EXCEPT !.source = ResolvedId(i)] \in Resolved
<1>1. ResolvedId(i) \in Ids
  BY ResolvedIdIsAnId
<1>2. CASE Places(Named(i)) = {}
  BY <1>1, <1>2 DEF ResolvePack, Resolved
<1>3. CASE Places(Named(i)) # {}
  <2> DEFINE id == Named(i)[FirstPlace(Named(i))]
             pack == IF id \in DOMAIN packs THEN packs[id] ELSE None
  <2>1. ResolvePack(Named(i), packs)
          = [found |-> id \in DOMAIN packs, pack |-> pack, source |-> FirstPlace(Named(i))]
    BY <1>3 DEF ResolvePack
  <2>2. pack \in Contents \cup {None}
    OBVIOUS
  <2>3. (id \in DOMAIN packs) \in BOOLEAN
    OBVIOUS
  <2> HIDE DEF id, pack
  <2>4. [ResolvePack(Named(i), packs) EXCEPT !.source = ResolvedId(i)]
          = [found |-> id \in DOMAIN packs, pack |-> pack, source |-> ResolvedId(i)]
    BY <2>1
  <2> QED
    BY <1>1, <2>2, <2>3, <2>4 DEF Resolved
<1> QED
  BY <1>2, <1>3

----------------------------------------------------------------------------
(* The caps of a decision *)

\* Fewer than were counted pass as well.
LEMMA FewerPass ==
  ASSUME NEW cap \in CapValues, NEW m \in Nat, NEW n \in Nat, m <= n,
         CountedBelow(n, cap) = "pass"
  PROVE  CountedBelow(m, cap) = "pass"
BY DEF CapValues, CountedBelow, Uncapped, Verdict

\* Every value of a pack's configuration is that of one of its items.
LEMMA CustomIsOfAnItem ==
  ASSUME EvaluationAssumption, NEW p \in Contents, NEW k \in DOMAIN CustomConfig(p)
  PROVE  \E i \in DOMAIN p.rules :
           p.rules[i].config # None /\ CustomConfig(p)[k] = p.rules[i].config
<1> DEFINE items == {i \in DOMAIN p.rules : p.rules[i].config # None}
           here == {i \in items : KeyOf(p.rules[i]) = k}
<1>1. p.rules \in Seq(ToSet(p.rules))
  BY DEF EvaluationAssumption
<1>2. DOMAIN p.rules = 1..Len(p.rules) /\ Len(p.rules) \in Nat
  BY <1>1
<1>3. k \in {KeyOf(p.rules[i]) : i \in items}
  BY DEF CustomConfig
<1>4. here \in SUBSET (0..Len(p.rules)) /\ here # {}
  BY <1>2, <1>3
<1>5. Max(here) \in here
  BY <1>2, <1>4, MaxOfBounded
<1>6. CustomConfig(p)[k] = p.rules[Max(here)].config
  BY <1>3 DEF CustomConfig
<1> QED
  BY <1>5, <1>6

\* The rules of the caps are registered as rules, whatever a pack registers besides.
LEMMA CapRulesStay ==
  ASSUME NEW p, NEW r \in RuleIds
  PROVE  r \in DOMAIN ApplyPack(NewEngine, p) /\ ApplyPack(NewEngine, p)[r].kind = "rule"
<1> DEFINE E == Toggled(NewEngine, p.rules)
<1>1. DOMAIN E = RuleIds
  BY DEF Toggled, NewEngine
<1>2. E[r].kind = "rule"
  BY DEF Toggled, NewEngine, RuleEntry
<1> HIDE DEF E
<1>3. Registered(E, p.compositions)[r] = E[r] /\ r \in DOMAIN Registered(E, p.compositions)
  BY <1>1 DEF Registered, Accepted, Has
<1> QED
  BY <1>2, <1>3 DEF ApplyPack, E

\* A cap is the one of the configuration, one a pack's item gives, or Junk.
LEMMA EffectiveCaps ==
  ASSUME EvaluationAssumption, NEW p \in Contents, NEW key \in CountedKeys
  PROVE  EffectiveConfig(Config, CustomConfig(p))[key] \in CapValues
<1> DEFINE custom == CustomConfig(p)
<1>1. key \in DOMAIN Config
  BY DEF EvaluationAssumption, CountedKeys, ConfigKeys, ConfigKeyOf
<1>2. Config[key] \in CapValues /\ Junk \in CapValues
  BY DEF EvaluationAssumption, CapValues
<1>3. \A k \in DOMAIN custom : Unwrapped(custom[k], key) \in CapValues
  <2> SUFFICES ASSUME NEW k \in DOMAIN custom PROVE Unwrapped(custom[k], key) \in CapValues
    OBVIOUS
  <2>1. PICK i \in DOMAIN p.rules : p.rules[i].config # None /\ custom[k] = p.rules[i].config
    BY CustomIsOfAnItem
  <2>2. key \in DOMAIN p.rules[i].config => p.rules[i].config[key] \in CapValues
    BY <2>1 DEF EvaluationAssumption
  <2> QED
    BY <1>2, <2>1, <2>2 DEF Unwrapped
<1> HIDE DEF custom
<1>4. EffectiveConfig(Config, custom)[key] \in CapValues
  BY <1>1, <1>2, <1>3 DEF EffectiveConfig
<1> QED
  BY <1>4 DEF custom

LEMMA NothingCustom ==
  ASSUME NEW key \in DOMAIN Config
  PROVE  EffectiveConfig(Config, <<>>)[key] = Config[key]
BY DEF EffectiveConfig

\* The engine and the configuration a decision is made with.
EngineOf(res) == IF res.pack = None THEN NewEngine ELSE ApplyPack(NewEngine, res.pack)
ConfigOf(res) ==
  IF res.pack = None THEN Config ELSE EffectiveConfig(Config, CustomConfig(res.pack))

LEMMA KeysAreConfigured ==
  ASSUME EvaluationAssumption
  PROVE  /\ {"maxDailyTrades", "maxUnsettledExecutions"} \subseteq DOMAIN Config
         /\ ConfigKeyOf["daily_trades"] = "maxDailyTrades"
         /\ ConfigKeyOf["unsettled_cap"] = "maxUnsettledExecutions"
BY DEF EvaluationAssumption, ConfigKeys, ConfigKeyOf

\* The cap a decision records is what the rule compares with.
LEMMA CapOfIsConfigured ==
  ASSUME EvaluationAssumption, NEW res \in Resolved, NEW r \in {"daily_trades", "unsettled_cap"}
  PROVE  /\ CapOf(r, res) = IF EngineOf(res)[r].enabled THEN ConfigOf(res)[ConfigKeyOf[r]] ELSE None
         /\ CapOf(r, res) \in CapValues
<1>1. ConfigKeyOf[r] \in DOMAIN Config /\ ConfigKeyOf[r] \in CountedKeys
  BY KeysAreConfigured DEF CountedKeys
<1>2. None \in CapValues /\ Config[ConfigKeyOf[r]] \in CapValues
  BY <1>1 DEF CapValues, EvaluationAssumption
<1>3. CASE res.pack = None
  BY <1>1, <1>2, <1>3, NothingCustom DEF CapOf, EngineOf, ConfigOf
<1>4. CASE res.pack # None
  <2>1. res.pack \in Contents
    BY <1>4 DEF Resolved
  <2>2. EffectiveConfig(Config, CustomConfig(res.pack))[ConfigKeyOf[r]] \in CapValues
    BY <1>1, <2>1, EffectiveCaps
  <2> QED
    BY <1>2, <1>4, <2>2 DEF CapOf, EngineOf, ConfigOf
<1> QED
  BY <1>3, <1>4

LEMMA CapRulesAreRules ==
  ASSUME NEW res, NEW r \in RuleIds
  PROVE  r \in DOMAIN EngineOf(res) /\ EngineOf(res)[r].kind = "rule"
<1>1. r \in DOMAIN NewEngine /\ NewEngine[r].kind = "rule"
  BY DEF NewEngine, RuleEntry
<1> QED
  BY <1>1, CapRulesStay DEF EngineOf

\* An allowed context passes every enabled rule.
LEMMA AllowedPassesRules ==
  ASSUME NEW res \in Resolved, NEW c, Decide(c, Config, res) = "allowed",
         NEW r \in RuleIds, EngineOf(res)[r].enabled
  PROVE  RuleVerdict(r, c, ConfigOf(res)) = "pass"
<1>1. Decision(EngineOf(res), c, ConfigOf(res)) = "allowed"
  BY DEF Decide, EngineOf, ConfigOf
<1>2. r \in Enabled(EngineOf(res)) /\ EngineOf(res)[r].kind = "rule"
  BY CapRulesAreRules DEF Enabled
<1>3. EntryVerdict(EngineOf(res), c, ConfigOf(res), r) = "pass"
  BY <1>1, <1>2 DEF Decision
<1> QED
  BY <1>2, <1>3 DEF EntryVerdict

\* So what was counted is below the caps that the decision records.
LEMMA AllowedIsBelowCaps ==
  ASSUME EvaluationAssumption, NEW i \in Intents, handler[i].resolved \in Resolved,
         DecisionOf(i).verdict = "allowed"
  PROVE  /\ CountedBelow(handler[i].daily, DecisionOf(i).maxDaily) = "pass"
         /\ CountedBelow(handler[i].open, DecisionOf(i).maxUnsettled) = "pass"
<1> DEFINE res == handler[i].resolved
           c == [ContextOf[i] EXCEPT !.dailyTrades = handler[i].daily, !.unsettled = handler[i].open]
<1>1. /\ DecisionOf(i).verdict = Decide(c, Config, res)
      /\ DecisionOf(i).maxDaily = CapOf("daily_trades", res)
      /\ DecisionOf(i).maxUnsettled = CapOf("unsettled_cap", res)
  BY DEF DecisionOf
<1>2. c.dailyTrades = handler[i].daily /\ c.unsettled = handler[i].open
  BY DEF EvaluationAssumption
<1>3. {"daily_trades", "unsettled_cap"} \subseteq RuleIds
  BY DEF RuleIds
<1>4. \A n : CountedBelow(n, None) = "pass"
  BY DEF CountedBelow, Uncapped, Verdict
<1> HIDE DEF c, res
<1>5. CountedBelow(handler[i].daily, CapOf("daily_trades", res)) = "pass"
  <2>1. CASE EngineOf(res)["daily_trades"].enabled
    <3>1. RuleVerdict("daily_trades", c, ConfigOf(res)) = "pass"
      BY <1>1, <1>3, <2>1, AllowedPassesRules DEF res
    <3>2. CountedBelow(c.dailyTrades, ConfigOf(res).maxDailyTrades) = "pass"
      BY <3>1 DEF RuleVerdict
    <3> QED
      BY <1>2, <2>1, <3>2, CapOfIsConfigured, KeysAreConfigured DEF res
  <2>2. CASE ~EngineOf(res)["daily_trades"].enabled
    BY <1>4, <2>2, CapOfIsConfigured DEF res
  <2> QED
    BY <2>1, <2>2
<1>6. CountedBelow(handler[i].open, CapOf("unsettled_cap", res)) = "pass"
  <2>1. CASE EngineOf(res)["unsettled_cap"].enabled
    <3>1. RuleVerdict("unsettled_cap", c, ConfigOf(res)) = "pass"
      BY <1>1, <1>3, <2>1, AllowedPassesRules DEF res
    <3>2. CountedBelow(c.unsettled, ConfigOf(res).maxUnsettledExecutions) = "pass"
      BY <3>1 DEF RuleVerdict
    <3> QED
      BY <1>2, <2>1, <3>2, CapOfIsConfigured, KeysAreConfigured DEF res
  <2>2. CASE ~EngineOf(res)["unsettled_cap"].enabled
    BY <1>4, <2>2, CapOfIsConfigured DEF res
  <2> QED
    BY <2>1, <2>2
<1> QED
  BY <1>1, <1>5, <1>6

----------------------------------------------------------------------------
(* Types *)

LEMMA NoHandlerIsAHandler == NoHandler \in HandlerType
BY DEF NoHandler, HandlerType, HandlerPcs

LEMMA BoundsAreNumbers ==
  ASSUME EvaluationAssumption PROVE \A c \in Counters : Limits[c] \in Nat
BY DEF EvaluationAssumption, Limits, Counters

LEMMA SpendIsBounded ==
  ASSUME EvaluationAssumption, TypeOK, Shapes, NEW what \in Counters, Spend(what)
  PROVE  /\ \A c \in Counters : spent'[c] \in 0..Limits[c]
         /\ spent' \in [Counters -> Nat]
BY BoundsAreNumbers DEF Spend, TypeOK, Shapes

LEMMA InitTypes ==
  ASSUME EvaluationAssumption, Init
  PROVE  TypeOK /\ Shapes
<1>1. \A i \in Intents : handler[i] = NoHandler /\ NoHandler.pc = "idle" /\ NoHandler.at = 0
  BY DEF Init, NoHandler
<1>2. handler \in [Intents -> HandlerType]
  BY NoHandlerIsAHandler DEF Init
<1>3. TypeOK
  BY <1>1, BoundsAreNumbers DEF Init, TypeOK, Ids, Statuses
<1>4. Shapes
  BY <1>1, <1>2 DEF Init, Shapes, HandlerType, HandlerPcs, Ids
<1> QED
  BY <1>3, <1>4

\* What TypeOK and Shapes say of the handlers.
HandlersOK ==
  /\ handler \in [Intents -> HandlerType]
  /\ \A i \in Intents :
       /\ handler[i].pc \in HandlerPcs
       /\ (handler[i].pc # "idle") = (job[i] = "active")
       /\ handler[i].at <= rows
       /\ handler[i].pc # "idle" => handler[i].payload \in Payloads
       /\ handler[i].pc = "commit" => handler[i].resolved \in Resolved

\* A step of the handler of i into the local state h.
LEMMA HandlerMoves ==
  ASSUME NEW i \in Intents, NEW h \in HandlerType, HandlersOK, handler' = [handler EXCEPT ![i] = h],
         rows' = rows, h.at <= rows, (h.pc # "idle") = (job'[i] = "active"),
         \A k \in Intents \ {i} : job'[k] = job[k],
         h.pc # "idle" => h.payload \in Payloads,
         h.pc = "commit" => h.resolved \in Resolved
  PROVE  HandlersOK'
<1>1. handler' \in [Intents -> HandlerType] /\ handler'[i] = h
  BY DEF HandlersOK
<1>2. \A k \in Intents \ {i} : handler'[k] = handler[k]
  BY DEF HandlersOK
<1>3. h.pc \in HandlerPcs
  BY DEF HandlerType
<1> QED
  BY <1>1, <1>2, <1>3 DEF HandlersOK

\* The local states of a handler, one after the other.
LEMMA HandlerStates ==
  ASSUME NEW h \in HandlerType, NEW n \in Nat
  PROVE  /\ \A m \in Nat : [h EXCEPT !.pc = "open", !.daily = n, !.at = m] \in HandlerType
         /\ [h EXCEPT !.pc = "resolve", !.open = n] \in HandlerType
         /\ \A res \in Resolved : [h EXCEPT !.pc = "commit", !.resolved = res] \in HandlerType
BY DEF HandlerType, HandlerPcs

LEMMA EnqueuedIsTyped ==
  ASSUME TypeOK, NEW i \in Intents, job' = Enqueued(i)
  PROVE  /\ job' \in [Intents -> {"none", "waiting", "active", "finished"}]
         /\ \A k \in Intents : (job'[k] = "active") = (job[k] = "active")
BY DEF TypeOK, Enqueued

LEMMA StepTypes ==
  ASSUME EvaluationAssumption, TypeOK, Shapes, [Next]_vars
  PROVE  TypeOK' /\ Shapes'
<1> USE DEF TypeOK, Shapes, handlerVars, execVars, Ids
<1>0. HandlersOK
  BY DEF HandlersOK, HandlerPcs
<1>1. CASE UNCHANGED vars
  BY <1>1 DEF vars, Spend
<1>2. ASSUME NEW i \in Intents, NEW id \in Ids, PostRead(i, id) PROVE TypeOK' /\ Shapes'
  <2>1. CASE id = None
    BY <1>2, <2>1, EnqueuedIsTyped DEF PostRead
  <2>2. CASE id # None
    <3>1. /\ \A c \in Counters : spent'[c] \in 0..Limits[c]
          /\ spent' \in [Counters -> Nat]
      BY <1>2, <2>2, SpendIsBounded DEF PostRead, Counters
    <3> QED
      BY <1>2, <2>2, <3>1 DEF PostRead, Payloads
  <2> QED
    BY <2>1, <2>2
<1>3. ASSUME NEW i \in Intents, PostWrite(i) PROVE TypeOK' /\ Shapes'
  <2>1. /\ request[i].id \in Packs /\ request[i].read \in Payloads
        /\ request[i] \in [id : Packs, read : Payloads, pc : {"write", "add"}]
    BY <1>3 DEF PostWrite
  <2>2. /\ [request[i].read EXCEPT !.named = request[i].id] \in Payloads
        /\ [request[i] EXCEPT !.pc = "add"] \in [id : Packs, read : Payloads, pc : {"write", "add"}]
    BY <2>1 DEF Payloads
  <2>3. request' \in [Intents -> {None} \cup [id : Packs, read : Payloads, pc : {"write", "add"}]]
    BY <1>3, <2>2 DEF PostWrite
  <2>4. payload' \in [Intents -> Payloads] /\ assigned' \in [Intents -> Ids]
    BY <1>3, <2>1, <2>2 DEF PostWrite, Payloads
  <2> QED
    BY <1>3, <2>3, <2>4 DEF PostWrite, Payloads
<1>4. ASSUME NEW i \in Intents, PostAdd(i) PROVE TypeOK' /\ Shapes'
  BY <1>4, EnqueuedIsTyped DEF PostAdd
<1>5. ASSUME NEW i \in Intents, Begin(i) PROVE TypeOK' /\ Shapes'
  <2> DEFINE h == [NoHandler EXCEPT !.pc = "daily", !.seen = status[i], !.payload = payload[i]]
  <2>1. CASE CanTransition(status[i], "policy_checked")
    <3>1. h \in HandlerType /\ h.at = 0 /\ h.pc = "daily" /\ h.payload \in Payloads
      BY DEF NoHandler, HandlerType, HandlerPcs, Payloads
    <3> HIDE DEF h
    <3>2. handler' = [handler EXCEPT ![i] = h] /\ job' = [job EXCEPT ![i] = "active"]
      BY <1>5, <2>1 DEF Begin, h
    <3>3. /\ rows' = rows /\ job'[i] = "active" /\ rows >= 0
          /\ \A k \in Intents \ {i} : job'[k] = job[k]
      BY <1>5, <3>2 DEF Begin
    <3>4. HandlersOK'
      BY <1>0, <3>1, <3>2, <3>3, HandlerMoves
    <3> QED
      BY <1>5, <2>1, <3>2, <3>4 DEF Begin, HandlersOK, HandlerPcs
  <2>2. CASE ~CanTransition(status[i], "policy_checked")
    BY <1>5, <2>2 DEF Begin
  <2> QED
    BY <2>1, <2>2
<1>6. ASSUME NEW i \in Intents, CountDaily(i) PROVE TypeOK' /\ Shapes'
  <2> DEFINE h == [handler[i] EXCEPT !.pc = "open", !.daily = TradesToday, !.at = rows]
  <2>1. handler' = [handler EXCEPT ![i] = h]
    BY <1>6 DEF CountDaily
  <2>2. handler[i] \in HandlerType /\ handler[i].pc = "daily" /\ trades \in Nat
    BY <1>6 DEF CountDaily
  <2>3. h \in HandlerType
    BY <2>2, HandlerStates DEF TradesToday
  <2>4. h.pc = "open" /\ h.at = rows /\ h.payload = handler[i].payload
    BY <2>2 DEF HandlerType
  <2> HIDE DEF h
  <2>5. /\ rows' = rows /\ job' = job /\ job[i] = "active" /\ handler[i].payload \in Payloads
        /\ h.at <= rows
    BY <1>6, <2>2, <2>4 DEF CountDaily
  <2>6. HandlersOK'
    BY <1>0, <2>1, <2>3, <2>4, <2>5, HandlerMoves
  <2> QED
    BY <1>6, <2>6 DEF CountDaily, HandlersOK, HandlerPcs
<1>7. ASSUME NEW i \in Intents, CountUnsettled(i) PROVE TypeOK' /\ Shapes'
  <2> DEFINE h == [handler[i] EXCEPT !.pc = "resolve", !.open = unsettled]
  <2>1. handler' = [handler EXCEPT ![i] = h]
    BY <1>7 DEF CountUnsettled
  <2>2. handler[i] \in HandlerType /\ handler[i].pc = "open" /\ unsettled \in Nat
    BY <1>7 DEF CountUnsettled
  <2>3. h \in HandlerType
    BY <2>2, HandlerStates
  <2>4. h.pc = "resolve" /\ h.at = handler[i].at /\ h.payload = handler[i].payload
    BY <2>2 DEF HandlerType
  <2> HIDE DEF h
  <2>5. /\ rows' = rows /\ job' = job /\ job[i] = "active" /\ handler[i].payload \in Payloads
        /\ handler[i].at <= rows
    BY <1>7, <2>2 DEF CountUnsettled
  <2>6. HandlersOK'
    BY <1>0, <2>1, <2>3, <2>4, <2>5, HandlerMoves
  <2> QED
    BY <1>7, <2>6 DEF CountUnsettled, HandlersOK, HandlerPcs
<1>8. ASSUME NEW i \in Intents, Resolve(i) PROVE TypeOK' /\ Shapes'
  <2>1. [ResolvePack(Named(i), packs) EXCEPT !.source = ResolvedId(i)] \in Resolved
    BY <1>8, ResolvedIsTyped DEF Resolve
  <2> DEFINE res == [ResolvePack(Named(i), packs) EXCEPT !.source = ResolvedId(i)]
             h == [handler[i] EXCEPT !.pc = "commit", !.resolved = res]
  <2>2. handler' = [handler EXCEPT ![i] = h]
    BY <1>8 DEF Resolve
  <2>3. res \in Resolved
    BY <2>1
  <2> HIDE DEF res
  <2>4. handler[i] \in HandlerType /\ handler[i].pc = "resolve"
    BY <1>8 DEF Resolve
  <2>5. h \in HandlerType
    BY <2>3, <2>4, HandlerStates
  <2>6. /\ h.pc = "commit" /\ h.at = handler[i].at /\ h.payload = handler[i].payload
        /\ h.resolved = res
    BY <2>4 DEF HandlerType
  <2> HIDE DEF h
  <2>7. /\ rows' = rows /\ job' = job /\ job[i] = "active" /\ handler[i].payload \in Payloads
        /\ handler[i].at <= rows
    BY <1>8, <2>4 DEF Resolve
  <2>8. HandlersOK'
    BY <1>0, <2>2, <2>3, <2>5, <2>6, <2>7, HandlerMoves
  <2> QED
    BY <1>8, <2>8 DEF Resolve, HandlersOK, HandlerPcs
<1>9. ASSUME NEW i \in Intents, Commit(i) PROVE TypeOK' /\ Shapes'
  <2> DEFINE d == DecisionOf(i)
             written == Decided(handler[i].payload, d.pack)
  <2>1. d.pack \in Ids
    BY <1>9 DEF Commit, DecisionOf, Resolved
  <2>2. written \in Payloads
    BY <1>9, <2>1 DEF Commit, Decided, Payloads
  <2>3. NoHandler.pc = "idle" /\ NoHandler.at = 0
    BY DEF NoHandler
  <2>4. job' = [job EXCEPT ![i] = "finished"] /\ handler' = [handler EXCEPT ![i] = NoHandler]
    BY <1>9 DEF Commit
  <2>5. /\ rows' = rows /\ rows >= 0 /\ job'[i] # "active"
        /\ \A k \in Intents \ {i} : job'[k] = job[k]
    BY <1>9, <2>4 DEF Commit
  <2>6. HandlersOK'
    BY <1>0, <2>3, <2>4, <2>5, HandlerMoves, NoHandlerIsAHandler
  <2> HIDE DEF d
  <2>7. /\ payload' \in [Intents -> Payloads] /\ overwritten' \subseteq Intents
        /\ decision' \in {decision, [decision EXCEPT ![i] = d]}
        /\ status' \in [Intents -> Statuses]
    BY <1>9, <2>2 DEF Commit, Payloads, Statuses, d
  <2> HIDE DEF written
  <2>8. DOMAIN decision' = Intents /\ \A k \in Intents : decision'[k] # None => decision'[k].pack \in Ids
    BY <2>1, <2>7
  <2> QED
    BY <1>9, <2>4, <2>6, <2>7, <2>8 DEF Commit, HandlersOK, HandlerPcs, Payloads
<1>10. ASSUME NEW i \in Intents, Evict(i) PROVE TypeOK' /\ Shapes'
  <2>1. /\ \A c \in Counters : spent'[c] \in 0..Limits[c]
        /\ spent' \in [Counters -> Nat]
    BY <1>10, SpendIsBounded DEF Evict, Counters
  <2> QED
    BY <1>10, <2>1 DEF Evict
<1>11. ASSUME NEW i \in Intents, Hold(i) PROVE TypeOK' /\ Shapes'
  BY <1>11 DEF Hold, Statuses
<1>12. ASSUME NEW i \in Intents, Release(i) PROVE TypeOK' /\ Shapes'
  <2>1. /\ \A c \in Counters : spent'[c] \in 0..Limits[c]
        /\ spent' \in [Counters -> Nat]
    BY <1>12, SpendIsBounded DEF Release, Counters
  <2> QED
    BY <1>12, <2>1, EnqueuedIsTyped DEF Release, Statuses
<1>13. ASSUME NEW i \in Intents, ExecuteBegin(i) PROVE TypeOK' /\ Shapes'
  BY <1>13 DEF ExecuteBegin
<1>14. ASSUME NEW i \in Intents, ExecuteHop(i) PROVE TypeOK' /\ Shapes'
  BY <1>14 DEF ExecuteHop, Statuses, HandlerType
<1>15. ASSUME NEW id \in Packs, DeletePack(id) PROVE TypeOK' /\ Shapes'
  <2>1. /\ \A c \in Counters : spent'[c] \in 0..Limits[c]
        /\ spent' \in [Counters -> Nat]
    BY <1>15, SpendIsBounded DEF DeletePack, Counters
  <2> QED
    BY <1>15, <2>1 DEF DeletePack
<1>16. ASSUME NEW id \in Packs, NEW c \in Contents, PatchPack(id, c) PROVE TypeOK' /\ Shapes'
  <2>1. /\ \A n \in Counters : spent'[n] \in 0..Limits[n]
        /\ spent' \in [Counters -> Nat]
    BY <1>16, SpendIsBounded DEF PatchPack, Counters
  <2> QED
    BY <1>16, <2>1 DEF PatchPack
<1>17. CASE Midnight
  BY <1>17 DEF Midnight
<1> QED
  BY <1>1, <1>2, <1>3, <1>4, <1>5, <1>6, <1>7, <1>8, <1>9, <1>10, <1>11, <1>12, <1>13, <1>14,
     <1>15, <1>16, <1>17 DEF Next

----------------------------------------------------------------------------
(* The limits *)

\* Counts that fall, or another row, disturb no limit.
Recount(t, u, r, t2, u2, r2) ==
  /\ {t, u, r, t2, u2, r2} \subseteq Nat
  /\ (r2 = r /\ t2 <= t /\ u2 <= u) \/ r2 = r + 1

LEMMA StaysKept ==
  ASSUME NEW t, NEW u, NEW r, NEW t2, NEW u2, NEW r2, Recount(t, u, r, t2, u2, r2)
  PROVE  /\ \A d : Keeps(d, t, u, r) => Keeps(d, t2, u2, r2)
         /\ \A e : Executes(e, t, u, r) => Executes(e, t2, u2, r2)
         /\ \A h \in HandlerType : (h.at <= r /\ Counts(h, t, u, r)) => Counts(h, t2, u2, r2)
<1> USE DEF Recount
<1>1. \A d : Keeps(d, t, u, r) => Keeps(d, t2, u2, r2)
  <2> SUFFICES ASSUME NEW d, Keeps(d, t, u, r) PROVE Keeps(d, t2, u2, r2)
    OBVIOUS
  <2>1. CASE r2 = r + 1
    BY <2>1 DEF Keeps
  <2>2. CASE r2 = r /\ t2 <= t /\ u2 <= u
    BY <2>2, FewerPass DEF Keeps
  <2> QED
    BY <2>1, <2>2
<1>2. \A h \in HandlerType : (h.at <= r /\ Counts(h, t, u, r)) => Counts(h, t2, u2, r2)
  BY DEF Counts, HandlerType
<1> QED
  BY <1>1, <1>2 DEF Executes

\* An allowed decision is below the caps it records, whatever the pack.
LEMMA DecisionIsKept ==
  ASSUME EvaluationAssumption, NEW i \in Intents, handler[i] \in HandlerType,
         handler[i].resolved \in Resolved, rows \in Nat, trades \in Nat, unsettled \in Nat,
         handler[i].at <= rows, handler[i].pc = "commit",
         Counts(handler[i], trades, unsettled, rows)
  PROVE  Keeps(DecisionOf(i), trades, unsettled, rows)
<1> DEFINE d == DecisionOf(i)
<1>1. /\ d.at = handler[i].at
      /\ d.maxDaily = CapOf("daily_trades", handler[i].resolved)
      /\ d.maxUnsettled = CapOf("unsettled_cap", handler[i].resolved)
  BY DEF DecisionOf
<1>2. d.maxDaily \in CapValues /\ d.maxUnsettled \in CapValues
  BY <1>1, CapOfIsConfigured
<1>3. d.verdict = "allowed" =>
        /\ CountedBelow(handler[i].daily, d.maxDaily) = "pass"
        /\ CountedBelow(handler[i].open, d.maxUnsettled) = "pass"
  BY AllowedIsBelowCaps
<1> HIDE DEF d
<1>4. handler[i].at \in Nat /\ handler[i].daily \in Nat /\ handler[i].open \in Nat
  BY DEF HandlerType
<1>5. d.at = rows => trades <= handler[i].daily /\ unsettled <= handler[i].open
  BY <1>1 DEF Counts
<1>6. (d.verdict = "allowed" /\ d.at = rows) =>
        CountedBelow(trades, d.maxDaily) = "pass" /\ CountedBelow(unsettled, d.maxUnsettled) = "pass"
  BY <1>2, <1>3, <1>4, <1>5, FewerPass
<1> QED
  BY <1>1, <1>2, <1>4, <1>6 DEF Keeps, d

\* A step of intent i that leaves the others alone, counts no row, and keeps the limits
\* of i.
LEMMA OthersAreKept ==
  ASSUME LimitsAreKept, NEW i \in Intents, UNCHANGED <<trades, unsettled, rows>>,
         \A k \in Intents \ {i} : handler'[k] = handler[k] /\ decision'[k] = decision[k]
                                    /\ executing'[k] = executing[k],
         Counts(handler'[i], trades, unsettled, rows),
         decision'[i] # None => Keeps(decision'[i], trades, unsettled, rows),
         executing'[i] # None => Executes(executing'[i], trades, unsettled, rows)
  PROVE  LimitsAreKept'
BY DEF LimitsAreKept, Kept

\* A step that counts differently.
LEMMA RecountKeeps ==
  ASSUME TypeOK, Shapes, LimitsAreKept, Recount(trades, unsettled, rows, trades', unsettled', rows'),
         UNCHANGED <<handler, decision>>,
         \A i \in Intents : executing'[i] # None =>
            \/ executing'[i] = executing[i]
            \/ /\ executing[i] # None
               /\ executing'[i].under = executing[i].under
               /\ executing'[i] = [under |-> executing'[i].under, hop |-> executing'[i].hop]
  PROVE  LimitsAreKept'
<1>1. /\ \A d : Keeps(d, trades, unsettled, rows) => Keeps(d, trades', unsettled', rows')
      /\ \A e : Executes(e, trades, unsettled, rows) => Executes(e, trades', unsettled', rows')
      /\ \A h \in HandlerType : (h.at <= rows /\ Counts(h, trades, unsettled, rows))
                                => Counts(h, trades', unsettled', rows')
  BY StaysKept
<1>2. ASSUME NEW k \in Intents PROVE Kept(k, trades, unsettled, rows)'
  <2>1. /\ Counts(handler[k], trades, unsettled, rows)
        /\ decision[k] # None => Keeps(decision[k], trades, unsettled, rows)
        /\ executing[k] # None => Executes(executing[k], trades, unsettled, rows)
    BY DEF LimitsAreKept, Kept
  <2>2. handler[k] \in HandlerType /\ handler[k].at <= rows
    BY DEF TypeOK, Shapes
  <2>3. /\ Counts(handler[k], trades', unsettled', rows')
        /\ decision[k] # None => Keeps(decision[k], trades', unsettled', rows')
    BY <1>1, <2>1, <2>2
  <2>4. executing'[k] # None => Executes(executing'[k], trades', unsettled', rows')
    BY <1>1, <2>1 DEF Executes
  <2> QED
    BY <2>3, <2>4 DEF Kept
<1> QED
  BY <1>2 DEF LimitsAreKept

LEMMA StepLimits ==
  ASSUME EvaluationAssumption, TypeOK, Shapes, LimitsAreKept, TypeOK', Shapes', [Next]_vars
  PROVE  LimitsAreKept'
<1>1. /\ trades \in Nat /\ unsettled \in Nat /\ rows \in Nat
      /\ trades' \in Nat /\ unsettled' \in Nat /\ rows' \in Nat
  BY DEF TypeOK, Shapes
<1>2. \A i \in Intents :
        /\ handler[i] \in HandlerType /\ handler[i].at <= rows
        /\ Counts(handler[i], trades, unsettled, rows)
        /\ decision[i] # None => Keeps(decision[i], trades, unsettled, rows)
        /\ executing[i] # None => Executes(executing[i], trades, unsettled, rows)
  BY DEF TypeOK, Shapes, LimitsAreKept, Kept
<1> USE DEF handlerVars, execVars
<1>3. CASE UNCHANGED <<handler, decision, execVars>>
  BY <1>3 DEF LimitsAreKept, Kept
<1>4. ASSUME NEW i \in Intents, Begin(i) PROVE LimitsAreKept'
  <2>1. CASE UNCHANGED handler
    BY <1>3, <1>4, <2>1 DEF Begin
  <2>2. CASE CanTransition(status[i], "policy_checked")
    <3>1. handler'[i].pc = "daily" /\ \A k \in Intents \ {i} : handler'[k] = handler[k]
      BY <1>4, <2>2 DEF Begin, NoHandler, Shapes
    <3>2. Counts(handler'[i], trades, unsettled, rows)
      BY <3>1 DEF Counts
    <3> QED
      BY <1>2, <1>4, <3>1, <3>2, OthersAreKept DEF Begin
  <2> QED
    BY <1>4, <2>1, <2>2 DEF Begin
<1>5. ASSUME NEW i \in Intents, CountDaily(i) PROVE LimitsAreKept'
  <2>1. /\ handler'[i].pc = "open" /\ handler'[i].daily = trades
        /\ \A k \in Intents \ {i} : handler'[k] = handler[k]
    BY <1>2, <1>5 DEF CountDaily, TradesToday, Shapes, HandlerType
  <2>2. Counts(handler'[i], trades, unsettled, rows)
    BY <1>1, <2>1 DEF Counts
  <2> QED
    BY <1>2, <1>5, <2>1, <2>2, OthersAreKept DEF CountDaily
<1>6. ASSUME NEW i \in Intents, CountUnsettled(i) PROVE LimitsAreKept'
  <2>1. /\ handler'[i].pc = "resolve" /\ handler'[i].open = unsettled
        /\ handler'[i].daily = handler[i].daily /\ handler'[i].at = handler[i].at
        /\ \A k \in Intents \ {i} : handler'[k] = handler[k]
    BY <1>2, <1>6 DEF CountUnsettled, Shapes, HandlerType
  <2>2. Counts(handler'[i], trades, unsettled, rows)
    BY <1>1, <1>2, <1>6, <2>1 DEF Counts, CountUnsettled
  <2> QED
    BY <1>2, <1>6, <2>1, <2>2, OthersAreKept DEF CountUnsettled
<1>7. ASSUME NEW i \in Intents, Resolve(i) PROVE LimitsAreKept'
  <2>1. /\ handler'[i].pc = "commit" /\ handler'[i].open = handler[i].open
        /\ handler'[i].daily = handler[i].daily /\ handler'[i].at = handler[i].at
        /\ \A k \in Intents \ {i} : handler'[k] = handler[k]
    BY <1>2, <1>7 DEF Resolve, Shapes, HandlerType
  <2>2. Counts(handler'[i], trades, unsettled, rows)
    BY <1>2, <1>7, <2>1 DEF Counts, Resolve
  <2> QED
    BY <1>2, <1>7, <2>1, <2>2, OthersAreKept DEF Resolve
<1>8. ASSUME NEW i \in Intents, Commit(i) PROVE LimitsAreKept'
  <2>1. handler[i].pc = "commit" /\ handler[i].resolved \in Resolved
    BY <1>8 DEF Commit, Shapes
  <2>2. Keeps(DecisionOf(i), trades, unsettled, rows)
    BY <1>1, <1>2, <2>1, DecisionIsKept
  <2>3. /\ handler'[i].pc = "idle"
        /\ \A k \in Intents \ {i} : handler'[k] = handler[k]
    BY <1>8 DEF Commit, Shapes, NoHandler
  <2>4. Counts(handler'[i], trades, unsettled, rows)
    BY <2>3 DEF Counts
  <2>5. /\ decision'[i] \in {decision[i], DecisionOf(i)}
        /\ \A k \in Intents \ {i} : decision'[k] = decision[k]
    BY <1>8 DEF Commit, Shapes
  <2>6. decision'[i] # None => Keeps(decision'[i], trades, unsettled, rows)
    BY <1>2, <2>2, <2>5
  <2>7. UNCHANGED <<trades, unsettled, rows>> /\ executing' = executing
    BY <1>8 DEF Commit
  <2> QED
    BY <1>2, <2>3, <2>4, <2>5, <2>6, <2>7, OthersAreKept
<1>9. ASSUME NEW i \in Intents, ExecuteBegin(i) PROVE LimitsAreKept'
  <2>1. /\ executing'[i] = [under |-> decision[i], hop |-> 1]
        /\ \A k \in Intents \ {i} : executing'[k] = executing[k]
    BY <1>9 DEF ExecuteBegin, Shapes
  <2>2. executing'[i].under = decision[i] /\ executing'[i].hop = 1
    BY <2>1
  <2>3. Executes(executing'[i], trades, unsettled, rows)
    BY <1>2, <1>9, <2>1, <2>2 DEF ExecuteBegin, Executes
  <2> QED
    BY <1>2, <1>9, <2>1, <2>3, OthersAreKept DEF ExecuteBegin
<1>10. ASSUME NEW i \in Intents, ExecuteHop(i) PROVE LimitsAreKept'
  <2>1. rows' = rows + 1
    BY <1>10 DEF ExecuteHop
  <2>2. Recount(trades, unsettled, rows, trades', unsettled', rows')
    BY <1>1, <2>1 DEF Recount
  <2>3. /\ executing[i] # None /\ executing'[i] = [executing[i] EXCEPT !.hop = @ + 1]
        /\ \A k \in Intents \ {i} : executing'[k] = executing[k]
    BY <1>10 DEF ExecuteHop, Shapes
  <2>4. /\ executing'[i].under = executing[i].under
        /\ executing'[i] = [under |-> executing'[i].under, hop |-> executing'[i].hop]
    BY <1>2, <2>3 DEF Executes
  <2> QED
    BY <1>10, <2>2, <2>3, <2>4, RecountKeeps DEF ExecuteHop
<1>11. CASE Midnight
  <2>1. Recount(trades, unsettled, rows, trades', unsettled', rows')
    BY <1>1, <1>11 DEF Midnight, Recount
  <2> QED
    BY <1>11, <2>1, RecountKeeps DEF Midnight
<1>12. CASE UNCHANGED vars
  BY <1>3, <1>12 DEF vars
<1>13. ASSUME NEW i \in Intents, NEW id \in Ids,
              PostRead(i, id) \/ PostWrite(i) \/ PostAdd(i) \/ Evict(i) \/ Hold(i) \/ Release(i)
       PROVE  LimitsAreKept'
  BY <1>3, <1>13 DEF PostRead, PostWrite, PostAdd, Evict, Hold, Release
<1>14. ASSUME NEW id \in Packs, NEW c \in Contents, PatchPack(id, c) PROVE LimitsAreKept'
  BY <1>3, <1>14 DEF PatchPack
<1>15. ASSUME NEW id \in Packs, DeletePack(id) PROVE LimitsAreKept'
  BY <1>3, <1>15 DEF DeletePack
<1>16. None \in Ids
  BY DEF Ids
<1> QED
  BY <1>4, <1>5, <1>6, <1>7, <1>8, <1>9, <1>10, <1>11, <1>12, <1>13, <1>14, <1>15, <1>16 DEF Next

----------------------------------------------------------------------------
(* The payload of an intent *)

LEMMA StepPayload ==
  ASSUME EvaluationAssumption, TypeOK, Shapes, PayloadIsCurrent, TypeOK', [Next]_vars
  PROVE  PayloadIsCurrent'
<1> USE DEF PayloadIsCurrent, handlerVars
<1>1. CASE UNCHANGED <<payload, assigned, overwritten, decision>>
  BY <1>1
<1>2. ASSUME NEW i \in Intents, PostWrite(i) PROVE PayloadIsCurrent'
  <2> SUFFICES ASSUME NEW k \in Intents \ overwritten'
               PROVE  /\ payload'[k].named = assigned'[k]
                      /\ (decision'[k] # None /\ decision'[k].pack # None)
                            => payload'[k].effective = decision'[k].pack
    OBVIOUS
  <2>1. k \notin overwritten /\ (k = i => request[i].read = payload[i])
    BY <1>2 DEF PostWrite
  <2>2. payload[i] \in Payloads
    BY DEF TypeOK, Payloads
  <2>3. CASE k = i
    <3>1. payload'[i] = [payload[i] EXCEPT !.named = request[i].id] /\ assigned'[i] = request[i].id
      BY <1>2, <2>1, <2>3 DEF PostWrite, TypeOK
    <3>2. payload'[i].named = assigned'[i] /\ payload'[i].effective = payload[i].effective
      BY <2>2, <3>1 DEF Payloads
    <3> QED
      BY <1>2, <2>1, <2>3, <3>2 DEF PostWrite
  <2>4. CASE k # i
    BY <1>2, <2>1, <2>4 DEF PostWrite, TypeOK
  <2> QED
    BY <2>3, <2>4
<1>3. ASSUME NEW i \in Intents, Commit(i) PROVE PayloadIsCurrent'
  <2> DEFINE d == DecisionOf(i)
  <2>1. CASE d.verdict = "throws"
    BY <1>1, <1>3, <2>1 DEF Commit
  <2>2. CASE d.verdict # "throws"
    <3> SUFFICES ASSUME NEW k \in Intents \ overwritten'
                 PROVE  /\ payload'[k].named = assigned'[k]
                        /\ (decision'[k] # None /\ decision'[k].pack # None)
                              => payload'[k].effective = decision'[k].pack
      OBVIOUS
    <3>1. /\ payload' = [payload EXCEPT ![i] = Decided(handler[i].payload, d.pack)]
          /\ decision' = [decision EXCEPT ![i] = d]
          /\ overwritten' = IF handler[i].payload # payload[i]
                            THEN overwritten \cup {i} ELSE overwritten
          /\ assigned' = assigned
      BY <1>3, <2>2 DEF Commit
    <3>2. payload[i] \in Payloads
      BY DEF TypeOK, Payloads
    <3> HIDE DEF d
    <3>3. k \notin overwritten /\ (k = i => handler[i].payload = payload[i])
      BY <3>1
    <3>4. CASE k = i
      <4>1. payload'[i] = Decided(payload[i], d.pack) /\ decision'[i] = d
        BY <3>1, <3>3, <3>4 DEF TypeOK, Shapes
      <4>2. Decided(payload[i], d.pack).named = payload[i].named
        BY <3>2 DEF Decided, Payloads
      <4>3. d.pack # None => Decided(payload[i], d.pack).effective = d.pack
        BY <3>2 DEF Decided, Payloads
      <4> QED
        BY <3>1, <3>3, <3>4, <4>1, <4>2, <4>3
    <3>5. CASE k # i
      BY <3>1, <3>3, <3>5 DEF TypeOK, Shapes
    <3> QED
      BY <3>4, <3>5
  <2> QED
    BY <2>1, <2>2
<1>4. CASE UNCHANGED vars
  BY <1>1, <1>4 DEF vars
<1>5. ASSUME NEW i \in Intents, NEW id \in Ids,
             \/ PostRead(i, id) \/ PostAdd(i) \/ Begin(i) \/ CountDaily(i) \/ CountUnsettled(i)
             \/ Resolve(i) \/ Evict(i) \/ Hold(i) \/ Release(i) \/ ExecuteBegin(i) \/ ExecuteHop(i)
      PROVE  PayloadIsCurrent'
  BY <1>1, <1>5 DEF PostRead, PostAdd, Begin, CountDaily, CountUnsettled, Resolve, Evict, Hold,
                    Release, ExecuteBegin, ExecuteHop
<1>6. ASSUME NEW id \in Packs, NEW c \in Contents, PatchPack(id, c) PROVE PayloadIsCurrent'
  BY <1>1, <1>6 DEF PatchPack
<1>7. ASSUME NEW id \in Packs, DeletePack(id) PROVE PayloadIsCurrent'
  BY <1>1, <1>7 DEF DeletePack
<1>8. CASE Midnight
  BY <1>1, <1>8 DEF Midnight
<1>9. None \in Ids
  BY DEF Ids
<1> QED
  BY <1>2, <1>3, <1>4, <1>5, <1>6, <1>7, <1>8, <1>9 DEF Next

----------------------------------------------------------------------------
(* The theorems *)

LEMMA InitIInv ==
  ASSUME EvaluationAssumption, Init
  PROVE  IInv
<1>1. \A i \in Intents :
        handler[i] = NoHandler /\ NoHandler.pc = "idle" /\ decision[i] = None /\ executing[i] = None
  BY DEF Init, NoHandler
<1>2. LimitsAreKept
  BY <1>1 DEF LimitsAreKept, Kept, Counts
<1>3. PayloadIsCurrent
  BY <1>1 DEF PayloadIsCurrent, Init
<1> QED
  BY <1>2, <1>3, InitTypes DEF IInv

LEMMA StepIInv ==
  ASSUME EvaluationAssumption, IInv, [Next]_vars
  PROVE  IInv'
BY StepTypes, StepLimits, StepPayload DEF IInv

\* The rows, payloads and handlers of every instance are well formed.
THEOREM EvaluationTypes ==
  ASSUME EvaluationAssumption PROVE Spec => []TypeOK
<1>1. Init => IInv
  BY InitIInv
<1>2. IInv /\ [Next]_vars => IInv'
  BY StepIInv
<1>3. IInv => TypeOK
  BY DEF IInv
<1> QED
  BY <1>1, <1>2, <1>3, PTL DEF Spec

\* An intent whose payload nobody wrote back names the pack of its latest request and
\* is attributed to the pack of its latest decision (intents.ts:183, run.ts:1520).
THEOREM PayloadStaysCurrent ==
  ASSUME EvaluationAssumption PROVE Spec => []PayloadIsCurrent
<1>1. Init => IInv
  BY InitIInv
<1>2. IInv /\ [Next]_vars => IInv'
  BY StepIInv
<1>3. IInv => PayloadIsCurrent
  BY DEF IInv
<1> QED
  BY <1>1, <1>2, <1>3, PTL DEF Spec

\* The first row of an execution keeps the limits its decision was checked against,
\* unless a row came in between, whatever packs and requests do to the limits
\* (daily-trades.ts:10, unsettled-cap.ts:10).
THEOREM CapsAreKept ==
  ASSUME EvaluationAssumption PROVE Spec => [][CapsHoldAlone]_vars
<1>1. Init => IInv
  BY InitIInv
<1>2. IInv /\ [Next]_vars => IInv'
  BY StepIInv
<1>3. IInv => CapsHoldAlone
  BY DEF IInv, LimitsAreKept, Kept, Executes, Keeps, CapsHoldAlone
<1> QED
  BY <1>1, <1>2, <1>3, PTL DEF Spec
=============================================================================
