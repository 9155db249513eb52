--------------------------- MODULE PolicyEvaluation ---------------------------
(***************************************************************************)
(* Policy evaluation of intents whose route is known: the policy job of an *)
(* intent, the requests that name a policy pack for it, the edits of the   *)
(* packs, and the execution rows its limits are counted over.              *)
(*                                                                         *)
(* The payload of an intent is one JSON column that the requests and the   *)
(* handler rewrite as a whole.  IntentPipeline has the retries, crashes    *)
(* and races of status that are left out here; the decision itself is that *)
(* of PolicyEngine.                                                        *)
(***************************************************************************)
EXTENDS PolicyEngine, Lifecycle

CONSTANTS
  Intents,
  Packs,         \* the ids a request may name, stored or not
  Contents,      \* the contents a pack may have
  Defaults,      \* the places other than the intent that name a pack
  ContextOf,     \* what is evaluated for an intent, the statistics aside
  Config,        \* the worker's configuration
  HopsOf,        \* the steps of the plan of an intent
  MaxRequests,   \* bound: requests that name a pack
  MaxEdits,      \* bound: patched or deleted packs
  MaxReleases,   \* bound: releases from hold
  MaxEvictions   \* bound: finished jobs dropped by retention

\* What a cap is: a number, absent, or something that is no number.
CapValues == Int \cup {None, Junk}
CountedKeys == {"maxDailyTrades", "maxUnsettledExecutions"}

EvaluationAssumption ==
  /\ None \notin Packs
  /\ \A p \in Contents :
       /\ p.rules \in Seq(ToSet(p.rules))
       /\ \A i \in DOMAIN p.rules, key \in CountedKeys :
            (p.rules[i].config # None /\ key \in DOMAIN p.rules[i].config)
              => p.rules[i].config[key] \in CapValues
  /\ \A i \in Intents : {"dailyTrades", "unsettled"} \subseteq DOMAIN ContextOf[i]
  /\ DOMAIN Config = ConfigKeys
  /\ \A key \in CountedKeys : Config[key] \in CapValues
  /\ Defaults \in [ToSet(Precedence) \ {"request", "intent"} -> Packs \cup {None}]
  /\ HopsOf \in [Intents -> Nat \ {0}]
  /\ {MaxRequests, MaxEdits, MaxReleases, MaxEvictions} \subseteq Nat

VARIABLES
  payload,     \* of an intent: the pack it names and the one it was decided under
  status,
  packs,       \* the stored packs: a function from ids to contents
  decision,    \* the latest decision on an intent
  job,         \* the job policy-<intent>
  handler,     \* the handler of that job
  request,     \* the request in progress for an intent
  executing,   \* the execute handler of an intent: the decision it read, its next hop
  trades,      \* rows of executions created since midnight (UTC)
  unsettled,   \* rows that are pending or submitted and not settled: nothing settles one later
  rows,        \* rows ever inserted
  assigned,    \* history: the pack the latest request wrote
  overwritten, \* history: the intents whose payload was replaced by one read earlier
  spent        \* how much of each bound is used up

handlerVars == <<payload, status, decision, job, handler, overwritten>>
execVars == <<executing, trades, unsettled, rows>>
vars == <<handlerVars, packs, request, execVars, assigned, spent>>

Ids == Packs \cup {None}
Counters == {"requests", "edits", "releases", "evictions"}
Limits == [requests |-> MaxRequests, edits |-> MaxEdits, releases |-> MaxReleases,
           evictions |-> MaxEvictions]

\* One more of the bounded happenings.
Spend(what) == spent[what] < Limits[what] /\ spent' = [spent EXCEPT ![what] = @ + 1]

NoHandler == [pc |-> "idle", seen |-> None, payload |-> None, daily |-> 0, open |-> 0,
              at |-> 0, resolved |-> None]

Init ==
  /\ payload = [i \in Intents |-> [named |-> None, effective |-> None]]
  /\ status = [i \in Intents |-> "routed"]
  /\ \E S \in SUBSET Packs : packs \in [S -> Contents]
  /\ decision = [i \in Intents |-> None]
  /\ job = [i \in Intents |-> "none"]
  /\ handler = [i \in Intents |-> NoHandler]
  /\ request = [i \in Intents |-> None]
  /\ executing = [i \in Intents |-> None]
  /\ trades = 0 /\ unsettled = 0 /\ rows = 0
  /\ assigned = [i \in Intents |-> None]
  /\ overwritten = {}
  /\ spent = [c \in Counters |-> 0]

\* queue.add with the fixed id policy-<intent>, ignored while such a job is kept.
Enqueued(i) == [job EXCEPT ![i] = IF @ = "none" THEN "waiting" ELSE @]

----------------------------------------------------------------------------
(* POST /intents/:id/policy *)

\* The row is read; without a pack in the body only the job is added.
PostRead(i, id) ==
  /\ request[i] = None
  /\ IF id = None
     THEN job[i] = "none" /\ job' = Enqueued(i) /\ UNCHANGED <<request, spent>>
     ELSE /\ Spend("requests")
          /\ request' = [request EXCEPT ![i] = [id |-> id, read |-> payload[i], pc |-> "write"]]
          /\ UNCHANGED job
  /\ UNCHANGED <<payload, status, decision, handler, overwritten, packs, execVars, assigned>>

PostWrite(i) ==
  /\ request[i] # None /\ request[i].pc = "write"
  /\ payload' = [payload EXCEPT ![i] = [request[i].read EXCEPT !.named = request[i].id]]
  /\ request' = [request EXCEPT ![i].pc = "add"]
  /\ assigned' = [assigned EXCEPT ![i] = request[i].id]
  /\ overwritten' = IF request[i].read # payload[i] THEN overwritten \cup {i} ELSE overwritten
  /\ UNCHANGED <<status, decision, job, handler, packs, execVars, spent>>

PostAdd(i) ==
  /\ request[i] # None /\ request[i].pc = "add"
  /\ job' = Enqueued(i)
  /\ request' = [request EXCEPT ![i] = None]
  /\ UNCHANGED <<payload, status, decision, handler, overwritten, packs, execVars, assigned, spent>>

----------------------------------------------------------------------------
(* The policy handler *)

\* It reads the row, and the job fails for good if the status does not permit it.
Begin(i) ==
  /\ job[i] = "waiting"
  /\ IF CanTransition(status[i], "policy_checked")
     THEN /\ job' = [job EXCEPT ![i] = "active"]
          /\ handler' = [handler EXCEPT ![i] =
               [NoHandler EXCEPT !.pc = "daily", !.seen = status[i], !.payload = payload[i]]]
     ELSE job' = [job EXCEPT ![i] = "finished"] /\ UNCHANGED handler
  /\ UNCHANGED <<payload, status, decision, overwritten, packs, request, execVars, assigned, spent>>

\* Mutant of TradesToday: only settled executions count as trades.
SettledTrades == trades - unsettled

\* countTradesSince counts execution rows, whatever became of them.
TradesToday == trades

CountDaily(i) ==
  /\ handler[i].pc = "daily"
  /\ handler' = [handler EXCEPT ![i] =
       [@ EXCEPT !.pc = "open", !.daily = TradesToday, !.at = rows]]
  /\ UNCHANGED <<payload, status, decision, job, overwritten, packs, request, execVars, assigned, spent>>

CountUnsettled(i) ==
  /\ handler[i].pc = "open"
  /\ handler' = [handler EXCEPT ![i] = [@ EXCEPT !.pc = "resolve", !.open = unsettled]]
  /\ UNCHANGED <<payload, status, decision, job, overwritten, packs, request, execVars, assigned, spent>>

\* The pack is chosen by the payload read at the start and loaded now.
Named(i) ==
  [p \in ToSet(Precedence) |->
     IF p = "request" THEN None
     ELSE IF p = "intent" THEN handler[i].payload.named ELSE Defaults[p]]

\* The id that counts, whether a pack of that id is stored or not.
ResolvedId(i) == IF Places(Named(i)) = {} THEN None ELSE Named(i)[FirstPlace(Named(i))]

Resolve(i) ==
  /\ handler[i].pc = "resolve"
  /\ handler' = [handler EXCEPT ![i] =
       [@ EXCEPT !.pc = "commit",
          !.resolved = [ResolvePack(Named(i), packs) EXCEPT !.source = ResolvedId(i)]]]
  /\ UNCHANGED <<payload, status, decision, job, overwritten, packs, request, execVars, assigned, spent>>

\* The cap a rule of the loaded pack compares with, None if the rule is disabled.
CapOf(rule, resolved) ==
  LET engine == IF resolved.pack = None THEN NewEngine ELSE ApplyPack(NewEngine, resolved.pack)
      custom == IF resolved.pack = None THEN <<>> ELSE CustomConfig(resolved.pack)
  IN IF engine[rule].enabled THEN EffectiveConfig(Config, custom)[ConfigKeyOf[rule]] ELSE None

DecisionOf(i) ==
  LET h == handler[i]
      c == [ContextOf[i] EXCEPT !.dailyTrades = h.daily, !.unsettled = h.open]
  IN [verdict |-> Decide(c, Config, h.resolved), pack |-> h.resolved.source, at |-> h.at,
      maxDaily |-> CapOf("daily_trades", h.resolved),
      maxUnsettled |-> CapOf("unsettled_cap", h.resolved)]

\* Mutant of Decided: the pack that was found is pinned to the intent.
DecidedAndPinned(read, id) ==
  IF id = None THEN read ELSE [read EXCEPT !.effective = id, !.named = id]

\* The payload as it was read, with the pack of the decision if there is one.
Decided(read, id) == IF id = None THEN read ELSE [read EXCEPT !.effective = id]

\* One transaction.  A rule that throws leaves no decision.
Commit(i) ==
  /\ handler[i].pc = "commit"
  /\ LET d == DecisionOf(i)
         written == Decided(handler[i].payload, d.pack)
     IN IF d.verdict = "throws"
        THEN UNCHANGED <<payload, status, decision, overwritten>>
        ELSE /\ payload' = [payload EXCEPT ![i] = written]
             /\ decision' = [decision EXCEPT ![i] = d]
             /\ status' = [status EXCEPT ![i] = "policy_checked"]
             /\ overwritten' = IF handler[i].payload # payload[i]
                               THEN overwritten \cup {i} ELSE overwritten
  /\ job' = [job EXCEPT ![i] = "finished"]
  /\ handler' = [handler EXCEPT ![i] = NoHandler]
  /\ UNCHANGED <<packs, request, execVars, assigned, spent>>

\* Retention drops the finished job.
Evict(i) ==
  /\ job[i] = "finished"
  /\ Spend("evictions")
  /\ job' = [job EXCEPT ![i] = "none"]
  /\ UNCHANGED <<payload, status, decision, handler, overwritten, packs, request, execVars, assigned>>

----------------------------------------------------------------------------
(* Operators and admins *)

PatchPack(id, content) ==
  /\ id \in DOMAIN packs
  /\ Spend("edits")
  /\ packs' = [packs EXCEPT ![id] = content]
  /\ UNCHANGED <<handlerVars, request, execVars, assigned>>

DeletePack(id) ==
  /\ id \in DOMAIN packs
  /\ Spend("edits")
  /\ packs' = [p \in DOMAIN packs \ {id} |-> packs[p]]
  /\ UNCHANGED <<handlerVars, request, execVars, assigned>>

Hold(i) ==
  /\ CanTransition(status[i], "held")
  /\ spent["releases"] < MaxReleases
  /\ status' = [status EXCEPT ![i] = "held"]
  /\ UNCHANGED <<payload, decision, job, handler, overwritten, packs, request, execVars, assigned, spent>>

\* An intent with a route goes back to routed, and its policy job is added.
Release(i) ==
  /\ status[i] = "held"
  /\ Spend("releases")
  /\ status' = [status EXCEPT ![i] = "routed"]
  /\ job' = Enqueued(i)
  /\ UNCHANGED <<payload, decision, handler, overwritten, packs, request, execVars, assigned>>

----------------------------------------------------------------------------
(* Execution: the decision is read, then every hop inserts a row *)

ExecuteBegin(i) ==
  /\ executing[i] = None
  /\ status[i] = "policy_checked"
  /\ decision[i] # None /\ decision[i].verdict = "allowed"
  /\ executing' = [executing EXCEPT ![i] = [under |-> decision[i], hop |-> 1]]
  /\ UNCHANGED <<handlerVars, packs, request, trades, unsettled, rows, assigned, spent>>

\* The last row and the status are two transactions of the code, one step here.
ExecuteHop(i) ==
  /\ executing[i] # None /\ executing[i].hop <= HopsOf[i]
  /\ trades' = trades + 1
  /\ rows' = rows + 1
  /\ \E settled \in BOOLEAN : unsettled' = IF settled THEN unsettled ELSE unsettled + 1
  /\ executing' = [executing EXCEPT ![i].hop = @ + 1]
  /\ status' = IF executing[i].hop = HopsOf[i] THEN [status EXCEPT ![i] = "executed"] ELSE status
  /\ UNCHANGED <<payload, decision, job, handler, overwritten, packs, request, assigned, spent>>

Midnight ==
  /\ trades > 0
  /\ trades' = 0
  /\ UNCHANGED <<handlerVars, packs, request, executing, unsettled, rows, assigned, spent>>

Next ==
  \/ \E i \in Intents :
       \/ \E id \in Ids : PostRead(i, id)
       \/ PostWrite(i) \/ PostAdd(i)
       \/ Begin(i) \/ CountDaily(i) \/ CountUnsettled(i) \/ Resolve(i) \/ Commit(i) \/ Evict(i)
       \/ Hold(i) \/ Release(i)
       \/ ExecuteBegin(i) \/ ExecuteHop(i)
  \/ \E id \in Packs : DeletePack(id) \/ \E c \in Contents : PatchPack(id, c)
  \/ Midnight

Spec == Init /\ [][Next]_vars

----------------------------------------------------------------------------

\* Type invariant: rows, payloads and handlers are well formed, and no count runs
\* ahead of the rows inserted.
TypeOK ==
  /\ payload \in [Intents -> [named : Ids, effective : Ids]]
  /\ status \in [Intents -> Statuses]
  /\ DOMAIN packs \subseteq Packs
  /\ job \in [Intents -> {"none", "waiting", "active", "finished"}]
  /\ \A i \in Intents :
       /\ handler[i].pc \in {"idle", "daily", "open", "resolve", "commit"}
       /\ (handler[i].pc # "idle") = (job[i] = "active")
       /\ handler[i].at <= rows
  /\ assigned \in [Intents -> Ids]
  /\ overwritten \subseteq Intents
  /\ trades \in 0..rows /\ unsettled \in 0..rows
  /\ \A c \in Counters : spent[c] \in 0..Limits[c]

\* The limits on trades per day and on unsettled executions are kept by executions
\* that do not overlap: the first row of an intent goes over a limit its decision
\* was checked against only if another row was inserted since that decision's count
\* (run.ts:1424, daily-trades.ts:10, unsettled-cap.ts:10).
CapsHoldAlone ==
  \A i \in Intents :
    (/\ executing[i] # None /\ executing[i].hop = 1
     /\ executing'[i] # executing[i]
     /\ executing[i].under.at = rows) =>
      /\ CountedBelow(trades, executing[i].under.maxDaily) = "pass"
      /\ CountedBelow(unsettled, executing[i].under.maxUnsettled) = "pass"

\* Unless someone wrote back a payload that was no longer the stored one, an intent
\* names the pack of the latest request and is attributed to the pack of its latest
\* decision made under one (intents.ts:183, run.ts:1520).
PayloadIsCurrent ==
  \A i \in Intents \ overwritten :
    /\ payload[i].named = assigned[i]
    /\ (decision[i] # None /\ decision[i].pack # None) => payload[i].effective = decision[i].pack
=============================================================================
