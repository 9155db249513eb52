----------------------------- MODULE MCComponents -----------------------------
(***************************************************************************)
(* Small instances of the components: the values of their constants.       *)
(***************************************************************************)
EXTENDS Components

(* The score of a route: values on both sides of every threshold *)

MCScoredMetrics ==
  [successRate : {None, 79, 80, 89, 90, 100}, p95 : {None, 100, 101, 120, 350},
   unsettled : {None, 20, 24, 70}, bondVerified : {None, 0, 1},
   bondAge : {None, 0, 30, 50, 80, 100}]

(* Event stream: six events, one of an anchor, and a filter that is all or two of them *)

MCFilters == {1..6, {1, 6}}

(* Simulation runs: "bap2" and "seed" are the strings behind the second and third seed *)

MCSeeds == {777, 1415164186, 1453448986, -492754535}

(* Worker process: two workers, two execute handlers and one policy handler *)

MCWorkers == <<"policy-evaluation", "execution-processing">>
MCWorkerOf == [h \in Handlers |-> IF h = "h3" THEN "policy-evaluation" ELSE "execution-processing"]

(* API access: an admin's token, an ops key and a token without an admin's role *)

MCEnvironments ==
  [verifier : {"none", "key", "oidc"}, production : BOOLEAN, allowBypass : {FALSE},
   allowOpsKey : {TRUE}, opsRole : {"operator"}]

NoHeaders == [authorization |-> None, adminHeader |-> None, opsHeader |-> None, roles |-> {}]

MCCallers ==
  {[NoHeaders EXCEPT !.authorization = "jwt", !.roles = {"admin", "viewer"}],
   [NoHeaders EXCEPT !.opsHeader = "ops"],
   [NoHeaders EXCEPT !.authorization = "admin"]}

(* Router: three adapters, one of them beyond the limit of those discovered *)

MCRegistry == <<"a", "b", "c">>
MCMarkets ==
  {[a |-> {<<"X", "Y">>, <<"Y", "Z">>, <<"Y", "X">>}, b |-> {<<"X", "Z">>, <<"Z", "Y">>},
    c |-> {<<"X", "Z">>}]}
MCAdjustment == [a |-> -1, b |-> 0, c |-> 0]

(* Policy engine: packs with up to two compositions, and packs that configure venues *)

Composed(ids) ==
  [ruleId : ids, operator : {"allOf", "anyOf", "not"}, enabled : {None},
   children : LET S == {"max_order_size", "max_slippage", "c1", "c2"}
              IN {<<s>> : s \in S} \cup (S \X S)]

Item(id, enabled, config) ==
  [ruleId |-> id, enabled |-> enabled, configKey |-> None, config |-> config]

MCPolicyPacks ==
  {[rules |-> r, compositions |-> <<c, d>>] :
     r \in {<<>>, <<Item("max_order_size", FALSE, None)>>},
     c \in Composed({"c1"}), d \in Composed({"c2", "max_order_size"})}
  \cup {[rules |-> <<Item("venue_allowlist", None, [venueAllowlist |-> {"a"}])>>,
         compositions |-> <<>>]}

MCPolicyContexts ==
  {[live |-> FALSE, size |-> n, slippage |-> 10, base |-> "X", quote |-> "Z",
    venues |-> v,
    plan |-> <<[adapter |-> a, kind |-> "dex", base |-> "X", quote |-> "Z", usd |-> 0]>>,
    identity |-> {}, keetaHints |-> FALSE, bonds |-> <<>>, dailyTrades |-> 0,
    unsettled |-> 0, byAsset |-> <<>>, byVenue |-> <<>>, walletExposure |-> 0,
    sessionSpend |-> 0] : n \in {1, 1000001}, v \in {{}, {"a"}}, a \in {"a", "b"}}

(* Policy evaluation: two intents under one pack, where the limits matter, and one
   intent whose pack is named, edited and deleted *)

Strict == [rules |-> <<Item("daily_trades", None, [maxDailyTrades |-> 1])>>, compositions |-> <<>>]
Lax == [rules |-> <<Item("unsettled_cap", FALSE, None)>>, compositions |-> <<>>]

Evaluated == CHOOSE c \in MCPolicyContexts : c.venues = {} /\ c.size = 1

DefaultPack(id) ==
  [p \in {"intent_metadata", "wallet_default", "strategy_config", "global_default"} |->
     IF p = "global_default" THEN id ELSE None]
Capped == [Engine!DefaultConfig EXCEPT !.maxDailyTrades = 2, !.maxUnsettledExecutions = 1]

MCLimitsOf ==
  [intents |-> {"i1", "i2"}, packs |-> {"p"}, contents |-> {Strict, Lax},
   defaults |-> DefaultPack("p"), contextOf |-> [i \in {"i1", "i2"} |-> Evaluated],
   config |-> Capped, hopsOf |-> [i \in {"i1", "i2"} |-> IF i = "i1" THEN 1 ELSE 2],
   requests |-> 0, edits |-> 0, releases |-> 1, evictions |-> 0]

MCNamingOf ==
  [intents |-> {"i1"}, packs |-> {"p", "q"}, contents |-> {Strict},
   defaults |-> DefaultPack("q"), contextOf |-> [i \in {"i1"} |-> Evaluated],
   config |-> Capped, hopsOf |-> [i \in {"i1"} |-> 1],
   requests |-> 1, edits |-> 1, releases |-> 1, evictions |-> 1]
=============================================================================
