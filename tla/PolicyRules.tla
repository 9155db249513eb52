----------------------------- MODULE PolicyRules -----------------------------
(***************************************************************************)
(* The default rules of the policy engine.  A rule maps what is evaluated, *)
(* a context, and the configuration in force to a verdict.  A context is a *)
(* record: the intent (live, size, slippage, base, quote, venues), the     *)
(* steps of its plan or None, the hints and the portfolio statistics the   *)
(* worker collected.  The configuration is a function on ConfigKeys.       *)
(*                                                                         *)
(* A policy pack sets values without a schema.  Junk is such a value that  *)
(* is an object: comparisons with it are false, it is truthy, it is not    *)
(* true, and a Set cannot be made of it.                                   *)
(***************************************************************************)
EXTENDS Integers, Sequences, FiniteSets, FiniteSetsExt

CONSTANTS
  None,  \* undefined
  Junk   \* an object where a number, a flag or a list belongs

RuleIds == {
  "max_order_size", "max_slippage", "venue_allowlist", "asset_allowlist",
  "live_mode_enabled", "identity_attestation", "keeta_extension",
  "anchor_bond_active", "unsupported_route", "cooldown", "daily_trades",
  "unsettled_cap", "agent_payment_session_spend_cap",
  "allowed_agent_payment_rails", "notional_per_strategy", "exposure_per_asset",
  "exposure_per_venue", "exposure_per_wallet", "drawdown" }

\* The key a rule reads; the other rules have a key that configures nothing.
ConfigKeyOf == [
  max_order_size |-> "maxOrderSize", max_slippage |-> "maxSlippageBps",
  venue_allowlist |-> "venueAllowlist", asset_allowlist |-> "assetAllowlist",
  live_mode_enabled |-> "liveModeEnabled",
  identity_attestation |-> "identityPolicyEnabled",
  keeta_extension |-> "keetaPolicyEnabled",
  anchor_bond_active |-> "anchorBondVerificationRequired",
  daily_trades |-> "maxDailyTrades", unsettled_cap |-> "maxUnsettledExecutions",
  agent_payment_session_spend_cap |-> "perSessionAgentSpendCapUsd",
  allowed_agent_payment_rails |-> "allowedAgentPaymentRails",
  notional_per_strategy |-> "maxNotionalPerStrategy",
  exposure_per_asset |-> "maxExposurePerAsset",
  exposure_per_venue |-> "maxExposurePerVenue",
  exposure_per_wallet |-> "maxExposurePerWallet",
  drawdown |-> "maxDrawdownBps" ]

ConfigKeys == {ConfigKeyOf[r] : r \in DOMAIN ConfigKeyOf}

Verdict(b) == IF b THEN "pass" ELSE "fail"

\* The built-in configuration when the environment sets none of the optional caps.
DefaultConfig == [k \in ConfigKeys |->
  CASE k = "maxOrderSize" -> 1000000 [] k = "maxSlippageBps" -> 500
    [] k = "maxDailyTrades" -> 50000 [] k = "maxUnsettledExecutions" -> 5000
    [] k \in {"venueAllowlist", "assetAllowlist", "allowedAgentPaymentRails"} -> {}
    [] k \in {"liveModeEnabled", "identityPolicyEnabled", "keetaPolicyEnabled",
              "anchorBondVerificationRequired"} -> FALSE
    [] OTHER -> None]

Steps(c) == IF c.plan = None THEN <<>> ELSE c.plan
StepsOf(c, kind) == {i \in DOMAIN Steps(c) : Steps(c)[i].kind = kind}
AdaptersOf(c, indices) == {Steps(c)[i].adapter : i \in indices}

----------------------------------------------------------------------------
(* Limits and caps *)

\* n <= max, where max is always set.
AtMostAllowed(n, max) == Verdict(max # Junk /\ n <= max)

\* A cap that is not set, zero or negative is no cap.
Uncapped(cap) == cap = None \/ (cap # Junk /\ cap <= 0)
Capped(n, cap) == Verdict(Uncapped(cap) \/ (cap # Junk /\ n <= cap))
CountedBelow(n, cap) == Verdict(Uncapped(cap) \/ (cap # Junk /\ n < cap))

Opened(exposure, key) == IF key \in DOMAIN exposure THEN exposure[key] ELSE 0
FirstVenue(c) == IF Steps(c) = <<>> THEN "unknown" ELSE Steps(c)[1].adapter

----------------------------------------------------------------------------
(* Lists *)

\* An empty list lets everything through.
Listed(S, allowlist) ==
  IF allowlist = Junk THEN "throws" ELSE Verdict(allowlist = {} \/ S \subseteq allowlist)

\* The intent's own venues are checked instead of those of the plan.
VenuesChecked(c) ==
  IF c.venues # {} THEN c.venues ELSE AdaptersOf(c, DOMAIN Steps(c))

VenueAllowlist(c, allowlist) == Listed(VenuesChecked(c), allowlist)

\* The rails are not looked at without an agent-payment step.
Rails(c) == StepsOf(c, "agent-payment")
AllowedRails(c, allowlist) ==
  IF Rails(c) = {} THEN "pass" ELSE Listed(AdaptersOf(c, Rails(c)), allowlist)

SpendCap(c, cap) ==
  IF Rails(c) = {} THEN "pass"
  ELSE Capped(c.sessionSpend + MapThenSumSet(LAMBDA i : Steps(c)[i].usd, Rails(c)), cap)

----------------------------------------------------------------------------
(* Flags *)

LiveMode(c, enabled) == Verdict(~c.live \/ enabled = Junk \/ enabled = TRUE)

\* Any sign of an identity will do.
IdentityAttestation(c, enabled) == Verdict(enabled # TRUE \/ c.identity # {})
KeetaExtension(c, enabled) == Verdict(enabled # TRUE \/ c.keetaHints)

\* A hint for every anchor step, of an active anchor with an active bond.
BondHintOk(hint, required) ==
  hint.anchorActive /\ hint.bondActive /\ (required = TRUE => hint.verified)

AnchorBondActive(c, required) ==
  Verdict(c.live => \A a \in AdaptersOf(c, StepsOf(c, "anchor")) :
                      a \in DOMAIN c.bonds /\ BondHintOk(c.bonds[a], required))

\* A plan has steps and connects the intent's assets.
UnsupportedRoute(c) ==
  Verdict(c.plan # None =>
            /\ c.plan # <<>>
            /\ c.plan[1].base = c.base
            /\ c.plan[Len(c.plan)].quote = c.quote)

----------------------------------------------------------------------------
(* The verdict of each rule on context c under configuration g.  cooldown and
   drawdown are placeholders. *)

RuleVerdict(r, c, g) ==
  CASE r = "max_order_size" -> AtMostAllowed(c.size, g.maxOrderSize)
    [] r = "max_slippage" -> AtMostAllowed(c.slippage, g.maxSlippageBps)
    [] r = "venue_allowlist" -> VenueAllowlist(c, g.venueAllowlist)
    [] r = "asset_allowlist" -> Listed({c.base, c.quote}, g.assetAllowlist)
    [] r = "live_mode_enabled" -> LiveMode(c, g.liveModeEnabled)
    [] r = "identity_attestation" -> IdentityAttestation(c, g.identityPolicyEnabled)
    [] r = "keeta_extension" -> KeetaExtension(c, g.keetaPolicyEnabled)
    [] r = "anchor_bond_active" -> AnchorBondActive(c, g.anchorBondVerificationRequired)
    [] r = "unsupported_route" -> UnsupportedRoute(c)
    [] r \in {"cooldown", "drawdown"} -> "pass"
    [] r = "daily_trades" -> CountedBelow(c.dailyTrades, g.maxDailyTrades)
    [] r = "unsettled_cap" -> CountedBelow(c.unsettled, g.maxUnsettledExecutions)
    [] r = "agent_payment_session_spend_cap" -> SpendCap(c, g.perSessionAgentSpendCapUsd)
    [] r = "allowed_agent_payment_rails" -> AllowedRails(c, g.allowedAgentPaymentRails)
    [] r = "notional_per_strategy" -> Capped(c.size, g.maxNotionalPerStrategy)
    [] r = "exposure_per_asset" ->
         Capped(Opened(c.byAsset, c.base) + c.size, g.maxExposurePerAsset)
    [] r = "exposure_per_venue" ->
         Capped(Opened(c.byVenue, FirstVenue(c)) + c.size, g.maxExposurePerVenue)
    [] r = "exposure_per_wallet" -> Capped(c.walletExposure + c.size, g.maxExposurePerWallet)
=============================================================================
