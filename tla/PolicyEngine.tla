----------------------------- MODULE PolicyEngine -----------------------------
(***************************************************************************)
(* The policy engine: its registry of rules and compositions, what a       *)
(* policy pack does to it, and the decision over an intent.  A pack is     *)
(* chosen by precedence among the places that may name one.                *)
(***************************************************************************)
EXTENDS PolicyRules, SequencesExt

\* Where a pack may be named, the first one counts.
Precedence == <<"request", "intent", "intent_metadata", "wallet_default",
                "strategy_config", "global_default">>

\* named maps each place to a pack id or None, packs the ids to the stored packs.
\* A name without a pack does not fall through to the next place.
Places(named) == {k \in DOMAIN Precedence : named[Precedence[k]] # None}
FirstPlace(named) == Precedence[Min(Places(named))]

ResolvePack(named, packs) ==
  IF Places(named) = {} THEN [found |-> TRUE, pack |-> None, source |-> None]
  ELSE LET id == named[FirstPlace(named)] IN
       [found |-> id \in DOMAIN packs,
        pack |-> IF id \in DOMAIN packs THEN packs[id] ELSE None,
        source |-> FirstPlace(named)]

----------------------------------------------------------------------------
(* The registry: a function from ids to entries *)

RuleEntry == [kind |-> "rule", operator |-> None, children |-> <<>>, enabled |-> TRUE]

CompositionEntry(comp) ==
  [kind |-> "composition", operator |-> comp.operator, children |-> comp.children,
   enabled |-> comp.enabled # FALSE]

NewEngine == [r \in RuleIds |-> RuleEntry]

Has(engine, id) == id \in DOMAIN engine

\* A pack's items enable or disable registered rules, the last one counts.
Toggles(rules, id) == {i \in DOMAIN rules : rules[i].ruleId = id /\ rules[i].enabled # None}

Toggled(engine, rules) ==
  [id \in DOMAIN engine |->
     IF Toggles(rules, id) = {} THEN engine[id]
     ELSE [engine[id] EXCEPT !.enabled = rules[Max(Toggles(rules, id))].enabled]]

\* Mutant of Accepted: a composition replaces the rule of its id.
AcceptedOver(engine, comp) == comp.operator = "not" => Len(comp.children) = 1

\* An id that is taken is skipped, and so is a `not` of several children.
Accepted(engine, comp) ==
  ~Has(engine, comp.ruleId) /\ (comp.operator = "not" => Len(comp.children) = 1)

\* Of several compositions with one id the first counts.
Registered(engine, comps) ==
  LET accepted == {i \in DOMAIN comps : Accepted(engine, comps[i])}
      added == {comps[i].ruleId : i \in accepted}
  IN [id \in DOMAIN engine \cup added |->
        IF id \in added
        THEN CompositionEntry(comps[Min({i \in accepted : comps[i].ruleId = id})])
        ELSE engine[id]]

ApplyPack(engine, pack) == Registered(Toggled(engine, pack.rules), pack.compositions)

\* customRuleConfig: the last item with a key wins.
KeyOf(item) ==
  IF item.configKey # None THEN item.configKey
  ELSE IF item.ruleId \in DOMAIN ConfigKeyOf THEN ConfigKeyOf[item.ruleId]
  ELSE item.ruleId

CustomConfig(pack) ==
  LET items == {i \in DOMAIN pack.rules : pack.rules[i].config # None}
      keys  == {KeyOf(pack.rules[i]) : i \in items}
  IN [k \in keys |-> pack.rules[Max({i \in items : KeyOf(pack.rules[i]) = k})].config]

\* A built-in rule takes its value out of a record that has the rule's key, and the
\* record itself otherwise.
Unwrapped(raw, key) == IF key \in DOMAIN raw THEN raw[key] ELSE Junk

RuleOf(key) == CHOOSE r \in DOMAIN ConfigKeyOf : ConfigKeyOf[r] = key

EffectiveConfig(config, custom) ==
  [key \in DOMAIN config |->
     IF key \in DOMAIN custom THEN Unwrapped(custom[key], key)
     ELSE IF RuleOf(key) \in DOMAIN custom THEN Unwrapped(custom[RuleOf(key)], key)
     ELSE config[key]]

----------------------------------------------------------------------------
(* Evaluation *)

\* A rule that throws makes the composition throw; a `not` has one child.
Combine(operator, verdicts) ==
  IF "throws" \in verdicts THEN "throws"
  ELSE Verdict(CASE operator = "allOf" -> verdicts = {"pass"}
                 [] operator = "anyOf" -> "pass" \in verdicts
                 [] operator = "not" -> verdicts = {"fail"})

\* Whether a child is enabled does not matter, only whether it is registered.
Children(engine, id) == ToSet(engine[id].children) \cap DOMAIN engine

Compositions(engine) == {id \in DOMAIN engine : engine[id].kind = "composition"}

\* Mutant of Visiting: one visited set for all children.
VisitingSiblings(engine, above, id) ==
  (above \cup {id} \cup ToSet(engine[id].children)) \cap Compositions(engine)

\* The compositions being evaluated above a child of composition id.
Visiting(engine, above, id) == above \cup {id}

\* The verdicts of the compositions below the ones in `above`, when f has those of
\* their children.
VerdictsBelow(engine, c, g, f, above) ==
  [id \in Compositions(engine) |->
     IF id \in above \/ Children(engine, id) = {} THEN "fail"
     ELSE Combine(engine[id].operator,
                  {IF engine[ch].kind = "rule" THEN RuleVerdict(ch, c, g)
                   ELSE f[Visiting(engine, above, id)][ch] : ch \in Children(engine, id)})]

CompositionVerdicts(engine, c, g) ==
  LET f[above \in SUBSET Compositions(engine)] == VerdictsBelow(engine, c, g, f, above)
  IN f

EntryVerdict(engine, c, g, id) ==
  IF engine[id].kind = "rule" THEN RuleVerdict(id, c, g)
  ELSE CompositionVerdicts(engine, c, g)[{}][id]

Enabled(engine) == {id \in DOMAIN engine : engine[id].enabled}

\* The job fails, and there is no decision, when an entry throws.
Decision(engine, c, g) ==
  LET verdicts == {EntryVerdict(engine, c, g, id) : id \in Enabled(engine)} IN
  IF "throws" \in verdicts THEN "throws"
  ELSE IF verdicts \subseteq {"pass"} THEN "allowed" ELSE "blocked"

\* The decision of the policy worker on context c: a pack that is named and not
\* stored blocks the intent.
Decide(c, config, resolved) ==
  IF ~resolved.found THEN "blocked"
  ELSE IF resolved.pack = None THEN Decision(NewEngine, c, config)
  ELSE Decision(ApplyPack(NewEngine, resolved.pack), c,
                EffectiveConfig(config, CustomConfig(resolved.pack)))
=============================================================================
