-------------------------- MODULE MCIntentPipeline --------------------------
(***************************************************************************)
(* IntentPipeline on small instances: one intent, one strategy.            *)
(***************************************************************************)
EXTENDS IntentPipeline, TLC

\* Every intent runs under the one strategy of the instance.
MCStrategyOf == [i \in Intents |-> CHOOSE s \in Strategies : TRUE]

Symmetry == Permutations(Runs)
=============================================================================
