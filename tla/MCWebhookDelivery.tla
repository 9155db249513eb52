-------------------------- MODULE MCWebhookDelivery --------------------------
(***************************************************************************)
(* WebhookDelivery on small instances.                                     *)
(***************************************************************************)
EXTENDS WebhookDelivery, TLC

\* A subscription that may be paused wants the first event, the others want
\* the remaining ones (all events if no subscription may be paused).
MCWants ==
  [s \in Subs |-> IF s \notin Steady THEN {1}
                  ELSE IF Steady = Subs THEN Events ELSE Events \ {1}]

Symmetry == Permutations(Ticks)
=============================================================================
