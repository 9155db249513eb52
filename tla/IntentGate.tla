----------------------------- MODULE IntentGate -----------------------------
(***************************************************************************)
(* What the pipeline promises about an intent, with no queue, worker or    *)
(* status in sight: no step reaches a venue before the intent is cleared   *)
(* (a policy decision allowed it and a required approval was given), the   *)
(* steps of a route are carried out in order, and an intent is settled,    *)
(* that is journalled as executed, only after its first step was.          *)
(***************************************************************************)
EXTENDS Naturals

CONSTANTS Intents, Steps

VARIABLES
  cleared,   \* intents that were cleared
  sent,      \* the steps of each intent a venue carried out
  settled    \* intents journalled as executed

gateVars == <<cleared, sent, settled>>

Init ==
  /\ cleared = {}
  /\ sent = [i \in Intents |-> {}]
  /\ settled = {}

Clear(i) ==
  /\ cleared' = cleared \cup {i}
  /\ UNCHANGED <<sent, settled>>

Send(i, k) ==
  /\ i \in cleared
  /\ 1..(k - 1) \subseteq sent[i]
  /\ sent' = [sent EXCEPT ![i] = @ \cup {k}]
  /\ UNCHANGED <<cleared, settled>>

Settle(i) ==
  /\ 1 \in sent[i]
  /\ settled' = settled \cup {i}
  /\ UNCHANGED <<cleared, sent>>

Next == \E i \in Intents : Clear(i) \/ (\E k \in Steps : Send(i, k)) \/ Settle(i)

Spec == Init /\ [][Next]_gateVars
=============================================================================
