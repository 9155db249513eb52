------------------------------ MODULE AnchorSweep ------------------------------
(***************************************************************************)
(* The scheduled reconciliation of anchor bonds: which anchors a tick      *)
(* lists, and which bonds it therefore checks.  What a check does to a     *)
(* bond, and its races with operators, are in PaymentAnchors; here a bond  *)
(* is checked or was edited since.                                         *)
(***************************************************************************)
EXTENDS Naturals, FiniteSets, Functions

CONSTANTS
  Anchors,    \* anchors that have a bond
  BatchSize,  \* ANCHOR_BOND_RECONCILE_BATCH_SIZE
  MaxFaults   \* bound: ticks that a failing statement ends early

SweepAssumption == IsFiniteSet(Anchors) /\ BatchSize \in Nat \ {0} /\ MaxFaults \in Nat

VARIABLES
  age,      \* place by payment_anchors.updated_at: the newest anchor has 1
  listed,   \* those whose status the reconciliation lists
  checked,  \* those whose bond was reconciled since it was last edited
  todo,     \* what is left of the batch of the tick at work: the place in it, from 0
  faults

vars == <<age, listed, checked, todo, faults>>

\* Mutant of Batch: the oldest anchors come first.
OldestBatch == {a \in listed : Cardinality({b \in listed : age[b] > age[a]}) < BatchSize}

Newer(a) == {b \in listed : age[b] < age[a]}

\* listPaymentAnchorsByStatuses: newest first, at most BatchSize.
Batch == {a \in listed : Cardinality(Newer(a)) < BatchSize}

\* updatePaymentAnchor sets updated_at.
ToFront(a) ==
  [b \in Anchors |-> IF b = a THEN 1 ELSE IF age[b] < age[a] THEN age[b] + 1 ELSE age[b]]

Init ==
  /\ age \in Bijection(Anchors, 1..Cardinality(Anchors))
  /\ listed \in SUBSET Anchors
  /\ checked = {}
  /\ todo = <<>>
  /\ faults = 0

\* A tick of the repeated job; there is one at a time.
Tick ==
  /\ todo = <<>>
  /\ Batch # {}
  /\ todo' = [a \in Batch |-> Cardinality(Newer(a))]
  /\ UNCHANGED <<age, listed, checked, faults>>

\* Reconciling a bond updates the bond and leaves the anchor's row alone.
CheckNext ==
  \E a \in DOMAIN todo :
    /\ \A b \in DOMAIN todo : todo[a] <= todo[b]
    /\ checked' = checked \cup {a}
    /\ todo' = Restrict(todo, DOMAIN todo \ {a})
    /\ UNCHANGED <<age, listed, faults>>

\* A statement fails: the loop has no catch, the rest of the batch is given up.
TickFails ==
  /\ todo # <<>>
  /\ faults < MaxFaults
  /\ faults' = faults + 1
  /\ todo' = <<>>
  /\ UNCHANGED <<age, listed, checked>>

\* POST /anchors/:id/reconcile names one anchor, whatever its status.
CheckOne(a) ==
  /\ checked' = checked \cup {a}
  /\ UNCHANGED <<age, listed, todo, faults>>

\* PATCH /anchors/:id/bond writes an unverified bond, adds no job, and leaves
\* updated_at of the anchor alone.
PatchBond(a) ==
  /\ checked' = checked \ {a}
  /\ UNCHANGED <<age, listed, todo, faults>>

\* PATCH /anchors/:id
PatchAnchor(a) ==
  /\ age' = ToFront(a)
  /\ UNCHANGED <<listed, checked, todo, faults>>

\* POST /anchors/:id/status and the onboarding worker move an anchor in or out of
\* the statuses that are listed.
ChangeStatus(a) ==
  /\ age' = ToFront(a)
  /\ \E in \in BOOLEAN : listed' = IF in THEN listed \cup {a} ELSE listed \ {a}
  /\ UNCHANGED <<checked, todo, faults>>

Next ==
  \/ Tick \/ CheckNext \/ TickFails
  \/ \E a \in Anchors : CheckOne(a) \/ PatchBond(a) \/ PatchAnchor(a) \/ ChangeStatus(a)

\* The job is repeated for ever, and the worker takes it.
Spec == Init /\ [][Next]_vars /\ WF_vars(Tick) /\ WF_vars(CheckNext)

----------------------------------------------------------------------------

\* Type invariant: the places are those of all anchors, and a batch has at most
\* BatchSize of them, each once.
TypeOK ==
  /\ age \in Bijection(Anchors, 1..Cardinality(Anchors))
  /\ listed \subseteq Anchors /\ checked \subseteq Anchors
  /\ DOMAIN todo \subseteq Anchors /\ todo \in Injection(DOMAIN todo, 0..BatchSize - 1)
  /\ faults \in 0..MaxFaults

\* An anchor that stays among the BatchSize newest ones is checked again and again,
\* so an edit of its bond does not stay unverified (run.ts:546).  The others are
\* checked only when somebody asks for it.
Attended(a) == (a \in listed /\ Cardinality(Newer(a)) < BatchSize) => a \in checked
NewestAreChecked == \A a \in Anchors : []<>Attended(a)
=============================================================================
