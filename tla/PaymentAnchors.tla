---------------------------- MODULE PaymentAnchors ----------------------------
(***************************************************************************)
(* A payment anchor, its bond, and those who write them: the repeated bond *)
(* reconciliation, the onboarding job that walks the anchor through its    *)
(* lifecycle, and the operator routes of the API.  Every writer reads,     *)
(* awaits and then updates a row unconditionally, so each is split at its  *)
(* awaits.  Anchors do not touch each other: one is modelled.  Its events, *)
(* telemetry and metric samples are write-only here and left out.          *)
(***************************************************************************)
EXTENDS Naturals, Sequences

CONSTANTS
  Reconcilers, Onboarders,  \* jobs of the two anchor queues that can run at a time
  Callers,    \* API requests that can be in progress at a time
  Strict,     \* ANCHOR_BOND_STRICT
  Vouches,    \* operators may claim "verified" in PATCH /anchors/:id/bond
  Sources,    \* what they may give there as verificationSource
  LockRefs,   \* and as lock reference: a "set" or an "empty" string
  MaxCalls,   \* bound: writes the operators ask for
  MaxAborts,  \* bound: jobs that throw or lose their process
  None

ASSUME AnchorAssumption ==
  /\ Reconcilers \cap Onboarders = {}
  /\ {Strict, Vouches} \subseteq BOOLEAN
  /\ Sources \subseteq {"database", "keeta"}
  /\ LockRefs \subseteq {"set", "empty"}
  /\ {MaxCalls, MaxAborts} \subseteq Nat

Runs == Reconcilers \cup Onboarders

VARIABLES
  status,   \* payment_anchors.status
  terms,    \* payment_anchors.commercial_terms: empty, without or with a fee
  bonds,    \* the anchor_bonds rows of the anchor, oldest first
  run,      \* the jobs in progress
  request,  \* the API requests in progress
  calls,    \* writes asked for so far
  aborts    \* jobs that ended early so far

anchorVars == <<status, terms>>
boundVars  == <<calls, aborts>>
vars == <<anchorVars, bonds, run, request, boundVars>>

----------------------------------------------------------------------------
(* The lifecycle (packages/types/src/schemas/payment-anchor.ts) *)

Statuses == {"draft", "commercial_defined", "bond_required", "bond_pending_lock",
             "active", "withdrawal_requested", "released", "suspended"}

BondStatuses == {"pending_lock", "active", "withdrawal_requested", "released", "failed_verification"}

AllowedNext ==
  [s \in Statuses |->
     CASE s = "draft"                -> {"commercial_defined", "bond_required", "suspended"}
       [] s = "commercial_defined"   -> {"bond_required", "bond_pending_lock", "suspended"}
       [] s = "bond_required"        -> {"bond_pending_lock", "suspended"}
       [] s = "bond_pending_lock"    -> {"active", "bond_required", "suspended"}
       [] s = "active"               -> {"withdrawal_requested", "suspended"}
       [] s = "withdrawal_requested" -> {"released", "active", "suspended"}
       [] s = "released"             -> {"bond_required", "bond_pending_lock", "suspended"}
       [] s = "suspended"            -> Statuses \ {"suspended"}]

CanTransition(from, to) == to \in AllowedNext[from]

Terms == {"none", "note", "fee"}

Has(bond, s) == bond # None /\ bond.status = s
Unusable(bond) == bond = None \/ bond.status \in {"released", "failed_verification"}

\* evaluatePaymentAnchorReadiness
CanActivate(strict, fees, bond) ==
  fees = "fee" /\ Has(bond, "active") /\ (strict => bond.verified)

CanServe(strict, s, fees, bond) == s = "active" /\ CanActivate(strict, fees, bond)

\* evaluatePaymentAnchorOnboarding: the status to advance to, None if the
\* anchor is blocked or stable.
Advice(s, fees, bond) ==
  CASE s = "draft" /\ fees # "none"                        -> "commercial_defined"
    [] s = "commercial_defined" /\ fees = "fee"            -> "bond_required"
    [] s = "bond_required" /\ ~Unusable(bond)              -> "bond_pending_lock"
    [] s = "bond_pending_lock" /\ CanActivate(Strict, fees, bond)    -> "active"
    [] s = "bond_pending_lock" /\ Unusable(bond)           -> "bond_required"
    [] s = "active" /\ Has(bond, "withdrawal_requested")   -> "withdrawal_requested"
    [] s = "withdrawal_requested" /\ Has(bond, "released") -> "released"
    [] s = "withdrawal_requested" /\ CanActivate(Strict, fees, bond) -> "active"
    [] s = "released" /\ fees = "note"                     -> "commercial_defined"
    [] s = "released" /\ fees = "fee" /\ Unusable(bond)    -> "bond_required"
    [] s = "released" /\ fees = "fee" /\ ~Unusable(bond)   -> "bond_pending_lock"
    [] OTHER -> None

\* Where one iteration of the onboarding loop moves an anchor: the advice is
\* followed if the transition table allows it.
Follows(s, next) == next # None /\ CanTransition(s, next)
Onward(s, fees, bond) == IF Follows(s, Advice(s, fees, bond)) THEN Advice(s, fees, bond) ELSE s

\* Mutant of MaxIterations: the loop is cut short.
FewIterations == 4

MaxIterations == 6

(* The bond verifier (packages/keeta/src/anchor-bonds.ts) *)

Inspect(bond) ==
  LET observed == IF Strict /\ bond.status = "active" /\ ~bond.lock
                  THEN "failed_verification" ELSE bond.status
  IN [status |-> observed, verified |-> observed = "active",
      source |-> IF Strict /\ ~bond.lock THEN None ELSE "database"]

\* A bond row the next reconciliation would find nothing new about.
Unchanged(bond) ==
  Inspect(bond) = [status |-> bond.status, verified |-> bond.verified, source |-> bond.source]

----------------------------------------------------------------------------

Latest == IF bonds = <<>> THEN None ELSE bonds[Len(bonds)]

\* A job before it has read anything in this turn.
JobAt(job, pc, turns) ==
  [pc |-> pc, job |-> job, row |-> 0, seen |-> None,
   status |-> None, terms |-> None, next |-> None, turns |-> turns]
IdleRun == JobAt(None, "idle", 0)

\* A request between two of its awaits.
RequestAt(pc, to, fees, row) == [pc |-> pc, to |-> to, terms |-> fees, row |-> row]
IdleRequest == RequestAt("idle", None, None, 0)

Init ==
  /\ status \in Statuses
  /\ terms \in Terms
  /\ bonds = <<>>
  /\ run = [r \in Runs |-> IdleRun]
  /\ request = [c \in Callers |-> IdleRequest]
  /\ calls = 0
  /\ aborts = 0

(* Bond reconciliation, on a schedule and before onboarding *)

\* The statuses the scheduled tick lists.
Scanned == {"bond_pending_lock", "active", "withdrawal_requested", "released", "suspended"}

Start(r, job, pc) ==
  /\ run[r].pc = "idle"
  /\ run' = [run EXCEPT ![r] = JobAt(job, pc, 0)]
  /\ UNCHANGED <<anchorVars, bonds, request, boundVars>>

StartTick(r) == status \in Scanned /\ Start(r, "reconcile", "bond")

\* POST /anchors/:id/reconcile
StartReconcile(r) == Start(r, "reconcile", "bond")

\* POST /anchors/:id/onboarding/run, with or without reconcileBond.
StartOnboarding(r) == \E pc \in {"bond", "anchor"} : Start(r, "onboard", pc)

\* What a job does once the bond is reconciled.
AfterBond(r) ==
  IF run[r].job = "onboard" THEN JobAt("onboard", "anchor", 0) ELSE IdleRun

ReadBond(r) ==
  /\ run[r].pc = "bond"
  /\ run' = [run EXCEPT ![r] =
       IF Latest = None THEN AfterBond(r)
       ELSE [run[r] EXCEPT !.pc = "reconcile", !.row = Len(bonds), !.seen = Latest]]
  /\ UNCHANGED <<anchorVars, bonds, request, boundVars>>

\* Mutant of Stored: the verifier's "strict-missing" is stored as it is.
StoredRaw(bond, s, verified, source) ==
  [bond EXCEPT !.status = s, !.verified = verified, !.source = IF source = None THEN "strict-missing" ELSE source]

\* Mutant of Stored: the column "verified" is left out of the update.
StoredUnverified(bond, s, verified, source) ==
  [bond EXCEPT !.status = s, !.source = IF source = None THEN @ ELSE source]

\* updateAnchorBond sets the columns it is given a value for: a source that is
\* undefined and the lock reference keep what the row has.
Stored(bond, s, verified, source) ==
  [bond EXCEPT !.status = s, !.verified = verified, !.source = IF source = None THEN @ ELSE source]

ReconcileBond(r) ==
  /\ run[r].pc = "reconcile"
  /\ LET found == Inspect(run[r].seen)
     IN bonds' = [bonds EXCEPT ![run[r].row] = Stored(@, found.status, found.verified, found.source)]
  /\ run' = [run EXCEPT ![r] = AfterBond(r)]
  /\ UNCHANGED <<anchorVars, request, boundVars>>

(* The onboarding loop *)

ReadAnchor(r) ==
  /\ run[r].pc = "anchor"
  /\ run' = [run EXCEPT ![r] =
       [run[r] EXCEPT !.pc = "evaluate", !.status = status, !.terms = terms,
                      !.turns = run[r].turns + 1]]
  /\ UNCHANGED <<anchorVars, bonds, request, boundVars>>

\* Reads the bond and evaluates it with the anchor row read before.
Evaluate(r) ==
  /\ run[r].pc = "evaluate"
  /\ LET next == Advice(run[r].status, run[r].terms, Latest)
     IN run' = [run EXCEPT ![r] = IF Follows(run[r].status, next)
                                  THEN [run[r] EXCEPT !.pc = "advance", !.next = next]
                                  ELSE IdleRun]
  /\ UNCHANGED <<anchorVars, bonds, request, boundVars>>

Advance(r) ==
  /\ run[r].pc = "advance"
  /\ status' = run[r].next
  /\ run' = [run EXCEPT ![r] =
       IF run[r].turns < MaxIterations
       THEN JobAt("onboard", "anchor", run[r].turns) ELSE IdleRun]
  /\ UNCHANGED <<terms, bonds, request, boundVars>>

\* A query throws or the process dies; a retry is a new job.
Abort(r) ==
  /\ run[r].pc # "idle"
  /\ aborts < MaxAborts
  /\ aborts' = aborts + 1
  /\ run' = [run EXCEPT ![r] = IdleRun]
  /\ UNCHANGED <<anchorVars, bonds, request, calls>>

----------------------------------------------------------------------------
(* The operator routes *)

Ask(c) ==
  /\ request[c].pc = "idle"
  /\ calls < MaxCalls
  /\ calls' = calls + 1

\* POST /anchors/:id/status reads the anchor, then its bond, then writes.
StatusRead(c) ==
  /\ Ask(c)
  /\ \E to \in AllowedNext[status] :
       request' = [request EXCEPT ![c] = RequestAt("guard", to, terms, 0)]
  /\ UNCHANGED <<anchorVars, bonds, run, aborts>>

StatusAllowed(to, fees, bond) ==
  /\ to = "active" => CanActivate(Strict, fees, bond)
  /\ to = "bond_pending_lock" => bond # None
  /\ to \in {"withdrawal_requested", "released"} => Has(bond, to)

StatusGuard(c) ==
  /\ request[c].pc = "guard"
  /\ request' = [request EXCEPT ![c] =
       IF StatusAllowed(@.to, @.terms, Latest) THEN [@ EXCEPT !.pc = "status"] ELSE IdleRequest]
  /\ UNCHANGED <<anchorVars, bonds, run, boundVars>>

StatusWrite(c) ==
  /\ request[c].pc = "status"
  /\ status' = request[c].to
  /\ request' = [request EXCEPT ![c] = IdleRequest]
  /\ UNCHANGED <<terms, bonds, run, boundVars>>

\* PATCH /anchors/:id: any status and any terms, with no check.
PatchAnchor(c) ==
  /\ Ask(c)
  /\ status' \in Statuses
  /\ terms' \in Terms
  /\ UNCHANGED <<bonds, run, request, aborts>>

\* PATCH /anchors/:id/bond reads the latest bond, then updates it or, if there
\* was none, inserts one.
BondRead(c) ==
  /\ Ask(c)
  /\ request' = [request EXCEPT ![c] = RequestAt("bond", None, None, Len(bonds))]
  /\ UNCHANGED <<anchorVars, bonds, run, aborts>>

\* Mutant of Patched: "verified" keeps what the row has when it is not given.
PatchedPartly(bond, s, verified, source, lock) ==
  [Stored(bond, s, bond.verified \/ verified, source) EXCEPT !.lock = IF lock = None THEN bond.lock ELSE lock = "set"]

\* "verified" is false when it is not given; a lock reference that is not given
\* stays, and an empty one counts as none.
Patched(bond, s, verified, source, lock) ==
  [Stored(bond, s, verified, source) EXCEPT !.lock = IF lock = None THEN bond.lock ELSE lock = "set"]

NewBond == [status |-> "pending_lock", verified |-> FALSE, source |-> None, lock |-> FALSE]

BondWrite(c) ==
  /\ request[c].pc = "bond"
  /\ \E s \in BondStatuses, verified \in {FALSE, Vouches}, source \in Sources \cup {None}, lock \in LockRefs \cup {None} :
       bonds' = IF request[c].row = 0
                THEN Append(bonds, Patched(NewBond, s, verified, source, lock))
                ELSE [bonds EXCEPT ![request[c].row] =
                        Patched(bonds[request[c].row], s, verified, source, lock)]
  /\ request' = [request EXCEPT ![c] = IdleRequest]
  /\ UNCHANGED <<anchorVars, run, boundVars>>

----------------------------------------------------------------------------

Step(r) == ReadBond(r) \/ ReconcileBond(r) \/ ReadAnchor(r) \/ Evaluate(r) \/ Advance(r)

Answer(c) == StatusGuard(c) \/ StatusWrite(c) \/ BondWrite(c)

Next ==
  \/ \E r \in Reconcilers : StartTick(r) \/ StartReconcile(r)
  \/ \E r \in Onboarders : StartOnboarding(r)
  \/ \E r \in Runs : Step(r) \/ Abort(r)
  \/ \E c \in Callers : StatusRead(c) \/ PatchAnchor(c) \/ BondRead(c) \/ Answer(c)

Spec == Init /\ [][Next]_vars

\* The reconciliation tick repeats, jobs and requests that began go on.
\* Operators owe nothing.
Fairness ==
  /\ WF_vars(\E r \in Reconcilers : StartTick(r))
  /\ \A r \in Runs : WF_vars(Step(r))
  /\ \A c \in Callers : WF_vars(Answer(c))

FairSpec == Spec /\ Fairness

----------------------------------------------------------------------------
(* Routing and policy, which read the same rows *)

\* Mutant of RouteAllows: the readiness of the anchor is not asked for.
RouteAllowsVerified(s, fees, bond) == bond # None /\ Inspect(bond).verified

\* buildAnchorRoutingProfiles: the router may use the anchor, its corridor,
\* assets and metrics permitting.  It evaluates readiness strictly always.
RouteAllows(s, fees, bond) ==
  CanServe(TRUE, s, fees, bond) /\ Inspect(bond).verified

\* The rule anchor_bond_active on the hints of buildAnchorBondHints.
PolicyPasses(required, s, bond) ==
  /\ s = "active"
  /\ Has(bond, "active")
  /\ required => Inspect(bond).verified

----------------------------------------------------------------------------
(* Properties *)

Bond == [status : BondStatuses, verified : BOOLEAN, source : {None, "database", "keeta"}, lock : BOOLEAN]

RunType == [pc : {"idle", "bond", "reconcile", "anchor", "evaluate", "advance"},
            job : {None, "reconcile", "onboard"}, row : Nat, seen : Bond \cup {None},
            status : Statuses \cup {None}, terms : Terms \cup {None},
            next : Statuses \cup {None}, turns : Nat]

RequestType == [pc : {"idle", "guard", "status", "bond"}, to : Statuses \cup {None},
                terms : Terms \cup {None}, row : Nat]

\* n is the number of bond rows.
RunOK(a, n) ==
  /\ a.pc = "reconcile" => a.row \in 1..n /\ a.seen \in Bond
  /\ a.pc = "anchor" => a.turns < MaxIterations
  /\ a.pc = "evaluate" => a.status \in Statuses /\ a.terms \in Terms
  /\ a.pc = "advance" => a.next \in Statuses
  /\ a.turns <= MaxIterations

RequestOK(q, n) ==
  /\ q.pc = "guard" => q.to \in Statuses /\ q.terms \in Terms
  /\ q.pc = "status" => q.to \in Statuses
  /\ q.pc = "bond" => q.row <= n

\* Every variable has the shape the schema gives it, jobs and requests hold the
\* locals their next step reads, and the onboarding loop keeps its limit.
TypeOK ==
  /\ status \in Statuses
  /\ terms \in Terms
  /\ bonds \in Seq(Bond)
  /\ run \in [Runs -> RunType] /\ \A r \in Runs : RunOK(run[r], Len(bonds))
  /\ request \in [Callers -> RequestType] /\ \A c \in Callers : RequestOK(request[c], Len(bonds))
  /\ calls \in Nat
  /\ aborts \in Nat

Backed(bond) == bond.verified => bond.status = "active" /\ (Strict => bond.lock)

\* The operators neither claim verification nor blank out a lock reference.
Careful == ~Vouches /\ "empty" \notin LockRefs

\* Operators who are careful cannot, whatever they race with, leave a row that
\* says "verified" of a bond that is not active or, in strict mode, has no lock
\* reference.
VerifiedIsBacked == Careful => \A n \in 1..Len(bonds) : Backed(bonds[n])

\* Inductive with VerifiedIsBacked: a lock reference a job saw is still there.
LocksStay ==
  Careful => \A r \in Runs :
    run[r].pc = "reconcile" /\ run[r].seen.lock => bonds[run[r].row].lock

\* Where an onboarding job that nobody disturbs has moved the anchor before
\* its last iteration.
Reached ==
  LET after[n \in 0..(MaxIterations - 1)] ==
        IF n = 0 THEN status ELSE Onward(after[n - 1], terms, Latest)
  IN after[MaxIterations - 1]

\* The iteration limit of the onboarding loop never cuts it short: the last
\* iteration finds nothing to advance, and an anchor that can be activated and
\* is not suspended is active by then.
OnboardingSettles ==
  /\ Onward(Reached, terms, Latest) = Reached
  /\ CanActivate(Strict, terms, Latest) /\ status # "suspended" => Reached = "active"

\* The router never offers an anchor that the policy rule would then refuse for
\* the same rows, whether or not the policy requires verification.
RoutedAnchorsPassPolicy ==
  RouteAllows(status, terms, Latest) => \A required \in BOOLEAN : PolicyPasses(required, status, Latest)

\* Once the operators leave the anchor alone, reconciliation comes to rest: the
\* bond of a scanned anchor says what the verifier finds, so no tick changes it
\* or emits another payment_anchor.bond_reconciled event.
ReconciliationSettles == <>[](status \in Scanned /\ Latest # None => Unchanged(Latest))
=============================================================================
