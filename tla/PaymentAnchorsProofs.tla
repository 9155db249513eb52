-------------------------- MODULE PaymentAnchorsProofs --------------------------
(***************************************************************************)
(* Type correctness of PaymentAnchors, and: no interleaving of jobs and    *)
(* requests leaves a bond row that is verified but not backed.             *)
(***************************************************************************)
EXTENDS PaymentAnchors, TLAPS

\* The transition table leads from statuses to statuses.
LEMMA TableClosed == AllowedNext \in [Statuses -> SUBSET Statuses]
  BY DEF AllowedNext, Statuses

\* The latest row is a bond, if there is one.
LEMMA LatestIsBond ==
  ASSUME bonds \in Seq(Bond), Latest # None
  PROVE  Latest \in Bond /\ Len(bonds) \in 1..Len(bonds) /\ Latest = bonds[Len(bonds)]
  BY DEF Latest

\* What the verifier finds is a value of the columns it is written to.
LEMMA InspectTyped ==
  ASSUME NEW b \in Bond
  PROVE  /\ Inspect(b).status \in BondStatuses
         /\ Inspect(b).verified \in BOOLEAN
         /\ Inspect(b).source \in {None, "database", "keeta"}
         /\ Inspect(b).verified => Inspect(b).status = "active" /\ (Strict => b.lock)
  BY DEF Inspect, Bond, BondStatuses

\* An update of a bond row yields a bond row with the lock reference it had.
LEMMA StoredTyped ==
  ASSUME NEW b \in Bond, NEW s \in BondStatuses, NEW v \in BOOLEAN,
         NEW src \in {None, "database", "keeta"}
  PROVE  /\ Stored(b, s, v, src) \in Bond
         /\ Stored(b, s, v, src).lock = b.lock
         /\ Stored(b, s, v, src).status = s
         /\ Stored(b, s, v, src).verified = v
  BY DEF Stored, Bond

LEMMA PatchedTyped ==
  ASSUME NEW b \in Bond, NEW s \in BondStatuses, NEW v \in BOOLEAN,
         NEW src \in {None, "database", "keeta"}, NEW lock \in {"set", "empty", None}
  PROVE  /\ Patched(b, s, v, src, lock) \in Bond
         /\ Patched(b, s, v, src, lock).verified = v
         /\ b.lock /\ lock \in {"set", None} => Patched(b, s, v, src, lock).lock
  <1> DEFINE t == Stored(b, s, v, src)
             l == IF lock = None THEN b.lock ELSE lock = "set"
  <1>1. t \in Bond /\ t.verified = v
    BY StoredTyped
  <1>2. l \in BOOLEAN /\ (b.lock /\ lock \in {"set", None} => l)
    BY DEF Bond
  <1>3. Patched(b, s, v, src, lock) = [t EXCEPT !.lock = l]
    BY DEF Patched
  <1> HIDE DEF t, l
  <1> QED
    BY <1>1, <1>2, <1>3 DEF Bond

LEMMA IdleTyped == IdleRun \in RunType /\ IdleRequest \in RequestType
  BY DEF IdleRun, JobAt, IdleRequest, RequestAt, RunType, RequestType

----------------------------------------------------------------------------

Inv == TypeOK /\ VerifiedIsBacked /\ LocksStay

LEMMA InitInv == Init => Inv
  <1> SUFFICES ASSUME Init PROVE Inv
    OBVIOUS
  <1>1. bonds \in Seq(Bond) /\ Len(bonds) = 0
    BY DEF Init
  <1>2. run \in [Runs -> RunType] /\ request \in [Callers -> RequestType]
    BY IdleTyped DEF Init
  <1>3. (\A r \in Runs : RunOK(run[r], Len(bonds))) /\ (\A c \in Callers : RequestOK(request[c], Len(bonds)))
    BY DEF Init, IdleRun, JobAt, IdleRequest, RequestAt, RunOK, RequestOK, MaxIterations
  <1>4. VerifiedIsBacked
    BY <1>1 DEF VerifiedIsBacked
  <1>5. LocksStay
    BY DEF Init, IdleRun, JobAt, LocksStay
  <1> QED
    BY <1>1, <1>2, <1>3, <1>4, <1>5 DEF Init, Inv, TypeOK

\* A job moves on and writes nothing but, perhaps, the status.
LEMMA RunMoves ==
  ASSUME Inv,
         NEW r \in Runs, NEW a \in RunType, RunOK(a, Len(bonds)),
         a.pc = "reconcile" /\ a.seen.lock => bonds[a.row].lock,
         run' = [run EXCEPT ![r] = a],
         status' \in Statuses,
         UNCHANGED <<terms, bonds, request, calls>>,
         aborts' \in Nat
  PROVE  Inv'
  <1> USE DEF Inv
  <1>1. run' \in [Runs -> RunType] /\ \A q \in Runs : run'[q] = IF q = r THEN a ELSE run[q]
    BY DEF TypeOK
  <1>2. \A q \in Runs : RunOK(run'[q], Len(bonds'))
    BY <1>1 DEF TypeOK, RunOK
  <1>3. \A c \in Callers : RequestOK(request'[c], Len(bonds'))
    BY DEF TypeOK, RequestOK
  <1>4. TypeOK'
    BY <1>1, <1>2, <1>3 DEF TypeOK
  <1>5. VerifiedIsBacked'
    BY DEF VerifiedIsBacked, Backed
  <1>6. LocksStay'
    BY <1>1 DEF LocksStay
  <1> QED
    BY <1>4, <1>5, <1>6

\* A request moves on and writes nothing but, perhaps, the anchor row.
LEMMA RequestMoves ==
  ASSUME Inv,
         NEW c \in Callers, NEW q \in RequestType, RequestOK(q, Len(bonds)),
         request' = [request EXCEPT ![c] = q] \/ request' = request,
         status' \in Statuses, terms' \in Terms, calls' \in Nat,
         UNCHANGED <<bonds, run, aborts>>
  PROVE  Inv'
  <1> USE DEF Inv
  <1>1. request' \in [Callers -> RequestType] /\ \A d \in Callers : request'[d] \in {request[d], q}
    BY DEF TypeOK
  <1>2. \A d \in Callers : RequestOK(request'[d], Len(bonds'))
    BY <1>1 DEF TypeOK, RequestOK
  <1>3. \A r \in Runs : RunOK(run'[r], Len(bonds'))
    BY DEF TypeOK, RunOK
  <1>4. TypeOK'
    BY <1>1, <1>2, <1>3 DEF TypeOK
  <1>5. VerifiedIsBacked' /\ LocksStay'
    BY DEF VerifiedIsBacked, Backed, LocksStay
  <1> QED
    BY <1>4, <1>5

\* One bond row is overwritten or added: the other rows stay and, if operators
\* are careful, no lock reference goes and the new row is backed.
LEMMA BondsMove ==
  ASSUME Inv,
         bonds' \in Seq(Bond), Len(bonds') >= Len(bonds),
         Careful => \A n \in 1..Len(bonds) : bonds[n].lock => bonds'[n].lock,
         Careful => \A n \in 1..Len(bonds') : Backed(bonds'[n]),
         run' \in [Runs -> RunType],
         \A r \in Runs : RunOK(run'[r], Len(bonds)) /\ (run'[r] = run[r] \/ run'[r].pc # "reconcile"),
         request' \in [Callers -> RequestType],
         \A c \in Callers : RequestOK(request'[c], Len(bonds)),
         UNCHANGED <<anchorVars, boundVars>>
  PROVE  Inv'
  <1> USE DEF Inv
  <1>1. Len(bonds) \in Nat /\ Len(bonds') \in Nat
    BY DEF TypeOK
  <1>2. \A r \in Runs : RunOK(run'[r], Len(bonds'))
    BY <1>1 DEF RunOK
  <1>3. \A c \in Callers : RequestOK(request'[c], Len(bonds'))
    BY <1>1 DEF RequestOK, RequestType
  <1>4. TypeOK'
    BY <1>2, <1>3 DEF TypeOK, anchorVars, boundVars
  <1>5. VerifiedIsBacked'
    BY DEF VerifiedIsBacked, Backed
  <1>6. LocksStay'
    BY DEF LocksStay, TypeOK, RunOK
  <1> QED
    BY <1>4, <1>5, <1>6

----------------------------------------------------------------------------

\* A job that starts a turn is well typed.
LEMMA JobTyped ==
  ASSUME NEW job \in {"reconcile", "onboard"}, NEW pc \in {"bond", "anchor"}, NEW t \in 0..(MaxIterations - 1),
         NEW n
  PROVE  JobAt(job, pc, t) \in RunType /\ RunOK(JobAt(job, pc, t), n) /\ JobAt(job, pc, t).pc # "reconcile"
  BY DEF JobAt, RunType, RunOK, MaxIterations

LEMMA IdleOK ==
  ASSUME NEW n
  PROVE  RunOK(IdleRun, n) /\ IdleRun.pc # "reconcile"
  BY DEF RunOK, IdleRun, JobAt, MaxIterations

\* A job that has read the anchor row.
LEMMA ReadTyped ==
  ASSUME NEW a \in RunType, NEW s \in Statuses, NEW t \in Terms
  PROVE  [a EXCEPT !.pc = "evaluate", !.status = s, !.terms = t, !.turns = a.turns + 1] \in RunType
  <1> DEFINE b == [a EXCEPT !.pc = "evaluate", !.status = s]
  <1>1. b \in RunType
    BY DEF RunType
  <1>2. a.turns + 1 \in Nat
    BY DEF RunType
  <1>3. [b EXCEPT !.terms = t, !.turns = a.turns + 1] \in RunType
    <2> HIDE DEF b
    <2> QED
      BY <1>1, <1>2 DEF RunType
  <1> QED
    BY <1>3

\* A job and its next turn.
LEMMA RunsStep ==
  ASSUME Inv, NEW r \in Runs,
         (\E job \in {"reconcile", "onboard"}, pc \in {"bond", "anchor"} : Start(r, job, pc))
           \/ ReadBond(r) \/ ReadAnchor(r) \/ Evaluate(r) \/ Advance(r) \/ Abort(r)
  PROVE  Inv'
  <1> USE DEF Inv
  <1>1. run[r] \in RunType /\ RunOK(run[r], Len(bonds)) /\ Len(bonds) \in Nat
    BY DEF TypeOK
  <1>2. ASSUME NEW job \in {"reconcile", "onboard"}, NEW pc \in {"bond", "anchor"}, Start(r, job, pc)
        PROVE  Inv'
    <2> DEFINE a == JobAt(job, pc, 0)
    <2>1. a \in RunType /\ RunOK(a, Len(bonds)) /\ a.pc # "reconcile"
      BY JobTyped DEF MaxIterations
    <2> QED
      BY <1>2, <2>1, RunMoves DEF Start, TypeOK, anchorVars, boundVars
  <1>3. CASE ReadBond(r)
    <2> DEFINE a == IF Latest = None THEN AfterBond(r)
                    ELSE [run[r] EXCEPT !.pc = "reconcile", !.row = Len(bonds), !.seen = Latest]
    <2>1. run[r].pc = "bond" /\ run' = [run EXCEPT ![r] = a]
      BY <1>3 DEF ReadBond
    <2>2. CASE Latest = None
      <3>1. a \in RunType /\ RunOK(a, Len(bonds)) /\ a.pc # "reconcile"
        BY <2>2, JobTyped, IdleTyped DEF AfterBond, IdleRun, JobAt, RunOK, MaxIterations
      <3> QED
        BY <1>3, <2>1, <3>1, RunMoves DEF ReadBond, TypeOK, anchorVars, boundVars
    <2>3. CASE Latest # None
      <3>1. Latest \in Bond /\ Len(bonds) \in 1..Len(bonds) /\ Latest = bonds[Len(bonds)]
        BY <2>3, LatestIsBond DEF TypeOK
      <3>2. a \in RunType /\ RunOK(a, Len(bonds)) /\ a.row = Len(bonds) /\ a.seen = Latest
        BY <1>1, <2>3, <3>1 DEF RunType, RunOK
      <3> QED
        BY <1>3, <2>1, <3>1, <3>2, RunMoves DEF ReadBond, TypeOK, anchorVars, boundVars
    <2> QED
      BY <2>2, <2>3
  <1>4. CASE ReadAnchor(r)
    <2> DEFINE a == [run[r] EXCEPT !.pc = "evaluate", !.status = status, !.terms = terms,
                                   !.turns = run[r].turns + 1]
    <2>1. run' = [run EXCEPT ![r] = a] /\ run[r].pc = "anchor"
      BY <1>1, <1>4 DEF ReadAnchor, RunType, TypeOK
    <2>2. run[r].turns \in 0..5 /\ status \in Statuses /\ terms \in Terms
      BY <1>1, <2>1 DEF RunType, RunOK, TypeOK, MaxIterations
    <2>3. a \in RunType
      BY <1>1, <2>2, ReadTyped
    <2>4. /\ a.pc = "evaluate" /\ a.status = status /\ a.terms = terms
          /\ a.turns = run[r].turns + 1
      BY <1>1 DEF RunType
    <2>5. RunOK(a, Len(bonds)) /\ a.pc # "reconcile"
      BY <2>2, <2>4 DEF RunOK, MaxIterations
    <2> QED
      BY <1>4, <2>1, <2>3, <2>5, RunMoves DEF ReadAnchor, TypeOK, anchorVars, boundVars
  <1>5. CASE Evaluate(r)
    <2> DEFINE next == Advice(run[r].status, run[r].terms, Latest)
               a == IF Follows(run[r].status, next)
                    THEN [run[r] EXCEPT !.pc = "advance", !.next = next] ELSE IdleRun
    <2>1. run' = [run EXCEPT ![r] = a] /\ run[r].status \in Statuses
      BY <1>1, <1>5 DEF Evaluate, RunOK, TypeOK
    <2>2. Follows(run[r].status, next) => next \in Statuses
      BY <2>1, TableClosed DEF Follows, CanTransition
    <2> HIDE DEF next
    <2>3. a \in RunType /\ RunOK(a, Len(bonds)) /\ a.pc # "reconcile"
      <3>1. CASE Follows(run[r].status, next)
        <4>1. a \in RunType /\ a.pc = "advance" /\ a.next = next /\ a.turns = run[r].turns
          BY <1>1, <2>2, <3>1 DEF RunType
        <4> QED
          BY <1>1, <2>2, <3>1, <4>1 DEF RunOK
      <3>2. CASE ~Follows(run[r].status, next)
        <4>1. a = IdleRun
          BY <3>2
        <4> HIDE DEF a
        <4> QED
          BY <4>1, IdleTyped, IdleOK
      <3> QED
        BY <3>1, <3>2
    <2> QED
      BY <1>5, <2>1, <2>3, RunMoves DEF Evaluate, TypeOK, anchorVars, boundVars
  <1>6. CASE Advance(r)
    <2> DEFINE a == IF run[r].turns < MaxIterations
                    THEN JobAt("onboard", "anchor", run[r].turns) ELSE IdleRun
    <2>1. a \in RunType /\ RunOK(a, Len(bonds)) /\ a.pc # "reconcile"
      BY <1>1, JobTyped, IdleTyped DEF RunType, RunOK, IdleRun, JobAt, MaxIterations
    <2>2. status' \in Statuses /\ run' = [run EXCEPT ![r] = a]
      BY <1>1, <1>6 DEF Advance, RunOK
    <2> QED
      BY <1>6, <2>1, <2>2, RunMoves DEF Advance, TypeOK, boundVars
  <1>7. CASE Abort(r)
    <2>1. IdleRun \in RunType /\ RunOK(IdleRun, Len(bonds)) /\ IdleRun.pc # "reconcile"
      BY IdleTyped, IdleOK
    <2>2. run' = [run EXCEPT ![r] = IdleRun] /\ status' \in Statuses /\ aborts' \in Nat
      BY <1>7 DEF Abort, TypeOK, anchorVars
    <2>3. UNCHANGED <<terms, bonds, request, calls>>
      BY <1>7 DEF Abort, anchorVars
    <2> QED
      BY <2>1, <2>2, <2>3, RunMoves
  <1> QED
    BY <1>2, <1>3, <1>4, <1>5, <1>6, <1>7

LEMMA ReconcileStep ==
  ASSUME Inv, NEW r \in Runs, ReconcileBond(r)
  PROVE  Inv'
  <1> USE DEF Inv
  <1> DEFINE row == run[r].row
             found == Inspect(run[r].seen)
             new == Stored(bonds[row], found.status, found.verified, found.source)
  <1>1. run[r] \in RunType /\ RunOK(run[r], Len(bonds)) /\ run[r].pc = "reconcile" /\ bonds \in Seq(Bond)
    BY DEF TypeOK, ReconcileBond
  <1>2. row \in 1..Len(bonds) /\ run[r].seen \in Bond /\ bonds[row] \in Bond
    BY <1>1 DEF RunOK
  <1>3. bonds' = [bonds EXCEPT ![row] = new]
    BY DEF ReconcileBond
  <1>4. /\ new \in Bond
        /\ new.lock = bonds[row].lock
        /\ new.verified => new.status = "active" /\ (Strict => run[r].seen.lock)
    <2>1. /\ found.status \in BondStatuses /\ found.verified \in BOOLEAN
          /\ found.source \in {None, "database", "keeta"}
          /\ found.verified => found.status = "active" /\ (Strict => run[r].seen.lock)
      BY <1>2, InspectTyped
    <2> HIDE DEF found, row
    <2> QED
      BY <1>2, <2>1, StoredTyped
  <1>5. Careful /\ run[r].seen.lock => bonds[row].lock
    BY <1>1 DEF LocksStay
  <1>6. Careful => Backed(new)
    BY <1>4, <1>5 DEF Backed
  <1> HIDE DEF new, row
  <1>7. /\ bonds' \in Seq(Bond)
        /\ Len(bonds') = Len(bonds)
        /\ \A n \in 1..Len(bonds) : bonds'[n] = IF n = row THEN new ELSE bonds[n]
    BY <1>1, <1>2, <1>3, <1>4
  <1>8. \A n \in 1..Len(bonds) : bonds[n].lock => bonds'[n].lock
    BY <1>4, <1>7
  <1>9. Careful => \A n \in 1..Len(bonds') : Backed(bonds'[n])
    BY <1>6, <1>7 DEF VerifiedIsBacked
  <1>10. run' \in [Runs -> RunType] /\ \A q \in Runs :
           RunOK(run'[q], Len(bonds)) /\ (run'[q] = run[q] \/ run'[q].pc # "reconcile")
    <2>1. AfterBond(r) \in RunType /\ RunOK(AfterBond(r), Len(bonds)) /\ AfterBond(r).pc # "reconcile"
      BY JobTyped, IdleTyped DEF AfterBond, IdleRun, JobAt, RunOK, MaxIterations
    <2> QED
      BY <2>1 DEF TypeOK, ReconcileBond
  <1> QED
    BY <1>1, <1>7, <1>8, <1>9, <1>10, BondsMove DEF ReconcileBond, TypeOK, boundVars

\* The routes other than the last half of a bond patch.
LEMMA RequestsStep ==
  ASSUME Inv, NEW c \in Callers,
         StatusRead(c) \/ PatchAnchor(c) \/ BondRead(c) \/ StatusGuard(c) \/ StatusWrite(c)
  PROVE  Inv'
  <1> USE DEF Inv
  <1>1. /\ request[c] \in RequestType /\ RequestOK(request[c], Len(bonds)) /\ Len(bonds) \in Nat
        /\ status \in Statuses /\ terms \in Terms /\ calls \in Nat
    BY DEF TypeOK
  <1>2. IdleRequest \in RequestType /\ RequestOK(IdleRequest, Len(bonds))
    BY <1>1, IdleTyped DEF IdleRequest, RequestAt, RequestOK
  <1>3. CASE StatusRead(c)
    <2>1. PICK to \in AllowedNext[status] :
            request' = [request EXCEPT ![c] = RequestAt("guard", to, terms, 0)]
      BY <1>3 DEF StatusRead
    <2>2. to \in Statuses
      BY <1>1, <2>1, TableClosed
    <2>3. /\ RequestAt("guard", to, terms, 0) \in RequestType
          /\ RequestOK(RequestAt("guard", to, terms, 0), Len(bonds))
      BY <1>1, <2>2 DEF RequestAt, RequestType, RequestOK
    <2>4. calls' \in Nat /\ UNCHANGED <<status, terms, bonds, run, aborts>>
      BY <1>1, <1>3 DEF StatusRead, Ask, anchorVars
    <2> QED
      BY <1>1, <2>1, <2>3, <2>4, RequestMoves
  <1>4. CASE PatchAnchor(c)
    BY <1>1, <1>2, <1>4, RequestMoves DEF PatchAnchor, Ask
  <1>5. CASE BondRead(c)
    <2>1. /\ RequestAt("bond", None, None, Len(bonds)) \in RequestType
          /\ RequestOK(RequestAt("bond", None, None, Len(bonds)), Len(bonds))
      BY <1>1 DEF RequestAt, RequestType, RequestOK
    <2>2. /\ request' = [request EXCEPT ![c] = RequestAt("bond", None, None, Len(bonds))]
          /\ calls' \in Nat /\ UNCHANGED <<status, terms, bonds, run, aborts>>
      BY <1>1, <1>5 DEF BondRead, Ask, anchorVars
    <2> QED
      BY <1>1, <2>1, <2>2, RequestMoves
  <1>6. CASE StatusGuard(c)
    <2> DEFINE q == [request[c] EXCEPT !.pc = "status"]
    <2>1. request[c].pc = "guard" /\ request[c].to \in Statuses
      BY <1>1, <1>6 DEF StatusGuard, RequestOK
    <2>2. q \in RequestType /\ RequestOK(q, Len(bonds))
      BY <1>1, <2>1 DEF RequestType, RequestOK
    <2>3. request' = [request EXCEPT ![c] = q] \/ request' = [request EXCEPT ![c] = IdleRequest]
      BY <1>6 DEF StatusGuard, TypeOK
    <2> QED
      BY <1>1, <1>2, <1>6, <2>2, <2>3, RequestMoves DEF StatusGuard, anchorVars, boundVars
  <1>7. CASE StatusWrite(c)
    <2>1. status' \in Statuses /\ request' = [request EXCEPT ![c] = IdleRequest]
      BY <1>1, <1>7 DEF StatusWrite, RequestOK
    <2> QED
      BY <1>1, <1>2, <1>7, <2>1, RequestMoves DEF StatusWrite, boundVars
  <1> QED
    BY <1>3, <1>4, <1>5, <1>6, <1>7

\* The last half of a bond patch: the row it writes is not verified unless the
\* operator vouches for it.
LEMMA BondWriteStep ==
  ASSUME Inv, NEW c \in Callers, BondWrite(c)
  PROVE  Inv'
  <1> USE DEF Inv
  <1> DEFINE row == request[c].row
  <1>1. /\ bonds \in Seq(Bond) /\ Len(bonds) \in Nat
        /\ row \in 0..Len(bonds)
    BY DEF TypeOK, RequestOK, RequestType, BondWrite
  <1>2. PICK s \in BondStatuses, v \in {FALSE, Vouches}, src \in Sources \cup {None}, lock \in LockRefs \cup {None} :
          bonds' = IF row = 0 THEN Append(bonds, Patched(NewBond, s, v, src, lock))
                   ELSE [bonds EXCEPT ![row] = Patched(bonds[row], s, v, src, lock)]
    BY DEF BondWrite
  <1>3. /\ v \in BOOLEAN /\ src \in {None, "database", "keeta"} /\ lock \in {"set", "empty", None}
        /\ Careful => ~v /\ lock \in {"set", None}
    <2>1. Vouches \in BOOLEAN
      BY AnchorAssumption
    <2>2. v \in BOOLEAN /\ (~Vouches => ~v)
      <3>1. v = FALSE \/ v = Vouches
        BY <1>2
      <3>2. CASE v = FALSE
        BY <3>2, Zenon
      <3>3. CASE v = Vouches
        BY <2>1, <3>3, Zenon
      <3> QED
        BY <3>1, <3>2, <3>3
    <2>3. src \in {None, "database", "keeta"}
      BY <1>2, AnchorAssumption
    <2>4. lock \in {"set", "empty", None} /\ ("empty" \notin LockRefs => lock \in {"set", None})
      BY <1>2, AnchorAssumption
    <2> QED
      BY <2>2, <2>3, <2>4 DEF Careful
  <1>4. NewBond \in Bond
    BY DEF NewBond, Bond, BondStatuses
  <1> DEFINE old == IF row = 0 THEN NewBond ELSE bonds[row]
             new == Patched(old, s, v, src, lock)
  <1>5. old \in Bond
    BY <1>1, <1>4
  <1>6. /\ new \in Bond
        /\ Careful => Backed(new) /\ (old.lock => new.lock)
    <2> HIDE DEF old
    <2> QED
      BY <1>2, <1>3, <1>5, PatchedTyped DEF Backed
  <1>7. bonds' = IF row = 0 THEN Append(bonds, new) ELSE [bonds EXCEPT ![row] = new]
    BY <1>2
  <1>8. row # 0 => old = bonds[row]
    OBVIOUS
  <1> HIDE DEF new, old, row
  <1>9. /\ bonds' \in Seq(Bond) /\ Len(bonds') >= Len(bonds)
        /\ \A n \in 1..Len(bonds) : bonds'[n] = IF n = row THEN new ELSE bonds[n]
        /\ \A n \in 1..Len(bonds') : n \in 1..Len(bonds) \/ bonds'[n] = new
    <2>1. CASE row = 0
      BY <1>1, <1>6, <1>7, <2>1
    <2>2. CASE row # 0
      BY <1>1, <1>6, <1>7, <2>2
    <2> QED
      BY <2>1, <2>2
  <1>10. Careful => \A n \in 1..Len(bonds) : bonds[n].lock => bonds'[n].lock
    BY <1>6, <1>8, <1>9
  <1>11. Careful => \A n \in 1..Len(bonds') : Backed(bonds'[n])
    BY <1>6, <1>9 DEF VerifiedIsBacked
  <1>12. request' \in [Callers -> RequestType] /\ \A d \in Callers : RequestOK(request'[d], Len(bonds))
    <2>1. IdleRequest \in RequestType /\ RequestOK(IdleRequest, Len(bonds))
      BY <1>1, IdleTyped DEF IdleRequest, RequestAt, RequestOK
    <2> QED
      BY <2>1 DEF TypeOK, BondWrite
  <1>13. run' = run /\ UNCHANGED <<anchorVars, boundVars>>
    BY DEF BondWrite
  <1>14. run' \in [Runs -> RunType] /\ \A r \in Runs : RunOK(run'[r], Len(bonds)) /\ run'[r] = run[r]
    BY <1>13 DEF TypeOK
  <1> QED
    BY <1>9, <1>10, <1>11, <1>12, <1>13, <1>14, BondsMove

LEMMA NextInv == Inv /\ [Next]_vars => Inv'
  <1> SUFFICES ASSUME Inv, [Next]_vars PROVE Inv'
    OBVIOUS
  <1>1. CASE \E r \in Reconcilers : StartTick(r) \/ StartReconcile(r)
    <2>1. PICK r \in Reconcilers : Start(r, "reconcile", "bond")
      BY <1>1 DEF StartTick, StartReconcile
    <2> QED
      BY <2>1, RunsStep DEF Runs
  <1>2. CASE \E r \in Onboarders : StartOnboarding(r)
    <2>1. PICK r \in Onboarders, pc \in {"bond", "anchor"} : Start(r, "onboard", pc)
      BY <1>2 DEF StartOnboarding
    <2> QED
      BY <2>1, RunsStep DEF Runs
  <1>3. CASE \E r \in Runs : Step(r) \/ Abort(r)
    BY <1>3, RunsStep, ReconcileStep DEF Step
  <1>4. CASE \E c \in Callers : StatusRead(c) \/ PatchAnchor(c) \/ BondRead(c) \/ Answer(c)
    BY <1>4, RequestsStep, BondWriteStep DEF Answer
  <1>5. CASE UNCHANGED vars
    <2>1. UNCHANGED <<status, terms, bonds, run, request, calls, aborts>>
      BY <1>5 DEF vars, anchorVars, boundVars
    <2> QED
      BY <2>1 DEF Inv, TypeOK, VerifiedIsBacked, Backed, LocksStay, RunOK, RequestOK
  <1> QED
    BY <1>1, <1>2, <1>3, <1>4, <1>5 DEF Next

----------------------------------------------------------------------------

\* Type correctness and the two facts about bond rows hold in every reachable
\* state, for any number of jobs and requests, strict or not.
THEOREM Invariance == Spec => []Inv
  BY InitInv, NextInv, PTL DEF Spec

\* The rows, jobs and requests of an anchor keep their shape, and the
\* onboarding loop its limit.
THEOREM AnchorTypes == Spec => []TypeOK
  BY Invariance, PTL DEF Inv

\* However reconciliations, onboarding jobs and bond patches race, a row that
\* says "verified" is of an active bond, in strict mode one with a lock
\* reference, as long as the operators are careful.
THEOREM VerifiedBonds == Spec => []VerifiedIsBacked
  BY Invariance, PTL DEF Inv

----------------------------------------------------------------------------
(* Facts about one state *)

\* What the router asks of an anchor is at least what the policy rule asks.
LEMMA RouteImpliesPolicy == RoutedAnchorsPassPolicy
  BY DEF RoutedAnchorsPassPolicy, RouteAllows, CanServe, CanActivate, PolicyPasses

\* Whatever happens to an anchor and its bond, the router never offers it when
\* the policy rule would refuse it for the same rows.
THEOREM RoutedAnchorsPass == Spec => []RoutedAnchorsPassPolicy
  BY RouteImpliesPolicy, PTL

\* One iteration of the onboarding loop, status by status.
LEMMA OnwardCases ==
  ASSUME None \notin Statuses, NEW s \in Statuses, NEW fees \in Terms, NEW bond
  PROVE  /\ Onward(s, fees, bond) \in Statuses
         /\ s = "draft" => Onward(s, fees, bond) = IF fees = "none" THEN "draft" ELSE "commercial_defined"
         /\ s = "commercial_defined" =>
              Onward(s, fees, bond) = IF fees = "fee" THEN "bond_required" ELSE "commercial_defined"
         /\ s = "bond_required" =>
              Onward(s, fees, bond) = IF Unusable(bond) THEN "bond_required" ELSE "bond_pending_lock"
         /\ s = "bond_pending_lock" =>
              Onward(s, fees, bond) = IF CanActivate(Strict, fees, bond) THEN "active"
                                      ELSE IF Unusable(bond) THEN "bond_required" ELSE "bond_pending_lock"
         /\ s = "active" =>
              Onward(s, fees, bond) = IF Has(bond, "withdrawal_requested") THEN "withdrawal_requested" ELSE "active"
         /\ s = "withdrawal_requested" =>
              Onward(s, fees, bond) = IF Has(bond, "released") THEN "released"
                                      ELSE IF CanActivate(Strict, fees, bond) THEN "active" ELSE "withdrawal_requested"
         /\ s = "released" =>
              Onward(s, fees, bond) = IF fees # "fee" THEN "released"
                                      ELSE IF Unusable(bond) THEN "bond_required" ELSE "bond_pending_lock"
         /\ s = "suspended" => Onward(s, fees, bond) = "suspended"
  <1> DEFINE a == Advice(s, fees, bond)
  <1>1. Onward(s, fees, bond) = IF a # None /\ a \in AllowedNext[s] THEN a ELSE s
    BY DEF Onward, Follows, CanTransition
  <1>2. CanActivate(Strict, fees, bond) => ~Unusable(bond) /\ ~Has(bond, "released")
    BY DEF CanActivate, Unusable, Has
  <1>3. CASE s = "draft"
    <2>1. a = IF fees = "none" THEN None ELSE "commercial_defined"
      BY <1>3 DEF Advice, Terms
    <2>2. "commercial_defined" \in AllowedNext[s]
      BY <1>3 DEF AllowedNext, Statuses
    <2> HIDE DEF a
    <2> QED
      BY <1>1, <1>3, <2>1, <2>2 DEF Statuses, Terms
  <1>4. CASE s = "commercial_defined"
    <2>1. a = IF fees = "fee" THEN "bond_required" ELSE None
      BY <1>4 DEF Advice, Terms
    <2>2. "bond_required" \in AllowedNext[s]
      BY <1>4 DEF AllowedNext, Statuses
    <2> HIDE DEF a
    <2> QED
      BY <1>1, <1>4, <2>1, <2>2 DEF Statuses, Terms
  <1>5. CASE s = "bond_required"
    <2>1. a = IF Unusable(bond) THEN None ELSE "bond_pending_lock"
      BY <1>5 DEF Advice, Terms
    <2>2. "bond_pending_lock" \in AllowedNext[s]
      BY <1>5 DEF AllowedNext, Statuses
    <2> HIDE DEF a
    <2> QED
      BY <1>1, <1>5, <2>1, <2>2 DEF Statuses, Terms
  <1>6. CASE s = "bond_pending_lock"
    <2>1. a = IF CanActivate(Strict, fees, bond) THEN "active"
              ELSE IF Unusable(bond) THEN "bond_required" ELSE None
      BY <1>2, <1>6 DEF Advice
    <2>2. "active" \in AllowedNext[s] /\ "bond_required" \in AllowedNext[s]
      BY <1>6 DEF AllowedNext, Statuses
    <2> HIDE DEF a
    <2> QED
      BY <1>1, <1>6, <2>1, <2>2 DEF Statuses, Terms
  <1>7. CASE s = "active"
    <2>1. a = IF Has(bond, "withdrawal_requested") THEN "withdrawal_requested" ELSE None
      BY <1>7 DEF Advice, Terms
    <2>2. "withdrawal_requested" \in AllowedNext[s]
      BY <1>7 DEF AllowedNext, Statuses
    <2> HIDE DEF a
    <2> QED
      BY <1>1, <1>7, <2>1, <2>2 DEF Statuses, Terms
  <1>8. CASE s = "withdrawal_requested"
    <2>1. a = IF Has(bond, "released") THEN "released"
              ELSE IF CanActivate(Strict, fees, bond) THEN "active" ELSE None
      BY <1>2, <1>8 DEF Advice
    <2>2. "released" \in AllowedNext[s] /\ "active" \in AllowedNext[s]
      BY <1>8 DEF AllowedNext, Statuses
    <2> HIDE DEF a
    <2> QED
      BY <1>1, <1>8, <2>1, <2>2 DEF Statuses, Terms
  <1>9. CASE s = "released"
    <2>1. a = IF fees = "none" THEN None ELSE IF fees = "note" THEN "commercial_defined"
             ELSE IF Unusable(bond) THEN "bond_required" ELSE "bond_pending_lock"
      BY <1>9 DEF Advice, Terms
    <2>2. {"bond_required", "bond_pending_lock"} \subseteq AllowedNext[s] /\ "commercial_defined" \notin AllowedNext[s]
      BY <1>9 DEF AllowedNext, Statuses
    <2> HIDE DEF a
    <2> QED
      BY <1>1, <1>9, <2>1, <2>2 DEF Statuses, Terms
  <1>10. CASE s = "suspended"
    <2>1. a = None
      BY <1>10 DEF Advice, Terms
    <2> HIDE DEF a
    <2> QED
      BY <1>1, <1>10, <2>1 DEF Statuses, Terms
  <1> QED
    BY <1>3, <1>4, <1>5, <1>6, <1>7, <1>8, <1>9, <1>10 DEF Statuses

\* Five iterations take every anchor to where a sixth leaves it, and one that
\* can be activated and is not suspended to "active".
LEMMA FiveTurns ==
  ASSUME None \notin Statuses, NEW s0 \in Statuses, NEW fees \in Terms, NEW bond,
         NEW s1, s1 = Onward(s0, fees, bond), NEW s2, s2 = Onward(s1, fees, bond),
         NEW s3, s3 = Onward(s2, fees, bond), NEW s4, s4 = Onward(s3, fees, bond),
         NEW s5, s5 = Onward(s4, fees, bond)
  PROVE  /\ Onward(s5, fees, bond) = s5
         /\ CanActivate(Strict, fees, bond) /\ s0 # "suspended" => s5 = "active"
  <1>1. /\ CanActivate(Strict, fees, bond) =>
             /\ fees = "fee" /\ ~Unusable(bond)
             /\ ~Has(bond, "released") /\ ~Has(bond, "withdrawal_requested")
        /\ Has(bond, "released") => Unusable(bond)
    BY DEF CanActivate, Unusable, Has
  <1>2. /\ s1 \in Statuses /\ s2 \in Statuses /\ s3 \in Statuses
        /\ s4 \in Statuses /\ s5 \in Statuses
    BY OnwardCases
  <1> QED
    BY <1>1, <1>2, OnwardCases DEF Statuses

\* The iterations the definition of Reached counts are those of FiveTurns.
LEMMA ReachedInFive ==
  ASSUME NEW s1, s1 = Onward(status, terms, Latest), NEW s2, s2 = Onward(s1, terms, Latest),
         NEW s3, s3 = Onward(s2, terms, Latest), NEW s4, s4 = Onward(s3, terms, Latest),
         NEW s5, s5 = Onward(s4, terms, Latest)
  PROVE  Reached = s5
  <1> DEFINE turn(f) == [n \in 0..(MaxIterations - 1) |->
                           IF n = 0 THEN status ELSE Onward(f[n - 1], terms, Latest)]
             after == CHOOSE f : f = turn(f)
             g == [n \in 0..(MaxIterations - 1) |->
                     IF n = 0 THEN status ELSE IF n = 1 THEN s1 ELSE IF n = 2 THEN s2
                     ELSE IF n = 3 THEN s3 ELSE IF n = 4 THEN s4 ELSE s5]
  <1>1. g = turn(g)
    <2>1. ASSUME NEW n \in 0..(MaxIterations - 1)
          PROVE  g[n] = turn(g)[n]
      BY <2>1 DEF MaxIterations
    <2> QED
      BY <2>1
  <1>2. after = turn(after)
    <2> HIDE DEF turn, g
    <2> QED
      BY <1>1
  <1>3. /\ after[0] = status
        /\ \A n \in 1..5 : after[n] = Onward(after[n - 1], terms, Latest)
    <2> HIDE DEF after
    <2>1. ASSUME NEW n \in 0..5
          PROVE  after[n] = IF n = 0 THEN status ELSE Onward(after[n - 1], terms, Latest)
      <3>1. after[n] = turn(after)[n]
        BY <1>2
      <3> QED
        BY <3>1 DEF MaxIterations
    <2> QED
      BY <2>1
  <1>4. Reached = after[5]
    BY DEF Reached, MaxIterations
  <1> HIDE DEF after
  <1> QED
    BY <1>3, <1>4

\* The onboarding loop is never cut short by its iteration limit, and takes an
\* anchor that may be activated to "active" unless it is suspended.
THEOREM OnboardingCompletes ==
  ASSUME None \notin Statuses
  PROVE  Spec => []OnboardingSettles
  <1>1. TypeOK => OnboardingSettles
    BY ReachedInFive, FiveTurns DEF TypeOK, OnboardingSettles
  <1> QED
    BY <1>1, AnchorTypes, PTL
=============================================================================
