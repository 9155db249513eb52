----------------------------- MODULE Lifecycle -----------------------------
(***************************************************************************)
(* The status column of an execution intent and the table of its legal     *)
(* transitions (packages/types/src/schemas/lifecycle.ts).                  *)
(***************************************************************************)

Statuses ==
  {"created", "quoted", "routed", "policy_checked", "executed", "failed", "held"}

AllowedNext ==
  [s \in Statuses |->
     CASE s = "created"        -> {"quoted", "held", "failed"}
       [] s = "quoted"         -> {"routed", "held", "failed"}
       [] s = "routed"         -> {"policy_checked", "held", "failed"}
       [] s = "policy_checked" -> {"executed", "held", "failed"}
       [] s = "executed"       -> {"failed"}
       [] s = "failed"         -> {}
       [] s = "held"           -> Statuses \ {"held"}]

\* The code treats a status outside the enumeration like "held"; every writer
\* of the column writes a member of the enumeration, so that branch is dead.
CanTransition(from, to) == to \in AllowedNext[from]
=============================================================================
