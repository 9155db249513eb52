---------------------------- MODULE Authorization ----------------------------
(***************************************************************************)
(* authorizeRequest of the API: a bearer token that is verified when a     *)
(* verifier is configured, the admin bypass token, the legacy ops key; and *)
(* the OIDC discovery that concurrent requests share through a cache of    *)
(* its promise.  An entry of the cache is the number of a fetch.           *)
(***************************************************************************)
EXTENDS Naturals, Sequences

CONSTANTS
  Requests,      \* requests in progress at a time
  Environments,  \* configurations of the process
  Callers,       \* what a request may carry
  MaxFetches,    \* bound: discovery requests sent
  None

AuthorizationAssumption == MaxFetches \in Nat /\ None \notin Nat

VARIABLES
  env,      \* the configuration
  cache,    \* oidcDiscoveryCache: the fetch its entry stands for, or None
  fetches,  \* outcome of the discovery requests sent so far
  request   \* where each request stands

vars == <<env, cache, fetches, request>>

----------------------------------------------------------------------------
(* Roles and credentials *)

Rank == [viewer |-> 1, operator |-> 2, admin |-> 3]
Roles == DOMAIN Rank

\* Some role of the caller ranks at least as high as the required one.
HasRequiredRole(roles, required) == \E r \in roles : Rank[r] >= Rank[required]

Verdict(roles, required) ==
  IF HasRequiredRole(roles, required) THEN "granted" ELSE "forbidden"

\* Header of its own, or else the authorization header.
TokenOf(header, caller) == IF header # None THEN header ELSE caller.authorization

AdminBypassAllowed(e) == ~e.production \/ e.allowBypass
LegacyOpsKeyAllowed(e) == ~e.production \/ e.allowOpsKey

\* The answer once the verifier is there.  A token that is not a valid JWT is
\* refused without a look at the keys.
Authorize(e, caller, required, bypass) ==
  IF e.verifier # "none" /\ caller.authorization # None
  THEN IF caller.authorization = "jwt" THEN Verdict(caller.roles, required)
       ELSE "unauthorized"
  ELSE IF bypass /\ AdminBypassAllowed(e) /\ TokenOf(caller.adminHeader, caller) = "admin"
  THEN "granted"
  ELSE IF LegacyOpsKeyAllowed(e) /\ TokenOf(caller.opsHeader, caller) = "ops"
  THEN Verdict({e.opsRole}, required)
  ELSE "unauthorized"

----------------------------------------------------------------------------
(* Requests *)

Idle == [pc |-> "idle", caller |-> None, required |-> "viewer", bypass |-> FALSE,
         fetch |-> None]

Init ==
  /\ env \in Environments
  /\ cache = None
  /\ fetches = <<>>
  /\ request = [q \in Requests |-> Idle]

At(q, where) == request[q].pc = where

\* Only admin routes accept the bypass token.
Arrive(q, caller, required, bypass) ==
  /\ At(q, "idle") /\ (bypass => required = "admin")
  /\ request' = [request EXCEPT ![q] = [pc |-> "verify", caller |-> caller,
                                        required |-> required, bypass |-> bypass,
                                        fetch |-> None]]
  /\ UNCHANGED <<env, cache, fetches>>

Answered(q, kind) == request' = [request EXCEPT ![q] = [Idle EXCEPT !.pc = kind]]
AnswerOf(q) ==
  Authorize(env, request[q].caller, request[q].required, request[q].bypass)

\* A secret, a public key, a JWKS or no verifier at all needs no discovery.
LocalAnswer(q) ==
  /\ At(q, "verify") /\ env.verifier # "oidc"
  /\ Answered(q, AnswerOf(q))
  /\ UNCHANGED <<env, cache, fetches>>

\* Whatever the request carries, discovery comes first.
StartDiscovery(q) ==
  /\ At(q, "verify") /\ env.verifier = "oidc" /\ cache = None
  /\ Len(fetches) < MaxFetches
  /\ fetches' = Append(fetches, "pending")
  /\ cache' = Len(fetches')
  /\ request' = [request EXCEPT ![q].pc = "await", ![q].fetch = Len(fetches')]
  /\ UNCHANGED env

JoinDiscovery(q) ==
  /\ At(q, "verify") /\ env.verifier = "oidc" /\ cache # None
  /\ request' = [request EXCEPT ![q].pc = "await", ![q].fetch = cache]
  /\ UNCHANGED <<env, cache, fetches>>

\* The document arrives, or the identity provider fails or times out.
FetchEnds(f, outcome) ==
  /\ f \in DOMAIN fetches /\ fetches[f] = "pending"
  /\ fetches' = [fetches EXCEPT ![f] = outcome]
  /\ UNCHANGED <<env, cache, request>>

Discovered(q) ==
  /\ At(q, "await") /\ fetches[request[q].fetch] = "ok"
  /\ Answered(q, AnswerOf(q))
  /\ UNCHANGED <<env, cache, fetches>>

\* Mutant of AfterFailure: the rejected promise stays.
KeptAfterFailure == cache

\* Each request that waited deletes the entry, even one that stands for a newer
\* fetch by now.
AfterFailure == None
DiscoveryFails(q) ==
  /\ At(q, "await") /\ fetches[request[q].fetch] = "failed"
  /\ cache' = AfterFailure
  /\ Answered(q, "unauthorized")
  /\ UNCHANGED <<env, fetches>>

Leave(q) ==
  /\ request[q].pc \in {"granted", "forbidden", "unauthorized"}
  /\ request' = [request EXCEPT ![q] = Idle]
  /\ UNCHANGED <<env, cache, fetches>>

Next ==
  \/ \E q \in Requests :
       \/ \E c \in Callers, r \in Roles, b \in BOOLEAN : Arrive(q, c, r, b)
       \/ LocalAnswer(q) \/ StartDiscovery(q) \/ JoinDiscovery(q)
       \/ Discovered(q) \/ DiscoveryFails(q) \/ Leave(q)
  \/ \E f \in 1..MaxFetches, outcome \in {"ok", "failed"} : FetchEnds(f, outcome)

Spec == Init /\ [][Next]_vars

----------------------------------------------------------------------------
(* Properties *)

Places == {"idle", "verify", "await", "granted", "forbidden", "unauthorized"}

\* Requests that wait for one of the fetches in F, or for none.
RequestsOver(F) ==
  [Requests -> [pc : Places, caller : Callers \cup {None}, required : Roles,
                bypass : BOOLEAN, fetch : F \cup {None}]]

\* Type invariant.
TypeOK ==
  /\ env \in Environments
  /\ fetches \in Seq({"pending", "ok", "failed"}) /\ Len(fetches) <= MaxFetches
  /\ cache \in DOMAIN fetches \cup {None}
  /\ request \in RequestsOver(DOMAIN fetches)

\* The promise of a failed discovery does not stay in the cache to fail every later
\* request: while it is there, a request that waited for it has still to delete it.
FailureIsNotKept ==
  (cache # None /\ fetches[cache] = "failed")
    => \E q \in Requests : At(q, "await") /\ request[q].fetch = cache

\* FailureIsNotKept, made inductive: an entry that is not known to be good is awaited
\* by a request, which deletes it if it turns out to have failed.
EntryIsAwaited ==
  (cache # None /\ fetches[cache] # "ok")
    => \E q \in Requests : At(q, "await") /\ request[q].fetch = cache

IInv == TypeOK /\ EntryIsAwaited
=============================================================================
