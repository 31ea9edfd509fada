-------------------------- MODULE MCRefreshRotation --------------------------
(***************************************************************************)
(* A small instance of RefreshRotation for TLC: two concurrent requests,   *)
(* two clients of one tenant, and a user of that tenant (u1) and of        *)
(* another (u2, who only has first-party logins here).                     *)
(***************************************************************************)
EXTENDS RefreshRotation, FiniteSets, TLC

CONSTANTS c1, c2, u1, u2, t1, t2, MaxLoad, MaxRoots

MCClients  == {c1, c2}
MCUsers    == {u1, u2}
MCTenantOf == (c1 :> t1) @@ (c2 :> t1) @@ (u1 :> t1) @@ (u2 :> t2)

\* Requests, ids (any of which may be a row from before the migration) and the
\* two clients are interchangeable.
MCSymmetry == Permutations(Requests) \cup Permutations(Tokens) \cup Permutations(MCClients)

\* What the exploration is bounded by: at any time at most MaxLoad of ids drawn,
\* store failures so far and changes in the world (a client not enabled, a user
\* not active, a token past its expiry, or deleted although its user is there),
\* at most one failure, change or row from before the migration, and at most
\* MaxRoots tokens that do not come from a rotation.  A deleted client or
\* account does not come back.
Touched(t) == \/ t \in expired
              \/ status[t] = "deleted" /\ rec[t].user \in activeUsers
Changes == Cardinality(Clients \ enabled) + Cardinality(Users \ activeUsers)
             + Cardinality({t \in Tokens : Touched(t)})
Drawn   == {t \in Tokens : status[t] # "absent"}
Old     == {t \in Drawn : rec[t].family = None /\ rec[t].client # None}
MCBound == /\ Cardinality(Drawn) + Changes + faults <= MaxLoad
           /\ Changes + faults + Cardinality(Old) <= 1
           /\ \A t \in revokedAt : rec[t].user \notin activeUsers \/ rec[t].client \notin enabled
           /\ Cardinality({t \in Drawn : parent[t] = None}) <= MaxRoots
=============================================================================
