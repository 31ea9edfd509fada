------------------------- MODULE MCAuthorizationCode -------------------------
(***************************************************************************)
(* A small instance of AuthorizationCode for TLC: a public client c1 and a *)
(* confidential one c2 that share a redirect URI r1.                       *)
(***************************************************************************)
EXTENDS AuthorizationCode, TLC

CONSTANTS c1, c2, r1, r2, MaxChanges

MCClients    == {c1, c2}
MCRegistered == (c1 :> {r1}) @@ (c2 :> {r1})
MCSymmetry   == Permutations(Requests) \cup Permutations(Codes)

\* At most MaxChanges of clients not enabled, codes past their expiry or removed
\* and store failures; a request gets at most one parameter wrong.
Wrong(p) == LET g == rec[Code(p)]
            IN {i \in 1..3 : <<g.client # arg[p].client, g.uri # arg[p].uri,
                               g.challenge \notin {None, arg[p].verifier}>>[i]}
MCBound == /\ Cardinality(Clients \ enabled) + faults
                + Cardinality(expired \cup {g \in Codes : status[g] = "gone"}) <= MaxChanges
           /\ \A p \in Requests : arg[p] # None => Cardinality(Wrong(p)) <= 1
=============================================================================
