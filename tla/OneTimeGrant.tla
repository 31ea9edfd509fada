---------------------------- MODULE OneTimeGrant ----------------------------
(***************************************************************************)
(* What a one-time credential of the OAuth service promises: it is opened  *)
(* once, spent at most once, answered with tokens at most once, and once   *)
(* closed (answered, refused, expired or deleted) it stays closed.  How    *)
(* the stores, the handlers and the clock bring this about is not said.    *)
(***************************************************************************)
CONSTANTS Grants, Receivers

VARIABLES
  phase,  \* where each grant is
  got     \* who was given tokens for each grant

vars == <<phase, got>>

Phases == {"none", "open", "spent", "closed"}

Init == /\ phase = [g \in Grants |-> "none"]
        /\ got = [g \in Grants |-> {}]

Move(g, from, to) == phase[g] \in from /\ phase' = [phase EXCEPT ![g] = to]

Open(g)       == Move(g, {"none"}, "open") /\ UNCHANGED got
Spend(g)      == Move(g, {"open"}, "spent") /\ UNCHANGED got
Deliver(g, r) == Move(g, {"spent"}, "closed") /\ got' = [got EXCEPT ![g] = @ \cup {r}]
Void(g)       == Move(g, {"open", "spent"}, "closed") /\ UNCHANGED got

\* A deletion closes several grants at once.
VoidAll(S) == /\ \A g \in S : phase[g] = "open"
              /\ phase' = [g \in Grants |-> IF g \in S THEN "closed" ELSE phase[g]]
              /\ UNCHANGED got

Next == \/ \E g \in Grants : Open(g) \/ Spend(g) \/ Void(g) \/ \E r \in Receivers : Deliver(g, r)
        \/ \E S \in SUBSET Grants : VoidAll(S)

Spec == Init /\ [][Next]_vars

\* Nobody else gets tokens for a grant that was answered.
AnsweredOnce == \A g \in Grants : \A r1, r2 \in got[g] : r1 = r2
=============================================================================
