------------------------------ MODULE MCClients ------------------------------
(* Clients for TLC: two API calls in one tab of the console, two providers, *)
(* or two operations of the native client.                                  *)
EXTENDS Clients, TLC

CONSTANTS t1, c1, c2, f1

MCTabs == {t1}
MCCallers == {c1, c2}
MCFamilies == {f1}
MCMaxGen == f1 :> 2
MCTabOf == c1 :> t1 @@ c2 :> t1

\* The callers of a kind are interchangeable: fairness and the end of every
\* refresh are stated of one of them.
MCSpec == Spec /\ WF_vars(Settle(c1))

\* Clients' RefreshEnds: no refresh of a client is under way for ever.
RefreshesEnd == RefreshEnds(c1)
=============================================================================
