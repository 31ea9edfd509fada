----------------------------- MODULE TokenClient -----------------------------
(***************************************************************************)
(* What the console, the React provider and the React Native client have   *)
(* in common: several callers share one storage cell for the refresh       *)
(* token, present what is in the cell, and put what they are handed back   *)
(* into it.  The three clients implement this specification; what is shown *)
(* here of it holds for each of them.                                      *)
(***************************************************************************)
EXTENDS TokenEndpoint

VARIABLE stored  \* the refresh token in the shared storage, or NoToken

vars == <<endpointVars, stored>>

TypeOK ==
  /\ EndpointTypeOK
  /\ stored \in Token \cup {NoToken}

Init == EndpointInit /\ stored = NoToken

SignIn(f) == Grant(f) /\ stored' = First(f)

Present(c) == stored # NoToken /\ Ask(c, stored) /\ UNCHANGED stored

Save(c) == Take(c) /\ stored' = Succ(exch[c].tok)

\* Some callers stop waiting, the storage is cleared, or both at once.
GiveUp(C) == Drop(C) /\ stored' \in {stored, NoToken}

Next ==
  \/ ServerStep /\ UNCHANGED stored
  \/ \E f \in Families : SignIn(f)
  \/ \E c \in Callers : Present(c) \/ Save(c)
  \/ \E C \in SUBSET Callers : GiveUp(C)

Spec == Init /\ [][Next]_vars

-----------------------------------------------------------------------------
(* A stored token that the server has already replaced is explained: its   *)
(* successor is on its way to a caller, or a request or an answer of the   *)
(* family was lost.  A client whose storage fell behind for any other      *)
(* reason would present the old token at its next refresh and lose the     *)
(* session to reuse detection.                                             *)
StoredTokenLive ==
  stored # NoToken =>
    \/ stored.n = gen[stored.fam]
    \/ stored.fam \in lost
    \/ \E c \in Callers : exch[c].st = "granted" /\ exch[c].tok = stored

\* Reuse detection never hits a client that refreshes one call at a time over
\* a network that delivers: a family is revoked for reuse only if two callers
\* presented one token at once, or a request or an answer was lost.
ReuseHasCause == revoked \subseteq raced \cup lost

\* The storage never falls back to an older token of the same login, whatever
\* the order in which the answers arrive.
NoRollback ==
  [][(stored # NoToken /\ stored' # NoToken /\ stored'.fam = stored.fam)
       => stored'.n >= stored.n]_vars
=============================================================================
