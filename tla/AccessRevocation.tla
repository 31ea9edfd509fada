-------------------------- MODULE AccessRevocation --------------------------
(***************************************************************************)
(* How the access tokens of one user are taken out of use before they      *)
(* expire.  The gateway refuses a token whose jti is in the Redis set      *)
(* ggid:revoked_jti (CAECheck).  RevokeUser of the Auth service finds the  *)
(* jtis to put there in the table sessions, where the password grant of    *)
(* the OAuth service inserts a row for every token it has signed; the      *)
(* other grants insert none.  Logging out, ending one session and the      *)
(* policy sweep write that table too, and do not know of the set.          *)
(*                                                                         *)
(* An action is one call to PostgreSQL or Redis.  Users share neither rows *)
(* nor jtis, so one user is enough.  What RevokeUser does to refresh       *)
(* tokens is in RefreshRotation, its audit event in AuditChain.            *)
(***************************************************************************)
CONSTANTS
  Jtis,      \* access tokens, one jti each
  Revokers   \* RevokeUser calls being served

VARIABLES
  token,      \* "none", "signed" by a grant under way, "out", "expired"
  session,    \* the sessions row of the token: "none", "active", "revoked", "gone"
  blocklist,  \* members of ggid:revoked_jti
  revoking,   \* RevokeUser calls between listing and revoking
  todo,       \* the jtis each of them has listed and not tried yet
  held,       \* history: the tokens that were out when it began
  marking,    \* RevokeToken calls between ZADD and the UPDATE of sessions
  promised,   \* history: tokens that were out when a RevokeUser call began that has returned
  excuse      \* history: what first kept a token from being found or blocked

accessVars == <<token, session, blocklist, revoking, todo, held, marking, promised, excuse>>

AccessTypeOK ==
  /\ token \in [Jtis -> {"none", "signed", "out", "expired"}]
  /\ session \in [Jtis -> {"none", "active", "revoked", "gone"}]
  /\ \A j \in Jtis : token[j] \in {"none", "signed"} => session[j] = "none"
  /\ blocklist \subseteq Jtis
  /\ revoking \subseteq Revokers
  /\ todo \in [Revokers -> SUBSET Jtis] /\ held \in [Revokers -> SUBSET Jtis]
  /\ marking \subseteq Jtis
  /\ promised \subseteq Jtis
  /\ excuse \in [Jtis -> {"none", "call failed", "ended elsewhere", "login overlapped"}]

AccessInit ==
  /\ token = [j \in Jtis |-> "none"]
  /\ session = [j \in Jtis |-> "none"]
  /\ blocklist = {}
  /\ revoking = {}
  /\ todo = [r \in Revokers |-> {}] /\ held = [r \in Revokers |-> {}]
  /\ marking = {}
  /\ promised = {}
  /\ excuse = [j \in Jtis |-> "none"]

ActiveSessions == {j \in Jtis : session[j] = "active"}
SetSessions(S, what) == [j \in Jtis |-> IF j \in S THEN what ELSE session[j]]
Excuse(S, why) == [j \in Jtis |-> IF j \in S /\ excuse[j] = "none" THEN why ELSE excuse[j]]

-----------------------------------------------------------------------------
(* Grants. *)

\* Faulty variant: the row is inserted first, for a token that may never be out.
SignToken_RowFirst(j) ==
  /\ token[j] = "none"
  /\ token' = [token EXCEPT ![j] = "signed"]
  /\ session' = [session EXCEPT ![j] = "active"]
  /\ UNCHANGED <<blocklist, revoking, todo, held, marking, promised, excuse>>

SignToken(j) ==
  /\ token[j] = "none"
  /\ token' = [token EXCEPT ![j] = "signed"]
  /\ UNCHANGED <<session, blocklist, revoking, todo, held, marking, promised, excuse>>

\* The password grant's last call before its answer.  An error is only logged.
InsertSession(j) ==
  /\ token[j] = "signed"
  /\ token' = [token EXCEPT ![j] = "out"]
  /\ \/ /\ session' = [session EXCEPT ![j] = "active"]
        /\ excuse' = IF revoking # {}
                     THEN Excuse({j}, "login overlapped") ELSE excuse
     \/ UNCHANGED <<session, excuse>>
  /\ UNCHANGED <<blocklist, revoking, todo, held, marking, promised>>

\* A token of a code, a refresh token or a device code: no row is inserted.
IssueUntracked(j) ==
  /\ token[j] = "none"
  /\ token' = [token EXCEPT ![j] = "out"]
  /\ UNCHANGED <<session, blocklist, revoking, todo, held, marking, promised, excuse>>

ExpireToken(j) ==
  /\ token[j] = "out"
  /\ token' = [token EXCEPT ![j] = "expired"]
  /\ UNCHANGED <<session, blocklist, revoking, todo, held, marking, promised, excuse>>

-----------------------------------------------------------------------------
(* RevokeUser. *)

\* ListActiveJTIForUser.  If the query fails the call goes on with no jti.
ListActiveJTI(r) ==
  /\ r \notin revoking
  /\ revoking' = revoking \cup {r}
  /\ \/ todo' = [todo EXCEPT ![r] = ActiveSessions] /\ UNCHANGED excuse
     \/ todo' = [todo EXCEPT ![r] = {}] /\ excuse' = Excuse(ActiveSessions, "call failed")
  /\ held' = [held EXCEPT ![r] = {j \in Jtis : token[j] = "out"}]
  /\ UNCHANGED <<token, session, blocklist, marking, promised>>

\* Faulty variant: the first ZADD that fails ends the loop.
BlockJTI_Break(r, j) ==
  /\ r \in revoking /\ j \in todo[r]
  /\ \/ /\ blocklist' = blocklist \cup {j}
        /\ todo' = [todo EXCEPT ![r] = @ \ {j}]
        /\ UNCHANGED excuse
     \/ /\ todo' = [todo EXCEPT ![r] = {}]
        /\ excuse' = Excuse({j}, "call failed")
        /\ UNCHANGED blocklist
  /\ UNCHANGED <<token, session, revoking, held, marking, promised>>

\* One round of the loop over the listed jtis: the ZADD succeeds, or its error is
\* logged and the loop goes on.
BlockJTI(r, j) ==
  /\ r \in revoking /\ j \in todo[r]
  /\ todo' = [todo EXCEPT ![r] = @ \ {j}]
  /\ \/ blocklist' = blocklist \cup {j} /\ UNCHANGED excuse
     \/ UNCHANGED blocklist /\ excuse' = Excuse({j}, "call failed")
  /\ UNCHANGED <<token, session, revoking, held, marking, promised>>

ReturnFrom(r) ==
  /\ revoking' = revoking \ {r}
  /\ todo' = [todo EXCEPT ![r] = {}]
  /\ held' = [held EXCEPT ![r] = {}]

\* RevokeAllForUser, whose error is only logged.  It reaches every row that is
\* active now, the ones inserted since the list was read too.
RevokeSessions(r) ==
  /\ r \in revoking /\ todo[r] = {}
  /\ session' \in {session, SetSessions(ActiveSessions, "revoked")}
  /\ promised' = promised \cup held[r]
  /\ ReturnFrom(r)
  /\ UNCHANGED <<token, blocklist, marking, excuse>>

\* The process stops or the handler panics.
AbandonRevoke(r) ==
  /\ r \in revoking
  /\ ReturnFrom(r)
  /\ UNCHANGED <<token, session, blocklist, marking, promised, excuse>>

-----------------------------------------------------------------------------
(* RevokeToken of the OAuth service, for an access token. *)

\* ZADD; its error is not looked at.
BlockAccess(j) ==
  /\ token[j] = "out" /\ j \notin marking
  /\ marking' = marking \cup {j}
  /\ \/ blocklist' = blocklist \cup {j} /\ UNCHANGED excuse
     \/ UNCHANGED blocklist /\ excuse' = Excuse({j}, "call failed")
  /\ UNCHANGED <<token, session, revoking, todo, held, promised>>

\* The UPDATE of sessions, which may fail as well.
MarkRevoked(j) ==
  /\ j \in marking
  /\ marking' = marking \ {j}
  /\ session' \in {session, SetSessions({j} \cap ActiveSessions, "revoked")}
  /\ UNCHANGED <<token, blocklist, revoking, todo, held, promised, excuse>>

-----------------------------------------------------------------------------
(* Everything else that ends sessions, and the clean-ups. *)

EndSessions(S, what) ==
  /\ session' = SetSessions(S, what)
  /\ excuse' = Excuse(S, "ended elsewhere")
  /\ UNCHANGED <<token, blocklist, revoking, todo, held, marking, promised>>

\* LogoutAll, changing or resetting a password, deleting the account.
LogoutAll == ActiveSessions # {} /\ EndSessions(ActiveSessions, "revoked")

\* A user or an administrator ends one session.  ForceLogout does so for one
\* after another.
RevokeSession(j) == session[j] = "active" /\ EndSessions({j}, "revoked")

\* The policy sweep (StartCAEScanner) deletes the row of a session it denies.
SweepSession(j) == session[j] = "active" /\ EndSessions({j}, "gone")

\* The hourly clean-up: tokens live fifteen minutes, and a row is deleted seven
\* days after it expired or was revoked.
PurgeSession(j) ==
  /\ token[j] = "expired" /\ session[j] \in {"active", "revoked"}
  /\ session' = [session EXCEPT ![j] = "gone"]
  /\ UNCHANGED <<token, blocklist, revoking, todo, held, marking, promised, excuse>>

\* CleanupExpired: the score of an entry is the expiry of its token, or later.
EvictJTI(j) ==
  /\ j \in blocklist /\ token[j] = "expired"
  /\ blocklist' = blocklist \ {j}
  /\ UNCHANGED <<token, session, revoking, todo, held, marking, promised, excuse>>

-----------------------------------------------------------------------------
AccessNext ==
  \/ \E j \in Jtis : SignToken(j) \/ InsertSession(j) \/ IssueUntracked(j) \/ ExpireToken(j)
  \/ \E r \in Revokers : ListActiveJTI(r) \/ RevokeSessions(r) \/ AbandonRevoke(r)
  \/ \E r \in Revokers, j \in Jtis : BlockJTI(r, j)
  \/ \E j \in Jtis : BlockAccess(j) \/ MarkRevoked(j) \/ RevokeSession(j) \/ SweepSession(j)
  \/ LogoutAll
  \/ \E j \in Jtis : PurgeSession(j) \/ EvictJTI(j)

AccessSpec == AccessInit /\ [][AccessNext]_accessVars

-----------------------------------------------------------------------------
\* What the gateway lets pass: a failing look-up counts as revoked.
Accepted(j) == token[j] = "out" /\ j \notin blocklist

\* A token that was in use when RevokeUser was called is refused once the call
\* has returned.  The exceptions are these and no others: the token never had
\* a sessions row; a call to a store failed for it; its session was ended
\* before by something that does not fill the set; or its row was inserted
\* while a RevokeUser call was between listing and revoking, which revokes the
\* row and hides the token from that call and from every later one.
RevocationExplained ==
  \A j \in promised : Accepted(j) => session[j] = "none" \/ excuse[j] # "none"

=============================================================================
