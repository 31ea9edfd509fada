---------------------------- MODULE NativeSession ----------------------------
(***************************************************************************)
(* GGIDClient of the React Native SDK (sdk/react-native/src/client.ts).    *)
(* Each caller is an operation of the application on the client: login(),  *)
(* logout(), or one of those that begin with getSession() (hasRole,        *)
(* getAuthHeader, checkPermission).  They share the session in SecureStore *)
(* and run concurrently: every store access and every request is awaited.  *)
(*                                                                         *)
(* getSession() and logout() call each other: getSession() gives up an     *)
(* expired session by calling logout(), and logout() begins by calling     *)
(* getSession().  depth[c] counts the logout() frames on the stack of c,   *)
(* each of which deletes the session when it is resumed.                   *)
(***************************************************************************)
EXTENDS TokenEndpoint

CONSTANT MaxDepth  \* bound: MaxDepth stands for that many logout frames or more

VARIABLES
  session,  \* what SecureStore holds under ggid_session
  pc,       \* the next step of each operation
  depth     \* logout() frames of each operation

nativeVars == <<session, pc, depth>>

NoSession == [here |-> FALSE, tok |-> NoToken, past |-> FALSE]
Session == [here: {TRUE}, tok: Token \cup {NoToken}, past: BOOLEAN] \cup {NoSession}
Steps == {"idle", "login", "logout", "read", "refresh", "revoke", "delete"}

NativeTypeOK ==
  /\ session \in Session
  /\ pc \in [Callers -> Steps]
  /\ depth \in [Callers -> 0..MaxDepth]
  /\ \A c \in Callers : pc[c] = "refresh" <=> exch[c] # NoExchange

NativeInit ==
  /\ session = NoSession
  /\ pc = [c \in Callers |-> "idle"]
  /\ depth = [c \in Callers |-> 0]

Goto(c, step) == pc' = [pc EXCEPT ![c] = step]
NewSession(t) == [here |-> TRUE, tok |-> t, past |-> FALSE]

\* getSession() returns to the application, or to the logout() that called it:
\* that one revokes the access token of a session and deletes.
ReturnSession(c) == Goto(c, IF depth[c] = 0 THEN "idle" ELSE "revoke")
ReturnNull(c) == Goto(c, IF depth[c] = 0 THEN "idle" ELSE "delete")

CallLogout(c) ==
  /\ Goto(c, "logout")
  /\ depth' = [depth EXCEPT ![c] = IF @ < MaxDepth THEN @ + 1 ELSE @]

-----------------------------------------------------------------------------
StartGet(c) ==
  /\ pc[c] = "idle"
  /\ Goto(c, "read")
  /\ UNCHANGED <<endpointVars, session, depth>>

StartLogout(c) ==
  /\ pc[c] = "idle"
  /\ CallLogout(c)
  /\ UNCHANGED <<endpointVars, session>>

StartLogin(c) ==
  /\ pc[c] = "idle"
  /\ Goto(c, "login")
  /\ UNCHANGED <<endpointVars, session, depth>>

\* The prompt was dismissed, or the code exchange gave no token.
LoginCancelled(c) ==
  /\ pc[c] = "login"
  /\ Goto(c, "idle")
  /\ UNCHANGED <<endpointVars, session, depth>>

LoginSaved(c, f) ==
  /\ pc[c] = "login"
  /\ Grant(f)
  /\ session' = NewSession(First(f))
  /\ Goto(c, "idle")
  /\ UNCHANGED depth

\* The scopes of the request may yield no refresh token.
LoginSavedBare(c) ==
  /\ pc[c] = "login"
  /\ session' = NewSession(NoToken)
  /\ Goto(c, "idle")
  /\ UNCHANGED <<endpointVars, depth>>

\* logout() begins with getSession().
EnterLogout(c) ==
  /\ pc[c] = "logout"
  /\ Goto(c, "read")
  /\ UNCHANGED <<endpointVars, session, depth>>

\* The first await of getSession(): no session, one that is still valid, one
\* that has expired and can be refreshed, one that can not.
ReadNone(c) ==
  /\ pc[c] = "read" /\ ~session.here
  /\ ReturnNull(c)
  /\ UNCHANGED <<endpointVars, session, depth>>

ReadValid(c) ==
  /\ pc[c] = "read" /\ session.here /\ ~session.past
  /\ ReturnSession(c)
  /\ UNCHANGED <<endpointVars, session, depth>>

ReadExpired(c) ==
  /\ pc[c] = "read" /\ session.past /\ session.tok # NoToken
  /\ Ask(c, session.tok)
  /\ Goto(c, "refresh")
  /\ UNCHANGED <<session, depth>>

ReadLost(c) ==
  /\ pc[c] = "read" /\ session.past /\ session.tok = NoToken
  /\ CallLogout(c)
  /\ UNCHANGED <<endpointVars, session>>

\* Faulty variant: data.refresh_token is ignored and the old one kept.
RefreshSaved_OldToken(c) ==
  /\ Take(c)
  /\ session' = NewSession(exch[c].tok)
  /\ ReturnSession(c)
  /\ UNCHANGED depth

\* refreshToken(): the session is saved once the user info was asked for.
RefreshSaved(c) ==
  /\ Take(c)
  /\ session' = NewSession(Succ(exch[c].tok))
  /\ ReturnSession(c)
  /\ UNCHANGED depth

\* Refused or failed: getSession() calls logout().
RefreshNull(c) ==
  /\ exch[c] # NoExchange
  /\ Drop({c})
  /\ CallLogout(c)
  /\ UNCHANGED session

\* logout() goes on: the best-effort revocation of the access token, after which
\* the server may refuse the family's tokens, and the deletion.
RevokeAccess(c) ==
  /\ pc[c] = "revoke"
  /\ Goto(c, "delete")
  /\ UNCHANGED <<endpointVars, session, depth>>

\* The getSession() that called this logout() returns null to its own caller.
DeleteSession(c) ==
  /\ pc[c] = "delete"
  /\ session' = NoSession
  /\ depth' = [depth EXCEPT ![c] = @ - 1]
  /\ Goto(c, IF depth[c] = 1 THEN "idle" ELSE "delete")
  /\ UNCHANGED endpointVars

\* expiresAt passes.
Expire ==
  /\ session.here /\ ~session.past
  /\ session' = [session EXCEPT !.past = TRUE]
  /\ UNCHANGED <<endpointVars, pc, depth>>

\* The application is killed and started again: SecureStore persists.
Restart ==
  /\ Drop(Callers)
  /\ pc' = [c \in Callers |-> "idle"]
  /\ depth' = [c \in Callers |-> 0]
  /\ UNCHANGED session

RefreshReply(c) == RefreshSaved(c) \/ RefreshNull(c)

Continue(c) ==
  \/ EnterLogout(c) \/ ReadNone(c) \/ ReadValid(c) \/ ReadExpired(c) \/ ReadLost(c)
  \/ RefreshReply(c) \/ RevokeAccess(c) \/ DeleteSession(c)

NativeStep ==
  \/ \E c \in Callers :
       \/ StartGet(c) \/ StartLogout(c) \/ StartLogin(c) \/ LoginCancelled(c)
       \/ LoginSavedBare(c) \/ Continue(c)
       \/ \E f \in Families : LoginSaved(c, f)
  \/ Expire \/ Restart

-----------------------------------------------------------------------------
\* Logging out clears the session: an operation that is inside logout()
\* comes to its end.
LogoutEnds == \A c \in Callers : depth[c] > 0 ~> depth[c] = 0
=============================================================================
