------------------------------- MODULE Clients -------------------------------
(***************************************************************************)
(* The three TypeScript clients against the token endpoint.  An execution  *)
(* is one of an installation: several tabs of the console, several tabs of *)
(* an application with a GGIDProvider, or several operations of a native   *)
(* application, whichever kind Init chooses.  The endpoint's steps and the *)
(* client's interleave, and each client is shown to implement TokenClient. *)
(***************************************************************************)
EXTENDS TokenEndpoint

CONSTANTS
  Kinds,      \* the clients looked at
  Bare,       \* ConsoleSession: an access token that came without a refresh token
  MaxChecks,  \* ConsoleSession: AuthGuard verifications of one tab under way
  MaxDepth    \* NativeSession: logout frames that are told apart

ASSUME KindsAssumption ==
  /\ Kinds \subseteq {"console", "react", "native"}
  /\ Bare \notin Token \cup {NoToken}
  /\ MaxChecks \in Nat \ {0} /\ MaxDepth \in Nat \ {0}

VARIABLES
  kind,
  store, page, leaving, checked, authed, status, verify, login, job,
  cell, mem, auth, armed, profile, stranded,
  session, pc, depth

Console == INSTANCE ConsoleSession
React == INSTANCE ReactSession
Native == INSTANCE NativeSession

consoleVars == <<store, page, leaving, checked, authed, status, verify, login, job>>
reactVars == <<cell, mem, auth, armed, profile, stranded>>
nativeVars == <<session, pc, depth>>
clientVars == <<kind, consoleVars, reactVars, nativeVars>>
vars == <<endpointVars, clientVars>>

ClientsTypeOK ==
  /\ EndpointTypeOK
  /\ kind \in Kinds
  /\ kind = "console" => Console!ConsoleTypeOK
  /\ kind = "react" => React!ReactTypeOK
  /\ kind = "native" => Native!NativeTypeOK

Init ==
  /\ kind \in Kinds
  /\ EndpointInit
  /\ Console!ConsoleInit /\ React!ReactInit /\ Native!NativeInit

-----------------------------------------------------------------------------
\* A step of one kind of client leaves the variables of the others alone.
AsConsole == kind = "console" /\ UNCHANGED <<kind, reactVars, nativeVars>>
AsReact == kind = "react" /\ UNCHANGED <<kind, consoleVars, nativeVars>>
AsNative == kind = "native" /\ UNCHANGED <<kind, consoleVars, reactVars>>

Next ==
  \/ ServerStep /\ UNCHANGED clientVars
  \/ AsConsole /\ Console!ConsoleStep
  \/ AsReact /\ React!ReactStep
  \/ AsNative /\ Native!NativeStep

\* A fetch settles: the server answers, and the answer or the failure is
\* handled by the code that waits for it.
Settle(c) ==
  \/ Serve(c) /\ UNCHANGED clientVars
  \/ AsConsole /\ Console!RefreshReply(c)
  \/ AsReact /\ React!RefreshReply(c)
  \/ AsNative /\ Native!RefreshReply(c)

\* An operation of the native client goes on while the application runs.
OperationMoves(c) == AsNative /\ Native!Continue(c)

Spec == Init /\ [][Next]_vars

FairSpec ==
  /\ Spec
  /\ \A c \in Callers : WF_vars(Settle(c)) /\ WF_vars(OperationMoves(c))

-----------------------------------------------------------------------------
(* Each client implements TokenClient: the cell is where it keeps the      *)
(* refresh token.                                                          *)
StoredNow ==
  CASE kind = "console" -> store.refresh
    [] kind = "react"   -> cell.tok
    [] kind = "native"  -> session.tok

Client == INSTANCE TokenClient WITH stored <- StoredNow

\* Every step of every client is one the common specification allows: tokens
\* are presented from the storage, answers are stored whole, nothing else is
\* written.
ImplementsTokenClient == Client!Spec

\* TokenClient's StoredTokenLive, of what the client really stores.
StoredTokenLive == Client!StoredTokenLive

\* TokenClient's ReuseHasCause, for the real clients.
ReuseHasCause == Client!ReuseHasCause

\* TokenClient's NoRollback, for the real clients.
NoRollback == Client!NoRollback

\* ConsoleSession's PairTogether.
PairTogether == kind = "console" => Console!PairTogether

\* ReactSession's AlwaysRefreshing.
AlwaysRefreshing == kind = "react" => React!AlwaysRefreshing

\* Every refresh comes to an end, and with it what waits for it: the call of
\* the console, the provider's refreshPromiseRef (while it is set no other
\* refresh of the provider starts), the native getSession().
RefreshEnds(c) == exch[c] # NoExchange ~> exch[c] = NoExchange

\* ConsoleSession's CallbackNotSkipped and NativeSession's LogoutEnds.
CallbackNotSkipped == Console!CallbackNotSkipped
LogoutEnds == Native!LogoutEnds
=============================================================================
