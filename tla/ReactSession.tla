----------------------------- MODULE ReactSession -----------------------------
(***************************************************************************)
(* GGIDProvider of the React SDK (sdk/react/src/GGIDProvider.tsx).  Each   *)
(* caller is a provider mounted in a tab of its own; the providers share   *)
(* the localStorage key of the token set (cell), and each keeps a copy of  *)
(* it in React state (mem).  refreshPromiseRef is the exchange of the      *)
(* provider: there is at most one, which is what the code's deduplication  *)
(* gives within a tab and does not give across tabs.                       *)
(*                                                                         *)
(* Of a token set matter its refresh token, which an answer may come       *)
(* without (tok is NoToken then), and whether it is dated: whether the     *)
(* effect that schedules the refresh can tell when the access token        *)
(* expires.  It can not when there is no access token, or when there is no *)
(* expires_at and the payload of the token does not parse or has no exp.   *)
(***************************************************************************)
EXTENDS TokenEndpoint

VARIABLES
  cell,      \* the stored token set
  mem,       \* state.tokenSet of each provider
  auth,      \* providers with state.isAuthenticated
  armed,     \* providers whose refresh timer is set
  profile,   \* providers that wait for /users/me
  stranded   \* history: providers whose timer found no refresh token to present

reactVars == <<cell, mem, auth, armed, profile, stranded>>

NoSet == [here |-> FALSE, tok |-> NoToken, dated |-> FALSE]
NewSet(t, d) == [here |-> TRUE, tok |-> t, dated |-> d]
TokenSet == [here: {TRUE}, tok: Token \cup {NoToken}, dated: BOOLEAN] \cup {NoSet}

ReactTypeOK ==
  /\ cell \in TokenSet
  /\ mem \in [Callers -> TokenSet]
  /\ auth \subseteq Callers /\ armed \subseteq Callers /\ profile \subseteq Callers
  /\ stranded \subseteq Callers

ReactInit ==
  /\ cell = NoSet
  /\ mem = [c \in Callers |-> NoSet]
  /\ auth = {} /\ armed = {} /\ profile = {} /\ stranded = {}

\* The effect on the token set s of provider c: the timer of the one before is
\* cleared, and set again if the expiry is known.
Schedule(c, s) == armed' = IF s.dated THEN armed \cup {c} ELSE armed \ {c}

\* An answer is stored and becomes the provider's token set, with the effect
\* that follows.
Hold(c, s) ==
  /\ cell' = s
  /\ mem' = [mem EXCEPT ![c] = s]
  /\ Schedule(c, s)
  /\ stranded' = stranded \ {c}

\* The token set is removed from the storage and from the provider.
Reset(c) == Hold(c, NoSet) /\ auth' = auth \ {c}

\* The page is loaded (again): the initial state is read from the storage and
\* the profile is fetched with it.
MountProvider(c) ==
  /\ Drop({c})
  /\ mem' = [mem EXCEPT ![c] = cell]
  /\ Schedule(c, cell)
  /\ IF cell.here
       THEN auth' = auth \cup {c} /\ profile' = profile \cup {c}
       ELSE auth' = auth \ {c} /\ profile' = profile \ {c}
  /\ stranded' = stranded \ {c}
  /\ UNCHANGED cell

ProfileLoaded(c) ==
  /\ c \in profile
  /\ profile' = profile \ {c}
  /\ UNCHANGED <<endpointVars, cell, mem, auth, armed, stranded>>

\* Any failure, a network error included, ends the session: the storage is
\* cleared whatever token set it holds by now.
ProfileFailed(c) ==
  /\ c \in profile
  /\ profile' = profile \ {c}
  /\ Reset(c)
  /\ UNCHANGED endpointVars

\* Faulty variant: the provider presents the token it remembers.
TimerFires_FromState(c) ==
  /\ c \in armed
  /\ armed' = armed \ {c}
  /\ IF exch[c] = NoExchange /\ mem[c].tok # NoToken
       THEN Ask(c, mem[c].tok) /\ UNCHANGED stranded
       ELSE UNCHANGED <<endpointVars, stranded>>
  /\ UNCHANGED <<cell, mem, auth, profile>>

\* refreshToken, called by the timer: a refresh of this provider that is under
\* way is joined; otherwise the refresh token in the storage is presented.  If the
\* storage is empty, or its token set has no refresh token, nothing is done.
TimerFires(c) ==
  /\ c \in armed
  /\ armed' = armed \ {c}
  /\ IF exch[c] # NoExchange
       THEN UNCHANGED <<endpointVars, stranded>>
       ELSE IF cell.tok = NoToken
              THEN stranded' = stranded \cup {c} /\ UNCHANGED endpointVars
              ELSE Ask(c, cell.tok) /\ UNCHANGED stranded
  /\ UNCHANGED <<cell, mem, auth, profile>>

\* Faulty variant: the new access token does not set the timer.
RefreshSucceeds_NotArmed(c) ==
  /\ Take(c)
  /\ cell' = NewSet(Succ(exch[c].tok), TRUE)
  /\ mem' = [mem EXCEPT ![c] = NewSet(Succ(exch[c].tok), TRUE)]
  /\ stranded' = stranded \ {c}
  /\ UNCHANGED <<auth, armed, profile>>

\* The answer, which always has a refresh token, is stored whatever happened in
\* between; isAuthenticated stays what it is.
RefreshSucceeds(c) ==
  /\ Take(c)
  /\ \E dated \in BOOLEAN : Hold(c, NewSet(Succ(exch[c].tok), dated))
  /\ UNCHANGED <<auth, profile>>

\* Faulty variant: refreshPromiseRef is reset on success only.
RefreshFails_NoFinally(c) ==
  /\ exch[c].st = "refused"
  /\ Reset(c)
  /\ UNCHANGED <<endpointVars, profile>>

RefreshFails(c) ==
  /\ exch[c] # NoExchange
  /\ Drop({c})
  /\ Reset(c)
  /\ UNCHANGED profile

\* login() reads nothing before its request that it uses after it, and a
\* refused login leaves the session alone: the answer is the whole of it.
LoginSucceeds(c, f) ==
  /\ Grant(f)
  /\ \E dated \in BOOLEAN : Hold(c, NewSet(First(f), dated))
  /\ auth' = auth \cup {c}
  /\ UNCHANGED profile

\* The answer to a login has no refresh token; it replaces what is stored.
LoginBare(c) ==
  /\ \E dated \in BOOLEAN : Hold(c, NewSet(NoToken, dated))
  /\ auth' = auth \cup {c}
  /\ UNCHANGED <<endpointVars, profile>>

\* logout does not wait for, or cancel, a refresh that is under way.
Logout(c) ==
  /\ Reset(c)
  /\ UNCHANGED <<endpointVars, profile>>

RefreshReply(c) == RefreshSucceeds(c) \/ RefreshFails(c)

ReactStep ==
  \E c \in Callers :
    \/ MountProvider(c) \/ ProfileLoaded(c) \/ ProfileFailed(c)
    \/ TimerFires(c) \/ RefreshReply(c)
    \/ Logout(c) \/ LoginBare(c)
    \/ \E f \in Families : LoginSucceeds(c, f)

-----------------------------------------------------------------------------
\* A provider that holds a token set whose expiry it can tell has a refresh
\* scheduled or under way, whatever the other tabs do to the storage.  The only
\* exception is a provider whose timer found no refresh token in the storage,
\* because another tab had emptied it or a login had brought none: it keeps its
\* token set and never looks at the storage again.
AlwaysRefreshing ==
  \A c \in Callers :
    mem[c].dated => c \in armed \/ exch[c] # NoExchange \/ c \in stranded
=============================================================================
