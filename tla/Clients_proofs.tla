---------------------------- MODULE Clients_proofs ----------------------------
(***************************************************************************)
(* Every step of the console, of the React provider and of the native      *)
(* client is a step TokenClient allows, so what TokenClient_proofs shows   *)
(* of any client that keeps to it holds of these three.  The argument:     *)
(*   1. Allowed says what TokenClient lets happen to the endpoint and the  *)
(*      stored token; it is the next-state relation of both instances of   *)
(*      TokenClient (CommonClient, CommonPromise);                         *)
(*   2. each client's steps are Allowed on the cell it keeps its refresh   *)
(*      token in (ReactAllowed, NativeAllowed, ConsoleAllowed), given the  *)
(*      types of its own variables (ReactKept, NativeKept, ConsolePairs,   *)
(*      OthersKept, JobsKept);                                             *)
(*   3. the types of the endpoint, the client's own state and TokenClient's*)
(*      invariant are then inductive over Clients' steps (KeptNext,        *)
(*      PromiseKept).                                                      *)
(***************************************************************************)
EXTENDS Clients, TLAPS

\* The theorems about TokenClient, of what the clients store.
Promise == INSTANCE TokenClient_proofs WITH stored <- StoredNow

-----------------------------------------------------------------------------
(* TokenClient's steps, in terms of the endpoint the clients share. *)

\* The stored token goes from old to new as TokenClient allows.
Allowed(old, new) ==
  \/ ServerStep /\ new = old
  \/ \E f \in Families : Grant(f) /\ new = First(f)
  \/ \E c \in Callers : old # NoToken /\ Ask(c, old) /\ new = old
  \/ \E c \in Callers : Take(c) /\ new = Succ(exch[c].tok)
  \/ \E C \in SUBSET Callers : Drop(C) /\ new \in {old, NoToken}

CommonStep == Allowed(StoredNow, StoredNow')

\* CommonStep is the next-state relation of TokenClient.
LEMMA CommonClient ==
  /\ CommonStep <=> Client!Next
  /\ Client!vars = <<endpointVars, StoredNow>>
  /\ Client!Init <=> EndpointInit /\ StoredNow = NoToken
  BY DEF CommonStep, Allowed, Client!Next, ServerStep, Client!ServerStep, Serve, Client!Serve,
         ServeOrphan, Client!ServeOrphan, Redeem, Client!Redeem, Reject, Client!Reject,
         Client!SignIn, Grant, Client!Grant, First, Client!First, Client!Present, Ask, Client!Ask,
         InUse, Client!InUse, NoExchange, Client!NoExchange, Client!Save, Take, Client!Take,
         Succ, Client!Succ, Client!GiveUp, Drop, Client!Drop, Client!vars, endpointVars,
         Client!endpointVars, Client!Init, EndpointInit, Client!EndpointInit

\* It is that of the TokenClient the theorems are about as well.
LEMMA CommonPromise ==
  /\ CommonStep <=> Promise!Next
  /\ Promise!vars = <<endpointVars, StoredNow>>
  /\ Promise!Init <=> EndpointInit /\ StoredNow = NoToken
  /\ Promise!TypeOK <=> EndpointTypeOK /\ StoredNow \in Token \cup {NoToken}
  BY DEF CommonStep, Allowed, Promise!Next, ServerStep, Promise!ServerStep, Serve, Promise!Serve,
         ServeOrphan, Promise!ServeOrphan, Redeem, Promise!Redeem, Reject, Promise!Reject,
         Promise!SignIn, Grant, Promise!Grant, First, Promise!First, Promise!Present, Ask,
         Promise!Ask, InUse, Promise!InUse, NoExchange, Promise!NoExchange, Promise!Save, Take,
         Promise!Take, Succ, Promise!Succ, Promise!GiveUp, Drop, Promise!Drop, Promise!vars,
         endpointVars, Promise!endpointVars, Promise!Init, EndpointInit, Promise!EndpointInit,
         Promise!TypeOK, EndpointTypeOK, Promise!EndpointTypeOK, Token, Promise!Token, Exchange,
         Promise!Exchange

\* A step that leaves the endpoint alone and the stored token, or clears it, is
\* one in which nobody gives up.
LEMMA Still ==
  ASSUME EndpointTypeOK, NEW old, NEW new, UNCHANGED endpointVars, new \in {old, NoToken}
  PROVE  Allowed(old, new)
  <1>1. Drop({})
    BY DEF Drop, EndpointTypeOK, endpointVars
  <1> QED
    BY <1>1 DEF Allowed

\* The idle exchange holds no token; the endpoint's exchanges are well formed.
LEMMA Idle ==
  /\ NoExchange.st = "idle" /\ NoExchange.tok = NoToken /\ NoExchange \in Exchange
  /\ NoToken \notin Token
  /\ \A t \in Token : Succ(t) \in Token
  /\ \A f \in Families : First(f) \in Token
  BY EndpointAssumption DEF NoExchange, Exchange, Token, Succ, First

\* A caller whose exchange is under way has presented a token.
LEMMA Busy ==
  ASSUME EndpointTypeOK, NEW c \in Callers, exch[c] # NoExchange
  PROVE  exch[c] \in [st: {"sent", "granted", "refused"}, tok: Token]
  BY DEF EndpointTypeOK, Exchange

\* An exchange that is granted is under way, and its successor can be stored.
LEMMA Taken ==
  ASSUME EndpointTypeOK, NEW c \in Callers, Take(c)
  PROVE  exch[c] # NoExchange /\ exch[c].tok \in Token /\ Succ(exch[c].tok) \in Token
  BY Busy, Idle DEF Take

\* The server neither starts nor ends an exchange.
LEMMA ExchangesKept ==
  ASSUME EndpointTypeOK, ServerStep
  PROVE  \A c \in Callers : exch'[c] = NoExchange <=> exch[c] = NoExchange
  <1>1. ASSUME NEW d \in Callers, Serve(d)
        PROVE  \A c \in Callers : exch'[c] = NoExchange <=> exch[c] = NoExchange
    <2>1. exch[d] # NoExchange /\ exch[d] \in [st: {"sent", "granted", "refused"}, tok: Token]
      BY <1>1, Idle, Busy DEF Serve
    <2>2. /\ exch'[d] = [st |-> "granted", tok |-> exch[d].tok]
              \/ exch'[d] = [st |-> "refused", tok |-> exch[d].tok]
          /\ \A c \in Callers : c # d => exch'[c] = exch[c]
      BY <1>1, <2>1 DEF Serve, EndpointTypeOK
    <2> QED
      BY <2>1, <2>2, Idle
  <1>2. ASSUME NEW t \in orphans, ServeOrphan(t)
        PROVE  \A c \in Callers : exch'[c] = NoExchange <=> exch[c] = NoExchange
    BY <1>2 DEF ServeOrphan
  <1> QED
    BY <1>1, <1>2 DEF ServerStep

-----------------------------------------------------------------------------
(* The React provider. *)

\* The endpoint's operators, seen from the provider's module.
LEMMA ReactNames ==
  /\ React!endpointVars = endpointVars /\ React!NoExchange = NoExchange /\ React!Token = Token
  /\ \A c, t : React!Ask(c, t) <=> Ask(c, t)
  /\ \A c : (React!Take(c) <=> Take(c)) /\ (React!Drop(c) <=> Drop(c))
  /\ \A f : React!Grant(f) <=> Grant(f)
  /\ \A c : React!First(c) = First(c) /\ React!Succ(c) = Succ(c)
  BY DEF React!endpointVars, endpointVars, React!NoExchange, NoExchange, React!Token, Token,
         React!Ask, Ask, React!InUse, InUse, React!Take, Take, React!Drop, Drop, React!Grant, Grant,
         React!First, First, React!Succ, Succ

\* A token set is a record of three fields, with or without a refresh token.
LEMMA TokenSets ==
  /\ \A t \in Token \cup {NoToken}, d \in BOOLEAN :
       React!NewSet(t, d) \in React!TokenSet /\ React!NewSet(t, d).tok = t
  /\ React!NoSet \in React!TokenSet /\ React!NoSet.tok = NoToken /\ ~ React!NoSet.dated
  /\ \A s \in React!TokenSet : s.tok \in Token \cup {NoToken}
  <1>1. \A t \in Token \cup {NoToken}, d \in BOOLEAN :
          React!NewSet(t, d) \in React!TokenSet /\ React!NewSet(t, d).tok = t
    BY ReactNames DEF React!NewSet, React!TokenSet
  <1>2. React!NoSet \in React!TokenSet /\ React!NoSet.tok = NoToken /\ ~ React!NoSet.dated
    BY DEF React!NoSet, React!TokenSet
  <1>3. ASSUME NEW s \in React!TokenSet PROVE s.tok \in Token \cup {NoToken}
    <2>1. CASE s = React!NoSet
      BY <2>1 DEF React!NoSet
    <2>2. CASE s \in [here: {TRUE}, tok: Token \cup {NoToken}, dated: BOOLEAN]
      BY <2>2
    <2> QED BY <2>1, <2>2, ReactNames DEF React!TokenSet
  <1> QED BY <1>1, <1>2, <1>3

\* The actions of one provider.
ReactOf(c) ==
  \/ React!MountProvider(c) \/ React!ProfileLoaded(c) \/ React!ProfileFailed(c)
  \/ React!TimerFires(c) \/ React!RefreshReply(c) \/ React!Logout(c) \/ React!LoginBare(c)
  \/ \E f \in Families : React!LoginSucceeds(c, f)

\* A provider presents what the storage holds and stores what it is handed.
LEMMA ReactAllowed ==
  ASSUME EndpointTypeOK, React!ReactStep
  PROVE  Allowed(cell.tok, cell'.tok)
  <1> USE DEF endpointVars, React!endpointVars
  <1> PICK c \in Callers : ReactOf(c)
    BY DEF React!ReactStep, ReactOf
  <1>1. CASE React!MountProvider(c)
    BY <1>1, ReactNames DEF React!MountProvider, Allowed
  <1>2. CASE React!ProfileLoaded(c)
    BY <1>2, ReactNames, Still DEF React!ProfileLoaded
  <1>3. CASE React!ProfileFailed(c) \/ React!Logout(c)
    BY <1>3, ReactNames, TokenSets, Still DEF React!ProfileFailed, React!Logout, React!Reset, React!Hold
  <1>4. CASE React!TimerFires(c)
    <2>1. CASE UNCHANGED endpointVars
      BY <1>4, <2>1, Still DEF React!TimerFires
    <2>2. CASE ~ UNCHANGED endpointVars
      BY <1>4, <2>2, ReactNames DEF React!TimerFires, Allowed
    <2> QED BY <2>1, <2>2
  <1>5. CASE React!RefreshSucceeds(c)
    <2>1. Take(c) /\ Succ(exch[c].tok) \in Token
      BY <1>5, ReactNames, Taken DEF React!RefreshSucceeds
    <2>2. cell'.tok = Succ(exch[c].tok)
      BY <1>5, <2>1, ReactNames, TokenSets DEF React!RefreshSucceeds, React!Hold
    <2> QED BY <2>1, <2>2 DEF Allowed
  <1>6. CASE React!RefreshFails(c)
    BY <1>6, ReactNames, TokenSets DEF React!RefreshFails, React!Reset, React!Hold, Allowed
  <1>7. CASE React!LoginBare(c)
    BY <1>7, ReactNames, TokenSets, Still DEF React!LoginBare, React!Hold
  <1>8. ASSUME NEW f \in Families, React!LoginSucceeds(c, f) PROVE Allowed(cell.tok, cell'.tok)
    <2>1. Grant(f) /\ cell'.tok = First(f)
      BY <1>8, ReactNames, TokenSets, Idle DEF React!LoginSucceeds, React!Hold
    <2> QED BY <2>1 DEF Allowed
  <1> QED
    BY <1>1, <1>2, <1>3, <1>4, <1>5, <1>6, <1>7, <1>8 DEF ReactOf, React!RefreshReply

\* A provider that takes up a token set, or none, has its refresh scheduled when
\* it can; the others are not concerned.
LEMMA Held ==
  ASSUME React!ReactTypeOK, React!AlwaysRefreshing, NEW c \in Callers, NEW s \in React!TokenSet,
         React!Hold(c, s), auth' \subseteq Callers, profile' \subseteq Callers,
         \A d \in Callers : d # c => exch'[d] = exch[d]
  PROVE  React!ReactTypeOK' /\ React!AlwaysRefreshing'
  <1>1. /\ cell' = s /\ mem'[c] = s /\ \A d \in Callers : d # c => mem'[d] = mem[d]
        /\ mem' \in [Callers -> React!TokenSet]
        /\ armed' \subseteq Callers /\ stranded' \subseteq Callers
    BY DEF React!Hold, React!Schedule, React!ReactTypeOK
  <1>2. React!ReactTypeOK'
    BY <1>1 DEF React!ReactTypeOK, React!TokenSet, React!NoSet, React!Token
  <1>3. React!AlwaysRefreshing'
    <2> SUFFICES ASSUME NEW d \in Callers, mem'[d].dated
                 PROVE  d \in armed' \/ exch'[d] # NoExchange \/ d \in stranded'
      BY ReactNames DEF React!AlwaysRefreshing, React!NoExchange, NoExchange
    <2>1. CASE d = c
      BY <2>1, <1>1 DEF React!Hold, React!Schedule
    <2>2. CASE d # c
      BY <2>2, <1>1, ReactNames DEF React!Hold, React!Schedule, React!AlwaysRefreshing
    <2> QED BY <2>1, <2>2
  <1> QED BY <1>2, <1>3

\* The provider's variables keep their types, and its refresh stays scheduled.
LEMMA ReactKept ==
  ASSUME EndpointTypeOK, React!ReactTypeOK, React!AlwaysRefreshing, React!ReactStep
  PROVE  React!ReactTypeOK' /\ React!AlwaysRefreshing'
  <1> USE ReactNames, Idle, TokenSets DEF endpointVars, React!endpointVars
  <1> PICK c \in Callers : ReactOf(c)
    BY DEF React!ReactStep, ReactOf
  <1>1. /\ cell \in React!TokenSet /\ mem \in [Callers -> React!TokenSet]
        /\ auth \subseteq Callers /\ armed \subseteq Callers /\ profile \subseteq Callers
        /\ stranded \subseteq Callers
    BY DEF React!ReactTypeOK
  <1>2. ASSUME NEW s \in React!TokenSet, React!Hold(c, s), auth' \subseteq auth \cup {c},
               profile' \subseteq profile, \A d \in Callers : d # c => exch'[d] = exch[d]
        PROVE  React!ReactTypeOK' /\ React!AlwaysRefreshing'
    BY <1>1, <1>2, Held
  <1>3. CASE React!MountProvider(c)
    <2>1. \A d \in Callers : d # c => exch'[d] = exch[d]
      BY <1>3 DEF React!MountProvider, Drop
    <2>2. React!Hold(c, cell)
      BY <1>3 DEF React!MountProvider, React!Hold
    <2>3. auth' \subseteq Callers /\ profile' \subseteq Callers
      BY <1>1, <1>3 DEF React!MountProvider
    <2> QED
      BY <1>1, <2>1, <2>2, <2>3, Held
  <1>4. CASE React!ProfileLoaded(c)
    <2>1. UNCHANGED <<exch, cell, mem, auth, armed, stranded>> /\ profile' \subseteq profile
      BY <1>4 DEF React!ProfileLoaded
    <2> QED
      BY <1>1, <2>1 DEF React!ReactTypeOK, React!AlwaysRefreshing
  <1>5. CASE React!ProfileFailed(c) \/ React!Logout(c)
    <2>1. UNCHANGED exch /\ React!Reset(c) /\ profile' \subseteq profile
      BY <1>5 DEF React!ProfileFailed, React!Logout
    <2> QED
      BY <1>2, <2>1 DEF React!Reset
  <1>6. CASE React!TimerFires(c)
    <2>1. \A d \in Callers : d # c => exch'[d] = exch[d]
      BY <1>6 DEF React!TimerFires, Ask, EndpointTypeOK
    <2>2. exch'[c] # NoExchange \/ c \in stranded'
      BY <1>6 DEF React!TimerFires, Ask, EndpointTypeOK
    <2>3. UNCHANGED <<cell, mem, auth, profile>> /\ armed' = armed \ {c}
          /\ stranded \subseteq stranded' /\ stranded' \subseteq Callers
      BY <1>1, <1>6 DEF React!TimerFires
    <2> QED
      BY <1>1, <2>1, <2>2, <2>3 DEF React!ReactTypeOK, React!AlwaysRefreshing
  <1>7. CASE React!RefreshSucceeds(c)
    <2>1. \A d \in Callers : d # c => exch'[d] = exch[d]
      BY <1>7 DEF React!RefreshSucceeds, Take, EndpointTypeOK
    <2>2. Succ(exch[c].tok) \in Token
      BY <1>7, Taken DEF React!RefreshSucceeds
    <2>3. PICK d \in BOOLEAN : React!Hold(c, React!NewSet(Succ(exch[c].tok), d))
      BY <1>7 DEF React!RefreshSucceeds
    <2>4. React!NewSet(Succ(exch[c].tok), d) \in React!TokenSet
      BY <2>2
    <2> QED
      BY <1>2, <1>7, <2>1, <2>3, <2>4 DEF React!RefreshSucceeds
  <1>8. CASE React!RefreshFails(c)
    <2>1. \A d \in Callers : d # c => exch'[d] = exch[d]
      BY <1>8 DEF React!RefreshFails, Drop
    <2> QED
      BY <1>2, <1>8, <2>1 DEF React!RefreshFails, React!Reset
  <1>9. CASE React!LoginBare(c) \/ \E f \in Families : React!LoginSucceeds(c, f)
    <2>1. UNCHANGED <<exch, profile>> /\ auth' = auth \cup {c}
      BY <1>9 DEF React!LoginBare, React!LoginSucceeds, Grant
    <2>2. \E t \in Token \cup {NoToken}, d \in BOOLEAN : React!Hold(c, React!NewSet(t, d))
      BY <1>9 DEF React!LoginBare, React!LoginSucceeds
    <2> QED
      BY <1>2, <2>1, <2>2
  <1> QED
    BY <1>3, <1>4, <1>5, <1>6, <1>7, <1>8, <1>9 DEF ReactOf, React!RefreshReply

-----------------------------------------------------------------------------
(* The native client. *)

\* An operation that is about to leave logout() has a logout() frame to leave.
Framed == \A c \in Callers : pc[c] \in {"logout", "revoke", "delete"} => depth[c] > 0

\* The endpoint's operators, seen from the native client's module.
LEMMA NativeNames ==
  /\ Native!endpointVars = endpointVars /\ Native!NoExchange = NoExchange /\ Native!Token = Token
  /\ \A c, t : Native!Ask(c, t) <=> Ask(c, t)
  /\ \A c : (Native!Take(c) <=> Take(c)) /\ (Native!Drop(c) <=> Drop(c))
  /\ \A f : Native!Grant(f) <=> Grant(f)
  /\ \A c : Native!First(c) = First(c) /\ Native!Succ(c) = Succ(c)
  BY DEF Native!endpointVars, endpointVars, Native!NoExchange, NoExchange, Native!Token, Token,
         Native!Ask, Ask, Native!InUse, InUse, Native!Take, Take, Native!Drop, Drop, Native!Grant,
         Grant, Native!First, First, Native!Succ, Succ

\* A session is a record of three fields, with or without a refresh token.
LEMMA Sessions ==
  /\ \A t \in Token \cup {NoToken} :
       Native!NewSession(t) \in Native!Session /\ Native!NewSession(t).tok = t
  /\ Native!NoSession \in Native!Session /\ Native!NoSession.tok = NoToken
  /\ \A s \in Native!Session :
       /\ s.tok \in Token \cup {NoToken}
       /\ s.here /\ ~ s.past => [s EXCEPT !.past = TRUE] \in Native!Session
       /\ [s EXCEPT !.past = TRUE].tok = s.tok
  <1>1. \A t \in Token \cup {NoToken} :
          Native!NewSession(t) \in Native!Session /\ Native!NewSession(t).tok = t
    BY NativeNames DEF Native!NewSession, Native!Session
  <1>2. Native!NoSession \in Native!Session /\ Native!NoSession.tok = NoToken
    BY DEF Native!NoSession, Native!Session
  <1>3. ASSUME NEW s \in Native!Session
        PROVE  /\ s.tok \in Token \cup {NoToken}
               /\ s.here /\ ~ s.past => [s EXCEPT !.past = TRUE] \in Native!Session
               /\ [s EXCEPT !.past = TRUE].tok = s.tok
    <2>1. CASE s = Native!NoSession
      BY <2>1 DEF Native!NoSession
    <2>2. CASE s \in [here: {TRUE}, tok: Token \cup {NoToken}, past: BOOLEAN]
      BY <2>2, NativeNames DEF Native!Session
    <2> QED BY <2>1, <2>2, NativeNames DEF Native!Session
  <1> QED BY <1>1, <1>2, <1>3

\* The actions of one operation.
NativeOf(c) ==
  \/ Native!StartGet(c) \/ Native!StartLogout(c) \/ Native!StartLogin(c)
  \/ Native!LoginCancelled(c) \/ Native!LoginSavedBare(c) \/ Native!Continue(c)
  \/ \E f \in Families : Native!LoginSaved(c, f)

\* An operation presents what the storage holds and saves what it is handed.
LEMMA NativeAllowed ==
  ASSUME EndpointTypeOK, Native!NativeTypeOK, Native!NativeStep
  PROVE  Allowed(session.tok, session'.tok)
  <1> USE Sessions, NativeNames DEF endpointVars, Native!endpointVars
  <1>1. session \in Native!Session
    BY DEF Native!NativeTypeOK
  <1>2. ASSUME NEW c \in Callers, NativeOf(c) PROVE Allowed(session.tok, session'.tok)
    <2>1. CASE Native!StartGet(c) \/ Native!StartLogout(c) \/ Native!StartLogin(c)
                 \/ Native!LoginCancelled(c) \/ Native!EnterLogout(c) \/ Native!ReadNone(c)
                 \/ Native!ReadValid(c) \/ Native!ReadLost(c) \/ Native!RevokeAccess(c)
      BY <2>1, Still DEF Native!StartGet, Native!StartLogout, Native!StartLogin,
         Native!LoginCancelled, Native!EnterLogout, Native!ReadNone, Native!ReadValid,
         Native!ReadLost, Native!RevokeAccess
    <2>2. CASE Native!LoginSavedBare(c)
      BY <2>2, Still DEF Native!LoginSavedBare
    <2>3. CASE Native!DeleteSession(c)
      BY <2>3, Still DEF Native!DeleteSession
    <2>4. CASE Native!ReadExpired(c)
      BY <2>4 DEF Native!ReadExpired, Allowed
    <2>5. CASE Native!RefreshSaved(c)
      BY <2>5, Taken DEF Native!RefreshSaved, Allowed
    <2>6. CASE Native!RefreshNull(c)
      BY <2>6 DEF Native!RefreshNull, Allowed
    <2>7. ASSUME NEW f \in Families, Native!LoginSaved(c, f) PROVE Allowed(session.tok, session'.tok)
      BY <2>7, Idle DEF Native!LoginSaved, Allowed
    <2> QED
      BY <1>2, <2>1, <2>2, <2>3, <2>4, <2>5, <2>6, <2>7
         DEF NativeOf, Native!Continue, Native!RefreshReply
  <1>3. CASE Native!Expire
    BY <1>1, <1>3, Still DEF Native!Expire
  <1>4. CASE Native!Restart
    BY <1>4 DEF Native!Restart, Allowed
  <1> QED
    BY <1>2, <1>3, <1>4 DEF Native!NativeStep, NativeOf

\* The operations keep to their steps, and every deletion to its frame.
LEMMA NativeKept ==
  ASSUME EndpointTypeOK, Native!NativeTypeOK, Framed, Native!NativeStep
  PROVE  Native!NativeTypeOK' /\ Framed'
  <1> USE Sessions, NativeNames, Idle, KindsAssumption
      DEF Native!NativeTypeOK, Framed, Native!Steps, endpointVars, Native!endpointVars
  <1>1. session \in Native!Session
    OBVIOUS
  <1>2. ASSUME NEW c \in Callers, NativeOf(c) PROVE Native!NativeTypeOK' /\ Framed'
    <2>1. CASE Native!StartGet(c) \/ Native!StartLogin(c) \/ Native!LoginCancelled(c)
                 \/ Native!EnterLogout(c)
      BY <2>1 DEF Native!StartGet, Native!StartLogin, Native!LoginCancelled, Native!EnterLogout,
         Native!Goto
    <2>2. CASE Native!StartLogout(c) \/ Native!ReadLost(c)
      BY <2>2 DEF Native!StartLogout, Native!ReadLost, Native!CallLogout, Native!Goto
    <2>3. CASE Native!ReadNone(c) \/ Native!ReadValid(c) \/ Native!RevokeAccess(c)
      BY <2>3 DEF Native!ReadNone, Native!ReadValid, Native!RevokeAccess, Native!ReturnNull,
         Native!ReturnSession, Native!Goto
    <2>4. CASE Native!LoginSavedBare(c)
      BY <2>4 DEF Native!LoginSavedBare, Native!Goto
    <2>5. CASE Native!DeleteSession(c)
      BY <2>5 DEF Native!DeleteSession, Native!Goto
    <2>6. CASE Native!ReadExpired(c)
      <3>1. exch'[c] # NoExchange /\ \A d \in Callers : d # c => exch'[d] = exch[d]
        BY <2>6 DEF Native!ReadExpired, Ask, EndpointTypeOK
      <3> QED
        BY <2>6, <3>1 DEF Native!ReadExpired, Native!Goto
    <2>7. CASE Native!RefreshSaved(c)
      <3>1. exch'[c] = NoExchange /\ \A d \in Callers : d # c => exch'[d] = exch[d]
        BY <2>7 DEF Native!RefreshSaved, Take, EndpointTypeOK
      <3>2. session' \in Native!Session
        BY <2>7, Taken DEF Native!RefreshSaved
      <3> QED
        BY <2>7, <3>1, <3>2 DEF Native!RefreshSaved, Native!ReturnSession, Native!Goto
    <2>8. CASE Native!RefreshNull(c)
      <3>1. exch'[c] = NoExchange /\ \A d \in Callers : d # c => exch'[d] = exch[d]
        BY <2>8 DEF Native!RefreshNull, Drop
      <3> QED
        BY <2>8, <3>1 DEF Native!RefreshNull, Native!CallLogout, Native!Goto
    <2>9. ASSUME NEW f \in Families, Native!LoginSaved(c, f) PROVE Native!NativeTypeOK' /\ Framed'
      BY <2>9 DEF Native!LoginSaved, Grant, Native!Goto
    <2> QED
      BY <1>2, <2>1, <2>2, <2>3, <2>4, <2>5, <2>6, <2>7, <2>8, <2>9
         DEF NativeOf, Native!Continue, Native!RefreshReply
  <1>3. CASE Native!Expire
    BY <1>1, <1>3 DEF Native!Expire
  <1>4. CASE Native!Restart
    BY <1>4 DEF Native!Restart, Drop
  <1> QED
    BY <1>2, <1>3, <1>4 DEF Native!NativeStep, NativeOf

-----------------------------------------------------------------------------
(* The console. *)

Stored == [access: Token \cup {NoToken, Bare}, refresh: Token \cup {NoToken}]

\* The endpoint's operators, seen from the console's module.
LEMMA ConsoleNames ==
  /\ Console!endpointVars = endpointVars /\ Console!NoExchange = NoExchange /\ Console!Token = Token
  /\ \A c, t : Console!Ask(c, t) <=> Ask(c, t)
  /\ \A c : (Console!Take(c) <=> Take(c)) /\ (Console!Drop(c) <=> Drop(c))
  /\ \A f : Console!Grant(f) <=> Grant(f)
  /\ \A c : Console!First(c) = First(c) /\ Console!Succ(c) = Succ(c)
  BY DEF Console!endpointVars, endpointVars, Console!NoExchange, NoExchange, Console!Token, Token,
         Console!Ask, Ask, Console!InUse, InUse, Console!Take, Take, Console!Drop, Drop,
         Console!Grant, Grant, Console!First, First, Console!Succ, Succ

\* The four ways the console writes its storage keep its type.
LEMMA Storages ==
  /\ Console!Empty \in Stored /\ Console!Empty.refresh = NoToken
  /\ \A t \in Token : Console!Pair(t) \in Stored /\ Console!Pair(t).refresh = t
                      /\ Console!Pair(t).access = t
  /\ \A s \in Stored : /\ [s EXCEPT !.access = Bare] \in Stored
                        /\ [s EXCEPT !.access = Bare].refresh = s.refresh
                        /\ [s EXCEPT !.access = Bare].access = Bare
  BY DEF Console!Empty, Console!Pair, Stored

\* The actions of one tab and of one call.
ConsoleTab(t) ==
  \/ Console!GuardReply(t) \/ Console!SignOut(t) \/ Console!Submit(t) \/ Console!SignInFails(t)
  \/ Console!Callback(t) \/ Console!SocialCallback(t) \/ Console!SignedInBare(t)
  \/ \E p \in {"app", "login"} : Console!Navigate(t, p)
  \/ \E p \in {"app", "login", "setup"} : Console!Reload(t, p)
  \/ \E how \in {"flow", "social"} : Console!Redirect(t, how)
  \/ \E f \in Families : Console!SignedIn(t, f)

ConsoleCall(c) ==
  \/ Console!Request(c) \/ Console!Answered(c) \/ Console!Rejected(c) \/ Console!RejectedForGood(c)
  \/ Console!RefreshReply(c) \/ Console!RetryAnswered(c) \/ Console!RetryFailed(c)
  \/ Console!Impersonated(c)

\* What a step of the console does to the endpoint and the storage.
Quiet == UNCHANGED endpointVars /\ (store' = store \/ store' = Console!Empty)
Impersonates == UNCHANGED endpointVars /\ store' = [store EXCEPT !.access = Bare]
Leaves(C) == Drop(C) /\ (store' = store \/ store' = Console!Empty)
Presents(c) == store.refresh # NoToken /\ Ask(c, store.refresh) /\ store' = store
Renews(c) == Take(c) /\ store' = Console!Pair(Succ(exch[c].tok))
Opens(f) == Grant(f) /\ store' = Console!Pair(First(f))

ConsoleMove ==
  \/ Quiet \/ Impersonates
  \/ \E C \in SUBSET Callers : Leaves(C)
  \/ \E c \in Callers : Presents(c) \/ Renews(c)
  \/ \E f \in Families : Opens(f)

\* The guard's effect stores what it was given, or clears the storage.
LEMMA EffectStores ==
  ASSUME NEW t, NEW p, NEW s, NEW cause, Console!Effect(t, p, s, cause)
  PROVE  store' = s \/ store' = Console!Empty
  BY DEF Console!Effect

\* No step of the console does anything else to its tokens.
LEMMA ConsoleMoves ==
  ASSUME Console!ConsoleStep
  PROVE  ConsoleMove
  <1> USE ConsoleNames DEF endpointVars, Console!endpointVars, ConsoleMove
  <1>1. ASSUME NEW t \in Tabs, ConsoleTab(t) PROVE ConsoleMove
    <2>1. ASSUME NEW p, Console!Load(t, p) PROVE ConsoleMove
      <3>1. Leaves(Console!Calls(t)) /\ Console!Calls(t) \in SUBSET Callers
        BY <2>1, EffectStores DEF Console!Load, Leaves, Console!Calls
      <3> QED BY <3>1
    <2>2. CASE Console!GuardReply(t)
      <3>1. ASSUME NEW p \in Console!Public, Console!StatusReply(t, p) PROVE Quiet
        BY <3>1, EffectStores DEF Console!StatusReply, Quiet
      <3>2. ASSUME NEW pub \in BOOLEAN, Console!VerifyRejected(t, pub) \/ Console!VerifyAccepted(t, pub)
            PROVE  Quiet
        BY <3>2 DEF Console!VerifyRejected, Console!VerifyAccepted, Quiet
      <3> QED
        BY <2>1, <2>2, <3>1, <3>2 DEF Console!GuardReply, Console!Unload
    <2>3. CASE Console!SignOut(t) \/ Console!Submit(t) \/ Console!SignInFails(t) \/ Console!Callback(t)
      BY <2>3 DEF Console!SignOut, Console!Submit, Console!SignInFails, Console!Callback, Quiet
    <2>4. CASE Console!SocialCallback(t)
      BY <2>4, EffectStores DEF Console!SocialCallback, Quiet, Impersonates
    <2>5. ASSUME NEW p \in {"app", "login"}, Console!Navigate(t, p) PROVE Quiet
      BY <2>5, EffectStores DEF Console!Navigate, Quiet
    <2>6. ASSUME NEW how \in {"flow", "social"}, Console!Redirect(t, how) PROVE Quiet
      BY <2>6 DEF Console!Redirect, Quiet
    <2>7. ASSUME NEW s, Console!SignsIn(t, s) PROVE store' = s
      <3>1. CASE login[t] = "boot"
        BY <3>1, <2>7 DEF Console!SignsIn
      <3>2. CASE login[t] # "boot"
        BY <3>2, <2>7 DEF Console!SignsIn, Console!Effect
      <3> QED BY <3>1, <3>2
    <2>8. ASSUME NEW f \in Families, Console!SignedIn(t, f) PROVE Opens(f)
      BY <2>7, <2>8 DEF Console!SignedIn, Opens
    <2>9. CASE Console!SignedInBare(t)
      BY <2>7, <2>9 DEF Console!SignedInBare, Impersonates
    <2> QED
      BY <1>1, <2>1, <2>2, <2>3, <2>4, <2>5, <2>6, <2>8, <2>9 DEF ConsoleTab, Console!Reload
  <1>2. ASSUME NEW c \in Callers, ConsoleCall(c) PROVE ConsoleMove
    <2>1. CASE Console!Request(c) \/ Console!Answered(c) \/ Console!RetryAnswered(c)
      BY <2>1 DEF Console!Request, Console!Answered, Console!RetryAnswered, Quiet
    <2>2. CASE Console!Rejected(c)
      BY <2>2 DEF Console!Rejected, Presents
    <2>3. CASE Console!RejectedForGood(c) \/ Console!RetryFailed(c)
      BY <2>3 DEF Console!RejectedForGood, Console!RetryFailed, Console!Unauthorized, Quiet
    <2>4. CASE Console!Refreshed(c)
      BY <2>4 DEF Console!Refreshed, Renews
    <2>5. CASE Console!RefreshFailed(c)
      <3>1. Leaves({c})
        BY <2>5 DEF Console!RefreshFailed, Console!Unauthorized, Leaves
      <3> QED BY <3>1
    <2>6. CASE Console!Impersonated(c)
      BY <2>6 DEF Console!Impersonated, Impersonates
    <2> QED
      BY <1>2, <2>1, <2>2, <2>3, <2>4, <2>5, <2>6 DEF ConsoleCall, Console!RefreshReply
  <1> QED
    BY <1>1, <1>2 DEF Console!ConsoleStep, ConsoleTab, ConsoleCall

\* The console presents what its storage holds and stores what it is handed.
LEMMA ConsoleAllowed ==
  ASSUME EndpointTypeOK, store \in Stored, ConsoleMove
  PROVE  Allowed(store.refresh, store'.refresh)
  <1> USE Storages
  <1>1. CASE Quiet \/ Impersonates
    BY <1>1, Still DEF Quiet, Impersonates
  <1>2. ASSUME NEW C \in SUBSET Callers, Leaves(C) PROVE Allowed(store.refresh, store'.refresh)
    BY <1>2 DEF Leaves, Allowed
  <1>3. ASSUME NEW c \in Callers, Presents(c) PROVE Allowed(store.refresh, store'.refresh)
    BY <1>3 DEF Presents, Allowed
  <1>4. ASSUME NEW c \in Callers, Renews(c) PROVE Allowed(store.refresh, store'.refresh)
    BY <1>4, Taken DEF Renews, Allowed
  <1>5. ASSUME NEW f \in Families, Opens(f) PROVE Allowed(store.refresh, store'.refresh)
    BY <1>5, Idle DEF Opens, Allowed
  <1> QED
    BY <1>1, <1>2, <1>3, <1>4, <1>5 DEF ConsoleMove

\* Whatever is stored, a refresh token never stays behind alone or with an
\* access token of another pair.
LEMMA ConsolePairs ==
  ASSUME EndpointTypeOK, store \in Stored, Console!PairTogether, ConsoleMove
  PROVE  store' \in Stored /\ Console!PairTogether'
  <1> USE Storages, KindsAssumption, Idle DEF Console!PairTogether
  <1>1. CASE Quiet \/ Impersonates
    BY <1>1 DEF Quiet, Impersonates
  <1>2. ASSUME NEW C \in SUBSET Callers, Leaves(C) PROVE store' \in Stored /\ Console!PairTogether'
    BY <1>2 DEF Leaves
  <1>3. ASSUME NEW c \in Callers, Presents(c) PROVE store' \in Stored /\ Console!PairTogether'
    BY <1>3 DEF Presents
  <1>4. ASSUME NEW c \in Callers, Renews(c) PROVE store' \in Stored /\ Console!PairTogether'
    BY <1>4, Taken DEF Renews
  <1>5. ASSUME NEW f \in Families, Opens(f) PROVE store' \in Stored /\ Console!PairTogether'
    BY <1>5 DEF Opens
  <1> QED
    BY <1>1, <1>2, <1>3, <1>4, <1>5 DEF ConsoleMove

\* The types of the rest of the console's state.
OthersTyped ==
  /\ page \in [Tabs -> Console!Pages]
  /\ leaving \in [Tabs -> Console!Pages \cup {"stay"}]
  /\ checked \subseteq Tabs /\ authed \subseteq Tabs /\ status \subseteq Tabs
  /\ verify \in [Tabs -> [BOOLEAN -> 0..MaxChecks]]
  /\ login \in [Tabs -> Console!Logins]

JobsTyped ==
  /\ job \in [Callers -> Console!Jobs]
  /\ \A c \in Callers : job[c] = "refresh" <=> exch[c] # NoExchange

\* These are the parts of ConsoleTypeOK.
LEMMA ConsoleTypes == Console!ConsoleTypeOK <=> store \in Stored /\ OthersTyped /\ JobsTyped
  BY ConsoleNames DEF Console!ConsoleTypeOK, Stored, OthersTyped, JobsTyped

\* The guard starts a verification only while there is room for one.
LEMMA EffectTyped ==
  ASSUME OthersTyped, NEW t \in Tabs, NEW p \in Console!Pages, NEW s, NEW cause,
         Console!Effect(t, p, s, cause)
  PROVE  /\ page' \in [Tabs -> Console!Pages]
         /\ checked' \subseteq Tabs /\ authed' \subseteq Tabs /\ status' \subseteq Tabs
         /\ verify' \in [Tabs -> [BOOLEAN -> 0..MaxChecks]]
  <1> DEFINE before == IF cause = "load" THEN Console!NoChecks ELSE verify[t]
             starts == s.access # NoToken /\ p # "setup"
  <1>1. page' \in [Tabs -> Console!Pages]
    BY DEF Console!Effect, OthersTyped
  <1>2. checked' \subseteq Tabs /\ authed' \subseteq Tabs /\ status' \subseteq Tabs
    BY DEF Console!Effect, OthersTyped
  <1>3. before \in [BOOLEAN -> 0..MaxChecks]
    BY KindsAssumption DEF Console!NoChecks, OthersTyped
  <1>4. /\ starts => before[TRUE] + before[FALSE] < MaxChecks
        /\ verify' = [verify EXCEPT ![t] =
             IF starts THEN [before EXCEPT ![p \in Console!Public] = @ + 1] ELSE before]
    BY DEF Console!Effect
  <1> HIDE DEF before, starts
  <1>5. ASSUME starts, NEW pub \in BOOLEAN
        PROVE  [before EXCEPT ![pub] = @ + 1] \in [BOOLEAN -> 0..MaxChecks]
    <2>1. before[TRUE] \in 0..MaxChecks /\ before[FALSE] \in 0..MaxChecks /\ MaxChecks \in Nat
      BY <1>3, KindsAssumption
    <2>2. before[TRUE] + 1 \in 0..MaxChecks /\ before[FALSE] + 1 \in 0..MaxChecks
      <3>1. \A a, b, m \in Nat : a + b < m => a + 1 \in 0..m /\ b + 1 \in 0..m
        OBVIOUS
      <3>2. before[TRUE] + before[FALSE] < MaxChecks
        BY <1>4, <1>5
      <3>3. MaxChecks \in Nat /\ \A a \in 0..MaxChecks : a \in Nat
        BY KindsAssumption
      <3>4. before[TRUE] \in Nat /\ before[FALSE] \in Nat
        BY <2>1, <3>3, Zenon
      <3> QED BY <3>1, <3>2, <3>3, <3>4, Zenon
    <2>3. pub = TRUE \/ pub = FALSE
      OBVIOUS
    <2>4. before[pub] + 1 \in 0..MaxChecks
      BY <2>2, <2>3
    <2> QED BY <2>4, <1>3
  <1>6. verify' \in [Tabs -> [BOOLEAN -> 0..MaxChecks]]
    <2>1. starts => [before EXCEPT ![p \in Console!Public] = @ + 1] \in [BOOLEAN -> 0..MaxChecks]
      BY <1>5
    <2> QED BY <2>1, <1>3, <1>4 DEF OthersTyped
  <1> QED BY <1>1, <1>2, <1>6

\* A finished verification was one under way.
LEMMA VerifyDone ==
  ASSUME OthersTyped, NEW t \in Tabs, NEW pub \in BOOLEAN, verify[t][pub] > 0,
         verify' = [verify EXCEPT ![t][pub] = @ - 1]
  PROVE  verify' \in [Tabs -> [BOOLEAN -> 0..MaxChecks]]
  <1> DEFINE v == verify[t]
  <1>1. v \in [BOOLEAN -> 0..MaxChecks] /\ v[pub] > 0 /\ MaxChecks \in Nat
    BY KindsAssumption DEF OthersTyped
  <1>2. v[pub] - 1 \in 0..MaxChecks
    BY <1>1
  <1>3. [v EXCEPT ![pub] = @ - 1] \in [BOOLEAN -> 0..MaxChecks]
    BY <1>1, <1>2
  <1>4. verify' = [verify EXCEPT ![t] = [v EXCEPT ![pub] = @ - 1]]
    BY DEF OthersTyped
  <1> QED BY <1>3, <1>4 DEF OthersTyped

\* Pages, navigations and sign-ins keep their types.
LEMMA OthersKept ==
  ASSUME OthersTyped, Console!ConsoleStep
  PROVE  OthersTyped'
  <1> USE DEF Console!Pages, Console!Logins, Console!Public
  <1>1. ASSUME NEW t \in Tabs, ConsoleTab(t) PROVE OthersTyped'
    <2>1. ASSUME NEW p \in Console!Pages, Console!Load(t, p) PROVE OthersTyped'
      BY <2>1, EffectTyped DEF Console!Load, OthersTyped
    <2>2. ASSUME NEW p \in Console!Public, Console!StatusReply(t, p) PROVE OthersTyped'
      <3>1. CASE page[t] = p
        BY <2>2, <3>1 DEF Console!StatusReply, OthersTyped
      <3>2. CASE page[t] # p
        BY <2>2, <3>2, EffectTyped DEF Console!StatusReply, OthersTyped
      <3> QED BY <3>1, <3>2
    <2>3. ASSUME NEW pub \in BOOLEAN, Console!VerifyRejected(t, pub) PROVE OthersTyped'
      BY <2>3, VerifyDone DEF Console!VerifyRejected, OthersTyped
    <2>4. ASSUME NEW pub \in BOOLEAN, Console!VerifyAccepted(t, pub) PROVE OthersTyped'
      BY <2>4, VerifyDone DEF Console!VerifyAccepted, OthersTyped
    <2>5. CASE Console!Unload(t)
      <3>1. leaving[t] \in Console!Pages
        BY <2>5 DEF Console!Unload, Console!Stay, OthersTyped
      <3> QED BY <2>1, <2>5, <3>1 DEF Console!Unload
    <2>6. CASE Console!SignOut(t) \/ Console!Submit(t) \/ Console!SignInFails(t)
      BY <2>6 DEF Console!SignOut, Console!Submit, Console!SignInFails, OthersTyped
    <2>7. CASE Console!Callback(t)
      <3>1. login' = [login EXCEPT ![t] = "exchange"] \/ login' = [login EXCEPT ![t] = "none"]
        BY <2>7 DEF Console!Callback
      <3> QED BY <2>7, <3>1 DEF Console!Callback, OthersTyped
    <2>8. CASE Console!SocialCallback(t)
      BY <2>8, EffectTyped DEF Console!SocialCallback, OthersTyped
    <2>9. ASSUME NEW p \in {"app", "login"}, Console!Navigate(t, p) PROVE OthersTyped'
      BY <2>9, EffectTyped DEF Console!Navigate, OthersTyped
    <2>10. ASSUME NEW how \in {"flow", "social"}, Console!Redirect(t, how) PROVE OthersTyped'
      BY <2>10 DEF Console!Redirect, OthersTyped
    <2>11. ASSUME NEW s, Console!SignsIn(t, s) PROVE OthersTyped'
      <3>1. CASE login[t] = "boot"
        BY <2>11, <3>1 DEF Console!SignsIn, OthersTyped
      <3>2. CASE login[t] # "boot"
        BY <2>11, <3>2, EffectTyped DEF Console!SignsIn, OthersTyped
      <3> QED BY <3>1, <3>2
    <2>12. CASE Console!SignedInBare(t) \/ \E f \in Families : Console!SignedIn(t, f)
      BY <2>11, <2>12 DEF Console!SignedInBare, Console!SignedIn
    <2> QED
      BY <1>1, <2>1, <2>2, <2>3, <2>4, <2>5, <2>6, <2>7, <2>8, <2>9, <2>10, <2>12
         DEF ConsoleTab, Console!Reload, Console!GuardReply
  <1>2. ASSUME NEW c \in Callers, ConsoleCall(c) PROVE OthersTyped'
    <2>1. TabOf[c] \in Tabs
      BY EndpointAssumption
    <2>2. CASE Console!Request(c) \/ Console!Answered(c) \/ Console!RetryAnswered(c)
                 \/ Console!Rejected(c) \/ Console!Refreshed(c)
      BY <2>2 DEF Console!Request, Console!Answered, Console!RetryAnswered, Console!Rejected,
         Console!Refreshed, OthersTyped
    <2>3. CASE Console!RejectedForGood(c) \/ Console!RetryFailed(c) \/ Console!RefreshFailed(c)
      BY <2>1, <2>3 DEF Console!RejectedForGood, Console!RetryFailed, Console!RefreshFailed,
         Console!Unauthorized, OthersTyped
    <2>4. CASE Console!Impersonated(c)
      BY <2>1, <2>4 DEF Console!Impersonated, OthersTyped
    <2> QED
      BY <1>2, <2>2, <2>3, <2>4 DEF ConsoleCall, Console!RefreshReply
  <1> QED
    BY <1>1, <1>2 DEF Console!ConsoleStep, ConsoleTab, ConsoleCall

\* A call waits for a refresh exactly while its exchange is under way.
LEMMA JobsKept ==
  ASSUME EndpointTypeOK, JobsTyped, Console!ConsoleStep
  PROVE  JobsTyped'
  <1> USE ConsoleNames, Idle DEF Console!Jobs, endpointVars, Console!endpointVars, JobsTyped
  <1>1. ASSUME NEW t \in Tabs, ConsoleTab(t) PROVE JobsTyped'
    <2>1. ASSUME NEW p, Console!Load(t, p) PROVE JobsTyped'
      BY <2>1 DEF Console!Load, Drop
    <2>2. CASE Console!GuardReply(t)
      <3>1. ASSUME NEW p \in Console!Public, Console!StatusReply(t, p) PROVE JobsTyped'
        BY <3>1 DEF Console!StatusReply
      <3>2. ASSUME NEW pub \in BOOLEAN, Console!VerifyRejected(t, pub) \/ Console!VerifyAccepted(t, pub)
            PROVE  JobsTyped'
        BY <3>2 DEF Console!VerifyRejected, Console!VerifyAccepted
      <3> QED
        BY <2>1, <2>2, <3>1, <3>2 DEF Console!GuardReply, Console!Unload
    <2>3. CASE Console!SignOut(t) \/ Console!Submit(t) \/ Console!SignInFails(t) \/ Console!Callback(t)
                 \/ Console!SocialCallback(t)
      BY <2>3 DEF Console!SignOut, Console!Submit, Console!SignInFails, Console!Callback,
         Console!SocialCallback
    <2>4. ASSUME NEW p \in {"app", "login"}, Console!Navigate(t, p) PROVE JobsTyped'
      BY <2>4 DEF Console!Navigate
    <2>5. ASSUME NEW how \in {"flow", "social"}, Console!Redirect(t, how) PROVE JobsTyped'
      BY <2>5 DEF Console!Redirect
    <2>6. CASE Console!SignedInBare(t) \/ \E f \in Families : Console!SignedIn(t, f)
      BY <2>6 DEF Console!SignedInBare, Console!SignedIn, Console!SignsIn, Grant
    <2> QED
      BY <1>1, <2>1, <2>2, <2>3, <2>4, <2>5, <2>6 DEF ConsoleTab, Console!Reload
  <1>2. ASSUME NEW c \in Callers, ConsoleCall(c) PROVE JobsTyped'
    <2>1. CASE Console!Request(c) \/ Console!Answered(c) \/ Console!RetryAnswered(c)
                 \/ Console!RejectedForGood(c) \/ Console!RetryFailed(c) \/ Console!Impersonated(c)
      BY <2>1 DEF Console!Request, Console!Answered, Console!RetryAnswered, Console!RejectedForGood,
         Console!RetryFailed, Console!Impersonated, Console!Finish
    <2>2. CASE Console!Rejected(c)
      <3>1. exch'[c] # NoExchange /\ \A d \in Callers : d # c => exch'[d] = exch[d]
        BY <2>2 DEF Console!Rejected, Ask, EndpointTypeOK
      <3> QED BY <2>2, <3>1 DEF Console!Rejected
    <2>3. CASE Console!Refreshed(c)
      <3>1. exch'[c] = NoExchange /\ \A d \in Callers : d # c => exch'[d] = exch[d]
        BY <2>3 DEF Console!Refreshed, Take, EndpointTypeOK
      <3> QED BY <2>3, <3>1 DEF Console!Refreshed
    <2>4. CASE Console!RefreshFailed(c)
      <3>1. exch'[c] = NoExchange /\ \A d \in Callers : d # c => exch'[d] = exch[d]
        BY <2>4 DEF Console!RefreshFailed, Drop
      <3> QED BY <2>4, <3>1 DEF Console!RefreshFailed, Console!Finish
    <2> QED
      BY <1>2, <2>1, <2>2, <2>3, <2>4 DEF ConsoleCall, Console!RefreshReply
  <1> QED
    BY <1>1, <1>2 DEF Console!ConsoleStep, ConsoleTab, ConsoleCall

-----------------------------------------------------------------------------
(* The three clients together. *)

\* The inductive invariant of what each client keeps for itself.
Kept ==
  /\ ClientsTypeOK /\ PairTogether /\ AlwaysRefreshing
  /\ kind = "native" => Framed

\* Where each kind of client keeps its refresh token.
LEMMA StoredIs ==
  /\ kind = "console" => StoredNow = store.refresh
  /\ kind = "react" => StoredNow = cell.tok
  /\ kind = "native" => StoredNow = session.tok
  BY DEF StoredNow

\* What is stored is a token or nothing.
LEMMA StoredTyped ==
  ASSUME ClientsTypeOK
  PROVE  StoredNow \in Token \cup {NoToken}
  <1>1. CASE kind = "console"
    BY <1>1, StoredIs, ConsoleTypes DEF ClientsTypeOK, Stored
  <1>2. CASE kind = "react"
    BY <1>2, StoredIs, TokenSets DEF ClientsTypeOK, React!ReactTypeOK
  <1>3. CASE kind = "native"
    BY <1>3, StoredIs, Sessions DEF ClientsTypeOK, Native!NativeTypeOK
  <1> QED
    BY <1>1, <1>2, <1>3, KindsAssumption DEF ClientsTypeOK

\* Every step of every client is a step TokenClient allows.
LEMMA Simulation ==
  ASSUME ClientsTypeOK, [Next]_vars
  PROVE  kind' = kind /\ [CommonStep]_<<endpointVars, StoredNow>>
  <1>1. CASE UNCHANGED vars
    BY <1>1 DEF vars, clientVars, consoleVars, reactVars, nativeVars, StoredNow
  <1>2. CASE ServerStep /\ UNCHANGED clientVars
    BY <1>2 DEF clientVars, consoleVars, reactVars, nativeVars, StoredNow, CommonStep, Allowed
  <1>3. CASE AsConsole /\ Console!ConsoleStep
    <2>1. kind = "console" /\ kind' = "console"
      BY <1>3 DEF AsConsole
    <2>2. Allowed(store.refresh, store'.refresh)
      BY <1>3, <2>1, ConsoleMoves, ConsoleAllowed, ConsoleTypes DEF ClientsTypeOK
    <2>3. StoredNow = store.refresh /\ StoredNow' = store'.refresh
      BY <2>1 DEF StoredNow
    <2> QED BY <2>1, <2>2, <2>3 DEF CommonStep
  <1>4. CASE AsReact /\ React!ReactStep
    <2>1. kind = "react" /\ kind' = "react"
      BY <1>4 DEF AsReact
    <2>2. Allowed(cell.tok, cell'.tok)
      BY <1>4, ReactAllowed DEF ClientsTypeOK
    <2>3. StoredNow = cell.tok /\ StoredNow' = cell'.tok
      BY <2>1 DEF StoredNow
    <2> QED BY <2>1, <2>2, <2>3 DEF CommonStep
  <1>5. CASE AsNative /\ Native!NativeStep
    <2>1. kind = "native" /\ kind' = "native"
      BY <1>5 DEF AsNative
    <2>2. Allowed(session.tok, session'.tok)
      BY <1>5, <2>1, NativeAllowed DEF ClientsTypeOK
    <2>3. StoredNow = session.tok /\ StoredNow' = session'.tok
      BY <2>1 DEF StoredNow
    <2> QED BY <2>1, <2>2, <2>3 DEF CommonStep
  <1> QED
    BY <1>1, <1>2, <1>3, <1>4, <1>5 DEF Next

\* So the endpoint's types hold after every step.
LEMMA EndpointKept ==
  ASSUME ClientsTypeOK, [Next]_vars
  PROVE  EndpointTypeOK'
  <1>1. Promise!TypeOK
    BY StoredTyped, CommonPromise DEF ClientsTypeOK
  <1>2. [Promise!Next]_Promise!vars
    BY Simulation, CommonPromise DEF endpointVars, Promise!vars, Promise!endpointVars
  <1>3. Promise!TypeOK'
    BY <1>1, <1>2, EndpointAssumption, Promise!TypeNext DEF Promise!TypeNext
  <1> QED
    BY <1>3 DEF Promise!TypeOK, Promise!EndpointTypeOK, EndpointTypeOK, Promise!Token, Token,
                Promise!Exchange, Exchange, Promise!NoExchange, NoExchange

\* The server's steps change nothing a client keeps for itself.
LEMMA KeptServer ==
  ASSUME Kept, EndpointTypeOK', ServerStep \/ UNCHANGED endpointVars, UNCHANGED clientVars
  PROVE  Kept'
  <1>1. UNCHANGED <<kind, store, page, leaving, checked, authed, status, verify, login, job,
                    cell, mem, auth, armed, profile, stranded, session, pc, depth>>
    BY DEF clientVars, consoleVars, reactVars, nativeVars
  <1>2. \A c \in Callers : exch'[c] = NoExchange <=> exch[c] = NoExchange
    BY ExchangesKept DEF Kept, ClientsTypeOK, endpointVars
  <1>3. CASE kind = "console"
    <2>1. store \in Stored /\ OthersTyped /\ JobsTyped
      BY <1>3, ConsoleTypes DEF Kept, ClientsTypeOK
    <2>2. store' \in Stored /\ OthersTyped' /\ JobsTyped'
      BY <2>1, <1>1, <1>2 DEF Stored, OthersTyped, JobsTyped
    <2>3. Console!ConsoleTypeOK'
      BY <2>2 DEF Console!ConsoleTypeOK, Stored, OthersTyped, JobsTyped, Console!Token, Token,
                  Console!NoExchange, NoExchange
    <2>4. Console!PairTogether'
      BY <1>1, <1>3 DEF Kept, PairTogether, Console!PairTogether
    <2> QED
      BY <2>3, <2>4, <1>1, <1>3 DEF Kept, ClientsTypeOK, PairTogether, AlwaysRefreshing
  <1>4. CASE kind = "react"
    <2>1. React!ReactTypeOK' /\ React!AlwaysRefreshing'
      BY <1>1, <1>2, <1>4, ReactNames
         DEF Kept, ClientsTypeOK, AlwaysRefreshing, React!ReactTypeOK, React!AlwaysRefreshing
    <2> QED
      BY <2>1, <1>1, <1>4 DEF Kept, ClientsTypeOK, PairTogether, AlwaysRefreshing
  <1>5. CASE kind = "native"
    <2>1. Native!NativeTypeOK' /\ Framed'
      BY <1>1, <1>2, <1>5, NativeNames DEF Kept, ClientsTypeOK, Native!NativeTypeOK, Framed
    <2> QED
      BY <2>1, <1>1, <1>5 DEF Kept, ClientsTypeOK, PairTogether, AlwaysRefreshing
  <1> QED
    BY <1>3, <1>4, <1>5, KindsAssumption DEF Kept, ClientsTypeOK

\* Nor does a client disturb what it keeps.
LEMMA KeptNext ==
  ASSUME Kept, [Next]_vars
  PROVE  Kept'
  <1>1. EndpointTypeOK' /\ EndpointTypeOK /\ kind' = kind /\ kind \in Kinds
    BY EndpointKept, Simulation DEF Kept, ClientsTypeOK
  <1>2. CASE UNCHANGED vars \/ (ServerStep /\ UNCHANGED clientVars)
    BY <1>1, <1>2, KeptServer DEF vars
  <1>3. CASE AsConsole /\ Console!ConsoleStep
    <2>1. kind = "console" /\ kind' = "console"
      BY <1>3 DEF AsConsole
    <2>2. store \in Stored /\ OthersTyped /\ JobsTyped /\ Console!PairTogether
      BY <2>1, ConsoleTypes DEF Kept, ClientsTypeOK, PairTogether
    <2>3. store' \in Stored /\ Console!PairTogether'
      BY <1>1, <1>3, <2>2, ConsoleMoves, ConsolePairs
    <2>4. OthersTyped' /\ JobsTyped'
      BY <1>1, <1>3, <2>2, OthersKept, JobsKept
    <2>5. Console!ConsoleTypeOK'
      BY <2>3, <2>4 DEF Console!ConsoleTypeOK, Stored, OthersTyped, JobsTyped, Console!Token, Token,
                  Console!NoExchange, NoExchange
    <2> QED
      BY <1>1, <2>1, <2>3, <2>5 DEF Kept, ClientsTypeOK, PairTogether, AlwaysRefreshing
  <1>4. CASE AsReact /\ React!ReactStep
    <2>1. kind = "react" /\ kind' = "react"
      BY <1>4 DEF AsReact
    <2>2. React!ReactTypeOK' /\ React!AlwaysRefreshing'
      BY <1>1, <1>4, <2>1, ReactKept DEF Kept, ClientsTypeOK, AlwaysRefreshing
    <2> QED
      BY <1>1, <2>1, <2>2 DEF Kept, ClientsTypeOK, PairTogether, AlwaysRefreshing
  <1>5. CASE AsNative /\ Native!NativeStep
    <2>1. kind = "native" /\ kind' = "native"
      BY <1>5 DEF AsNative
    <2>2. Native!NativeTypeOK' /\ Framed'
      BY <1>1, <1>5, <2>1, NativeKept DEF Kept, ClientsTypeOK
    <2> QED
      BY <1>1, <2>1, <2>2 DEF Kept, ClientsTypeOK, PairTogether, AlwaysRefreshing
  <1> QED
    BY <1>2, <1>3, <1>4, <1>5 DEF Next

\* Nothing is stored and nobody is signed in at first.
LEMMA KeptInit ==
  ASSUME Init
  PROVE  Kept /\ StoredNow = NoToken
  <1>1. EndpointTypeOK /\ kind \in Kinds /\ \A c \in Callers : exch[c] = NoExchange
    BY Idle DEF Init, EndpointInit, EndpointTypeOK
  <1>2. store \in Stored /\ OthersTyped /\ JobsTyped
    <2>1. Console!NoChecks \in [BOOLEAN -> 0..MaxChecks]
      BY KindsAssumption DEF Console!NoChecks
    <2> QED
      BY <1>1, <2>1, Storages DEF Init, Console!ConsoleInit, OthersTyped, JobsTyped, Console!Pages,
         Console!Logins, Console!Jobs
  <1>3. Console!PairTogether /\ store.refresh = NoToken
    BY Storages DEF Init, Console!ConsoleInit, Console!PairTogether
  <1>4. React!ReactTypeOK /\ React!AlwaysRefreshing /\ cell.tok = NoToken
    BY TokenSets DEF Init, React!ReactInit, React!ReactTypeOK, React!AlwaysRefreshing
  <1>5. Native!NativeTypeOK /\ Framed /\ session.tok = NoToken
    BY <1>1, Sessions, NativeNames, KindsAssumption
       DEF Init, Native!NativeInit, Native!NativeTypeOK, Native!Steps, Framed
  <1>6. StoredNow = NoToken
    BY <1>1, <1>3, <1>4, <1>5, StoredIs, KindsAssumption
  <1> QED
    BY <1>1, <1>2, <1>3, <1>4, <1>5, <1>6, ConsoleTypes
       DEF Kept, ClientsTypeOK, PairTogether, AlwaysRefreshing

-----------------------------------------------------------------------------
(* The theorems. *)

\* What each client keeps for itself holds before the first login and after
\* every step.
THEOREM KeptAlways == Spec => []Kept
  <1>1. Init => Kept
    BY KeptInit
  <1>2. Kept /\ [Next]_vars => Kept'
    BY KeptNext
  <1> QED
    BY <1>1, <1>2, PTL DEF Spec

\* Every state of every client and of the endpoint is of the declared types.
THEOREM TypeCorrect == Spec => []ClientsTypeOK
  <1>1. Kept => ClientsTypeOK
    BY DEF Kept
  <1> QED
    BY <1>1, KeptAlways, PTL

\* The console's storage never holds a refresh token without the access token
\* issued with it, or one that came without a refresh token of its own.
THEOREM PairsTogether == Spec => []PairTogether
  <1>1. Kept => PairTogether
    BY DEF Kept
  <1> QED
    BY <1>1, KeptAlways, PTL

\* A provider with a token set whose expiry it can tell has its refresh scheduled
\* or under way, or its timer found no refresh token in the storage.
THEOREM KeepsRefreshing == Spec => []AlwaysRefreshing
  <1>1. Kept => AlwaysRefreshing
    BY DEF Kept
  <1> QED
    BY <1>1, KeptAlways, PTL

\* The console, the provider and the native client implement TokenClient: each
\* presents only what it stores and stores only what it is handed.
THEOREM Implements == Spec => ImplementsTokenClient
  <1>1. Init => Client!Init
    BY KeptInit, CommonClient DEF Init
  <1>2. Kept /\ [Next]_vars => [Client!Next]_Client!vars
    BY Simulation, CommonClient DEF Kept, endpointVars, Client!vars, Client!endpointVars
  <1> QED
    BY <1>1, <1>2, KeptAlways, PTL DEF Spec, ImplementsTokenClient, Client!Spec

\* So TokenClient's inductive invariant holds of what the clients store.
THEOREM PromiseKept == Spec => []Promise!IInv
  <1>1. Init => Promise!IInv
    BY KeptInit, CommonPromise, EndpointAssumption, Promise!InvInit DEF Init, Promise!InvInit
  <1>2. Kept /\ [Next]_vars => [Promise!Next]_Promise!vars
    BY Simulation, CommonPromise DEF Kept, endpointVars, Promise!vars, Promise!endpointVars
  <1>3. Promise!IInv /\ [Promise!Next]_Promise!vars => Promise!IInv'
    BY EndpointAssumption, Promise!InvNext DEF Promise!InvNext
  <1> QED
    BY <1>1, <1>2, <1>3, KeptAlways, PTL DEF Spec

\* In each client a stored token that the server has replaced is explained by
\* an answer on its way or by something lost.
THEOREM StoredLive == Spec => []StoredTokenLive
  <1>1. Promise!IInv => StoredTokenLive
    BY DEF Promise!IInv, Promise!StoredTokenLive, StoredTokenLive, Client!StoredTokenLive
  <1> QED
    BY <1>1, PromiseKept, PTL

\* Reuse detection hits a login of these clients only after a race or a loss.
THEOREM CausedReuse == Spec => []ReuseHasCause
  <1>1. Promise!IInv => ReuseHasCause
    BY DEF Promise!IInv, Promise!ReuseHasCause, ReuseHasCause, Client!ReuseHasCause
  <1> QED
    BY <1>1, PromiseKept, PTL

\* No client goes back to an older token of the same login, in whatever order
\* the answers of its callers arrive.
THEOREM Monotone == Spec => NoRollback
  <1>1. Kept /\ [Next]_vars => [Promise!Next]_Promise!vars
    BY Simulation, CommonPromise DEF Kept, endpointVars, Promise!vars, Promise!endpointVars
  <1>2. Promise!IInv /\ [Promise!Next]_Promise!vars => [Promise!Forward]_Promise!vars
    BY EndpointAssumption, Promise!ForwardStep DEF Promise!ForwardStep
  <1>3. [Promise!Forward]_Promise!vars =>
          [(StoredNow # NoToken /\ StoredNow' # NoToken /\ StoredNow'.fam = StoredNow.fam)
             => StoredNow'.n >= StoredNow.n]_Client!vars
    BY CommonClient, CommonPromise DEF Promise!Forward, Client!vars, Promise!vars,
       Client!endpointVars, Promise!endpointVars
  <1> QED
    BY <1>1, <1>2, <1>3, KeptAlways, PromiseKept, PTL DEF Spec, NoRollback, Client!NoRollback
=============================================================================
