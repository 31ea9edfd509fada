-------------------------- MODULE AuthorizationCode --------------------------
(***************************************************************************)
(* The authorization-code grant of the OAuth service: the /oauth/authorize *)
(* side (Authorize) and any number of /oauth/token requests, each of which *)
(* is one action per call to a store:                                      *)
(*   - the state keys oauth:state:<client>:<state>, in Redis and, when     *)
(*     Redis fails, in the process's own map (redisStates, memStates),     *)
(*   - the table oauth_authorization_codes (status, rec),                  *)
(*   - the INSERT of the refresh token that roots a family.                *)
(* pc[p] names the NEXT call of request p; every request runs once.  A     *)
(* code stands for its secret and its hash, a verifier for its challenge.  *)
(***************************************************************************)
EXTENDS FiniteSets, Naturals

CONSTANTS
  Requests,    \* requests to the token endpoint
  Codes,       \* authorization codes
  Clients,
  Public,      \* clients that must use PKCE: public ones and those with RequirePKCE
  Uris,
  Registered,  \* redirect URIs of each client
  Verifiers,
  States,      \* values of the state parameter
  MaxFaults,   \* bound on store failures in one behaviour
  None         \* no challenge or verifier, no record

ASSUME CodeAssumption ==
  /\ Public \subseteq Clients
  /\ Registered \in [Clients -> SUBSET Uris]
  /\ MaxFaults \in Nat
  /\ None \notin Verifiers

VARIABLES
  status,       \* state of each code's row: used, or removed
  rec,          \* what was authorized
  expired,      \* codes past expires_at
  redisStates,  \* state keys in Redis
  memStates,    \* state keys in the map stateStore
  enabled,      \* clients that exist and are enabled
  pc,           \* next call of each request
  arg,          \* parameters of each request
  faults,       \* store failures so far
  accepted,     \* history: the states accepted, and for which request
  got           \* history: the requests answered with tokens, by code

codeVars  == <<status, rec, expired>>
stateVars == <<redisStates, memStates>>
histVars  == <<accepted, got>>
vars == <<status, rec, expired, redisStates, memStates, enabled, pc, arg,
          faults, accepted, got>>

Challenge == Verifiers \cup {None}
StateKey  == Clients \X States
Grant     == [client: Clients, uri: Uris, challenge: Challenge, state: States, offline: BOOLEAN]
Params    == [client: Clients, code: Codes, uri: Uris, verifier: Challenge, state: States]
Steps     == {"idle", "state", "memload", "memdel", "client", "consume", "issue", "refresh", "done"}

TypeOK ==
  /\ status \in [Codes -> {"absent", "open", "used", "gone"}]
  /\ rec \in [Codes -> Grant \cup {None}]
  /\ \A g \in Codes : status[g] # "absent" => rec[g] \in Grant
  /\ expired \subseteq Codes
  /\ redisStates \subseteq StateKey /\ memStates \subseteq StateKey
  /\ enabled \subseteq Clients
  /\ pc \in [Requests -> Steps]
  /\ arg \in [Requests -> Params \cup {None}]
  /\ \A p \in Requests : pc[p] \notin {"idle", "done"} =>
       arg[p] \in Params /\ status[arg[p].code] # "absent"
  /\ faults \in 0..MaxFaults
  /\ accepted \subseteq Requests \X StateKey
  /\ got \in [Codes -> SUBSET Requests]

Init ==
  /\ status = [g \in Codes |-> "absent"]
  /\ rec = [g \in Codes |-> None]
  /\ expired = {}
  /\ redisStates = {} /\ memStates = {}
  /\ enabled = Clients
  /\ pc = [p \in Requests |-> "idle"]
  /\ arg = [p \in Requests |-> None]
  /\ faults = 0
  /\ accepted = {}
  /\ got = [g \in Codes |-> {}]

-----------------------------------------------------------------------------
Goto(p, step) == pc' = [pc EXCEPT ![p] = step]
Code(p)       == arg[p].code
StateOf(p)    == <<arg[p].client, arg[p].state>>
Refuse(p)     == Goto(p, "done") /\ arg' = [arg EXCEPT ![p] = None]
Fault         == faults < MaxFaults /\ faults' = faults + 1

\* The checks on the consumed code: client, redirect URI, PKCE.
Matches(g, a) == /\ rec[g].client = a.client
                 /\ rec[g].uri = a.uri
                 /\ rec[g].challenge \in {None, a.verifier}

\* The conditions of the UPDATE that consumes a code.
Consumable(g) == status[g] = "open" /\ g \notin expired

(***************************************************************************)
(* Faulty variants of the definitions below, one plausible mistake each:   *)
(* every property is violated by one of them.                              *)
(***************************************************************************)

\* The INSERT leaves the columns out.
Authorize_EmptyRow(g, r) ==
  /\ status[g] = "absent"
  /\ r.client \in enabled
  /\ status' = [status EXCEPT ![g] = "open"]
  /\ UNCHANGED <<rec, expired, stateVars, enabled, pc, arg, faults, histVars>>

\* The UPDATE lacks used = false.
ConsumeCode_Reusable(p) ==
  /\ pc[p] = "consume"
  /\ status[Code(p)] \in {"open", "used"} /\ Code(p) \notin expired
  /\ status' = [status EXCEPT ![Code(p)] = "used"]
  /\ IF Matches(Code(p), arg[p]) THEN Goto(p, "issue") /\ UNCHANGED arg ELSE Refuse(p)
  /\ UNCHANGED <<rec, expired, stateVars, enabled, faults, histVars>>

\* ValidatePKCE is forgotten.
ConsumeCode_NoPKCE(p) ==
  /\ pc[p] = "consume"
  /\ Consumable(Code(p))
  /\ status' = [status EXCEPT ![Code(p)] = "used"]
  /\ IF rec[Code(p)].client = arg[p].client /\ rec[Code(p)].uri = arg[p].uri
       THEN Goto(p, "issue") /\ UNCHANGED arg ELSE Refuse(p)
  /\ UNCHANGED <<rec, expired, stateVars, enabled, faults, histVars>>

(***************************************************************************)
(* The authorize endpoint.                                                 *)
(***************************************************************************)

\* CreateAuthorizationCode: the code's row, then the state key, in the map if
\* Redis fails.  The code is returned afterwards: nobody can present it before,
\* and one whose authorization failed after the INSERT is known to nobody.
Authorize(g, r) ==
  /\ status[g] = "absent"
  /\ r.client \in enabled
  /\ r.uri \in Registered[r.client]
  /\ r.client \in Public => r.challenge # None
  /\ status' = [status EXCEPT ![g] = "open"]
  /\ rec' = [rec EXCEPT ![g] = r]
  /\ \/ /\ redisStates' = redisStates \cup {<<r.client, r.state>>}
        /\ UNCHANGED <<memStates, faults>>
     \/ /\ Fault
        /\ memStates' = memStates \cup {<<r.client, r.state>>}
        /\ UNCHANGED redisStates
  /\ UNCHANGED <<expired, enabled, pc, arg, histVars>>

(***************************************************************************)
(* The token endpoint.                                                     *)
(***************************************************************************)
StartExchange(p, a) ==
  /\ pc[p] = "idle"
  /\ status[a.code] # "absent"
  /\ Goto(p, "state")
  /\ arg' = [arg EXCEPT ![p] = a]
  /\ UNCHANGED <<codeVars, stateVars, enabled, faults, histVars>>

\* ValidateState: GETDEL on the key ...
StateFound(p) ==
  /\ pc[p] = "state"
  /\ StateOf(p) \in redisStates
  /\ redisStates' = redisStates \ {StateOf(p)}
  /\ accepted' = accepted \cup {<<p, StateOf(p)>>}
  /\ Goto(p, "client")
  /\ UNCHANGED <<codeVars, memStates, enabled, arg, faults, got>>

\* ... then, after a miss as well as after a failure, the map: Load ...
StateMissing(p) ==
  /\ pc[p] = "state"
  /\ \/ StateOf(p) \notin redisStates /\ UNCHANGED faults
     \/ Fault
  /\ Goto(p, "memload")
  /\ UNCHANGED <<codeVars, stateVars, enabled, arg, histVars>>

\* (an entry found expired is deleted, and the request refused)
LoadState(p) ==
  /\ pc[p] = "memload"
  /\ \/ /\ StateOf(p) \in memStates
        /\ Goto(p, "memdel") /\ UNCHANGED <<memStates, arg>>
     \/ /\ memStates' = memStates \ {StateOf(p)}
        /\ Refuse(p)
  /\ UNCHANGED <<codeVars, redisStates, enabled, faults, histVars>>

\* ... and Delete, a call of its own.
DeleteState(p) ==
  /\ pc[p] = "memdel"
  /\ memStates' = memStates \ {StateOf(p)}
  /\ accepted' = accepted \cup {<<p, StateOf(p)>>}
  /\ Goto(p, "client")
  /\ UNCHANGED <<codeVars, redisStates, enabled, arg, faults, got>>

\* Client lookup, secret and Enabled: refused, or on to the code.
CheckClient(p) ==
  /\ pc[p] = "client"
  /\ \/ arg[p].client \in enabled /\ Goto(p, "consume") /\ UNCHANGED arg
     \/ Refuse(p)
  /\ UNCHANGED <<codeVars, stateVars, enabled, faults, histVars>>

\* ConsumeCode: the conditional UPDATE; the code is spent before the checks.
ConsumeCode(p) ==
  /\ pc[p] = "consume"
  /\ Consumable(Code(p))
  /\ status' = [status EXCEPT ![Code(p)] = "used"]
  /\ IF Matches(Code(p), arg[p]) THEN Goto(p, "issue") /\ UNCHANGED arg ELSE Refuse(p)
  /\ UNCHANGED <<rec, expired, stateVars, enabled, faults, histVars>>

ConsumeMisses(p) ==
  /\ pc[p] = "consume"
  /\ ~Consumable(Code(p))
  /\ Refuse(p)
  /\ UNCHANGED <<codeVars, stateVars, enabled, faults, histVars>>

\* The UPDATE fails, or its Commit does, with or without having taken effect.
ConsumeFails(p) ==
  /\ pc[p] = "consume"
  /\ Fault /\ Refuse(p)
  /\ \/ status' = [status EXCEPT ![Code(p)] = IF Consumable(Code(p)) THEN "used" ELSE @]
     \/ UNCHANGED status
  /\ UNCHANGED <<rec, expired, stateVars, enabled, histVars>>

Answer(p) ==
  /\ got' = [got EXCEPT ![Code(p)] = @ \cup {p}]
  /\ Goto(p, "done")

\* Access token and id token; the answer, unless a refresh token is due.
IssueTokens(p) ==
  /\ pc[p] = "issue"
  /\ IF rec[Code(p)].offline THEN Goto(p, "refresh") /\ UNCHANGED got ELSE Answer(p)
  /\ UNCHANGED <<codeVars, stateVars, enabled, arg, faults, accepted>>

\* issueRefreshTokenRecord: the INSERT is IssueRoot of RefreshRotation.
StoreRoot(p) ==
  /\ pc[p] = "refresh"
  /\ Answer(p)
  /\ UNCHANGED <<codeVars, stateVars, enabled, arg, faults, accepted>>

\* No token can be issued or stored: the code stays spent.
IssueFails(p) ==
  /\ pc[p] \in {"issue", "refresh"}
  /\ Fault /\ Refuse(p)
  /\ UNCHANGED <<codeVars, stateVars, enabled, histVars>>

Handler(p) ==
  \/ StateFound(p) \/ StateMissing(p) \/ LoadState(p) \/ DeleteState(p)
  \/ CheckClient(p) \/ ConsumeCode(p) \/ ConsumeMisses(p) \/ ConsumeFails(p)
  \/ IssueTokens(p) \/ StoreRoot(p) \/ IssueFails(p)

(***************************************************************************)
(* The clock, the cleanup and administration.                              *)
(***************************************************************************)
requestVars == <<pc, arg, faults, histVars>>

Expire(g) ==
  /\ status[g] \in {"open", "used"} /\ g \notin expired
  /\ expired' = expired \cup {g}
  /\ UNCHANGED <<status, rec, stateVars, enabled, requestVars>>

\* A state key in Redis reaches its TTL.
ExpireState(k) ==
  /\ k \in redisStates
  /\ redisStates' = redisStates \ {k}
  /\ UNCHANGED <<codeVars, memStates, enabled, requestVars>>

Remove(S) == status' = [g \in Codes |-> IF g \in S THEN "gone" ELSE status[g]]

\* The hourly cleanup: DELETE ... WHERE used = true OR expires_at < NOW().
Cleanup ==
  LET S == {g \in Codes : status[g] = "used" \/ (status[g] = "open" /\ g \in expired)}
  IN /\ S # {} /\ Remove(S)
     /\ UNCHANGED <<rec, expired, stateVars, enabled, requestVars>>

\* DeleteClient removes the client's codes in its own transaction.
DeleteClient(c) ==
  /\ enabled' = enabled \ {c}
  /\ Remove({g \in Codes : status[g] \in {"open", "used"} /\ rec[g].client = c})
  /\ UNCHANGED <<rec, expired, stateVars, requestVars>>

\* DeleteUser of the Identity service: so are the codes of a user.
DeleteUser(S) ==
  /\ S # {} /\ \A g \in S : status[g] \in {"open", "used"}
  /\ Remove(S)
  /\ UNCHANGED <<rec, expired, stateVars, enabled, requestVars>>

DisableClient(c) ==
  /\ c \in enabled
  /\ enabled' = enabled \ {c}
  /\ UNCHANGED <<codeVars, stateVars, requestVars>>

EnableClient(c) ==
  /\ c \notin enabled
  /\ enabled' = enabled \cup {c}
  /\ UNCHANGED <<codeVars, stateVars, requestVars>>

Environment ==
  \/ \E g \in Codes : Expire(g)
  \/ \E k \in StateKey : ExpireState(k)
  \/ \E c \in Clients : DeleteClient(c) \/ DisableClient(c) \/ EnableClient(c)
  \/ \E S \in SUBSET Codes : DeleteUser(S)
  \/ Cleanup

Next ==
  \/ \E g \in Codes, r \in Grant : Authorize(g, r)
  \/ \E p \in Requests, a \in Params : StartExchange(p, a)
  \/ \E p \in Requests : Handler(p)
  \/ Environment

Spec == Init /\ [][Next]_vars

-----------------------------------------------------------------------------
(***************************************************************************)
(* Properties.                                                             *)
(***************************************************************************)

\* A code is spent while a request that consumed it is issuing tokens, whatever
\* happens to its row meanwhile; one past its expiry is closed.
Spender(p, g) == pc[p] \in {"issue", "refresh"} /\ Code(p) = g

Phase(g) == IF status[g] = "absent" THEN "none"
            ELSE IF Consumable(g) THEN "open"
            ELSE IF \E p \in Requests : Spender(p, g) THEN "spent" ELSE "closed"

Abstract == INSTANCE OneTimeGrant WITH
              Grants <- Codes, Receivers <- Requests,
              phase <- [g \in Codes |-> Phase(g)], got <- got

\* However requests race on a code, whatever is deleted or expires meanwhile and
\* whichever call fails, a code is a one-time grant: spent once, answered at
\* most once, and dead for good once it was used, expired or deleted
\* ("Consume the authorization code (atomically - prevents replay)").
IsOneTimeGrant == Abstract!Spec

\* Tokens go only to a request of the client the code was issued to, with the
\* redirect URI and the PKCE verifier of the authorization, with a verifier at
\* all if the client must use PKCE, and after its state was accepted: the
\* checks sit in different calls, before and after the code is spent.
TokensBound ==
  \A g \in Codes : \A p \in got[g] :
    /\ arg[p] \in Params /\ Code(p) = g /\ Matches(g, arg[p])
    /\ arg[p].client \in Public => arg[p].verifier # None
    /\ <<p, StateOf(p)>> \in accepted

\* A state is accepted at most as often as it was stored ("Delete after use -
\* one-time use", ValidateState).  Does not hold when the key is in the map:
\* Load and Delete are two calls.
StateOneTime ==
  \A k \in StateKey :
    Cardinality({p \in Requests : <<p, k>> \in accepted})
      <= Cardinality({g \in Codes : rec[g] # None /\ <<rec[g].client, rec[g].state>> = k})

-----------------------------------------------------------------------------
(***************************************************************************)
(* The inductive invariant: one request at most is past the UPDATE for a   *)
(* code, it passed the checks, and nobody was answered before it.          *)
(***************************************************************************)
OneSpender ==
  \A g \in Codes :
    /\ \A p, q \in Requests : Spender(p, g) /\ Spender(q, g) => p = q
    /\ (\E p \in Requests : Spender(p, g)) => status[g] \in {"used", "gone"} /\ got[g] = {}
    /\ status[g] \in {"absent", "open"} => got[g] = {}
    /\ status[g] = "absent" => g \notin expired

\* What a request past a step has been checked for.
Checked ==
  /\ \A p \in Requests, g \in Codes : Spender(p, g) => Matches(g, arg[p])
  /\ \A p \in Requests : pc[p] \in {"client", "consume", "issue", "refresh"} =>
       <<p, StateOf(p)>> \in accepted
  /\ \A g \in Codes : status[g] # "absent" /\ rec[g].client \in Public => rec[g].challenge # None
  /\ \A g \in Codes : \A p \in got[g] : pc[p] = "done"

IInv == TypeOK /\ OneSpender /\ Checked /\ TokensBound
=============================================================================
