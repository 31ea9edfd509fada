--------------------------- MODULE RefreshRotation ---------------------------
(***************************************************************************)
(* Refresh-token rotation of the OAuth service.                            *)
(*                                                                         *)
(* Any number of RefreshToken handlers (Requests) run concurrently over    *)
(*   - the table oidc_refresh_tokens (status, rec),                        *)
(*   - the Auth service's Redis keys ggid:rt:<hash> and table              *)
(*     refresh_tokens, the fallback store (authKey and the status values   *)
(*     "auth" and "authrev"),                                              *)
(*   - the family registry oauth_token_families (registry).                *)
(* A handler is one action per call it makes to a store: whatever other    *)
(* handlers, the hourly cleanup, a revocation or an administrator do may   *)
(* happen between two of its calls.  pc[p] names the NEXT call of p.       *)
(*                                                                         *)
(* A token stands for its secret, its hash and its row id at once.  The    *)
(* columns used and revoked are one value, since no code tells them apart: *)
(* "live" when both are false and "dead" otherwise; "absent" is an id not  *)
(* drawn yet, "deleted" a row that was removed.                            *)
(* Time is two facts: expired (expires_at is past) and rec.stamped (the    *)
(* row was inserted with a real created_at; both are 30 days, so a stamped *)
(* row passes the cleanup's created_at test exactly when it expires, while *)
(* an unstamped one carries Go's zero time and passes it at once).         *)
(***************************************************************************)
EXTENDS Naturals

CONSTANTS
  Requests,   \* handler invocations in flight
  Tokens,     \* refresh tokens, rows and family ids (uuids)
  Clients,    \* OAuth clients
  Users,
  Tenants,
  TenantOf,   \* the tenant of each client and user
  Legacy,     \* rows that may be there from before migration 044: family_id is NULL
  MaxFaults,  \* bound on store failures in one behaviour
  None        \* no client, no family, no token, no record

ASSUME ConstantsAssumption ==
  /\ TenantOf \in [Clients \cup Users -> Tenants]
  /\ Legacy \subseteq Tokens
  /\ MaxFaults \in Nat
  /\ None \notin Clients /\ None \notin Tokens

VARIABLES
  status,       \* state of each token's row
  rec,          \* the columns that never change after the INSERT
  expired,      \* tokens past expires_at
  authKey,      \* tokens whose key ggid:rt:<hash> is in Redis
  enabled,      \* clients that exist and are enabled
  activeUsers,  \* users with status 'active'
  revokedAt,    \* oidc_refresh_tokens rows whose revoked_at is set
  registry,     \* oauth_token_families: theft_detected and the rotated ids
  pc,           \* next call of each handler
  arg,          \* the client and the token of each request
  snap,         \* registry record a handler read and will write back
  faults,       \* store failures so far
  parent,       \* history: the token each token was rotated from
  reused,       \* history: families in which reuse was detected
  userDown      \* history: requests whose user was inactive all along

storeVars == <<status, rec, expired, authKey>>
worldVars == <<enabled, activeUsers, revokedAt>>
histVars  == <<parent, reused>>
vars == <<status, rec, expired, authKey, enabled, activeUsers, revokedAt, registry,
          pc, arg, snap, faults, parent, reused, userDown>>

RowStates  == {"live", "dead"}
Status     == RowStates \cup {"absent", "deleted", "auth", "authrev"}
Record     == [client: Clients \cup {None}, user: Users,
               family: Tokens \cup {None}, stamped: BOOLEAN]
FamilyData == [theft: BOOLEAN, rotated: SUBSET Tokens]
Steps      == {"idle", "lookup", "authrow", "user", "consume", "revoke",
               "theftget", "theftput", "revokefam", "store", "regget", "regput"}

NewFamily == [theft |-> FALSE, rotated |-> {}]

TypeOK ==
  /\ status \in [Tokens -> Status]
  /\ rec \in [Tokens -> Record \cup {None}]
  /\ \A t \in Tokens : status[t] # "absent" => rec[t] \in Record
  /\ expired \subseteq Tokens
  /\ authKey \subseteq Tokens
  /\ enabled \subseteq Clients
  /\ activeUsers \subseteq Users
  /\ revokedAt \subseteq Tokens
  /\ registry \in [Tokens -> FamilyData]
  /\ pc \in [Requests -> Steps]
  /\ arg \in [Requests -> [client: Clients, token: Tokens] \cup {None}]
  /\ \A p \in Requests : pc[p] # "idle" =>
       /\ arg[p] \in [client: Clients, token: Tokens]
       /\ status[arg[p].token] # "absent"
  /\ snap \in [Requests -> FamilyData]
  /\ faults \in 0..MaxFaults
  /\ parent \in [Tokens -> Tokens \cup {None}]
  /\ reused \subseteq Tokens
  /\ userDown \subseteq Requests

-----------------------------------------------------------------------------
(* What the handler knows about its token. *)

Tok(p) == arg[p].token

\* lookupAuthRefreshToken builds the record: it has no family, and a row of
\* the Auth service carries no OAuth client until the requester is bound to it.
FromAuthStore(t) == rec[t].client = None

\* The rotation family: inherited, or rooted at the consumed token's id.
FamilyOf(t) == IF rec[t].family = None THEN t ELSE rec[t].family

\* GetRefreshToken selects by tenant and hash.
RowVisible(t, c) == status[t] \in RowStates /\ TenantOf[rec[t].user] = TenantOf[c]

Goto(p, step) == pc' = [pc EXCEPT ![p] = step]

\* The error is logged, but the return is missing (a faulty variant, see below).
Return_Missing(p) ==
  /\ arg' = [arg EXCEPT ![p] = None]
  /\ snap' = [snap EXCEPT ![p] = NewFamily]
  /\ userDown' = userDown \ {p}
  /\ UNCHANGED pc

\* A return resets the request's local state.
Return(p) ==
  /\ Goto(p, "idle")
  /\ arg' = [arg EXCEPT ![p] = None]
  /\ snap' = [snap EXCEPT ![p] = NewFamily]
  /\ userDown' = userDown \ {p}

Continue(p, step) == Goto(p, step) /\ UNCHANGED <<arg, snap, userDown>>

Fault == faults < MaxFaults /\ faults' = faults + 1
NoFault == UNCHANGED faults

\* UPDATE ... SET revoked = true over a set of rows.
RevokeRows(S) ==
  status' = [t \in Tokens |-> IF t \in S /\ status[t] = "live" THEN "dead" ELSE status[t]]

(***************************************************************************)
(* Faulty variants of the definitions below, one plausible mistake each:   *)
(* every property is violated by one of them.                              *)
(***************************************************************************)

\* The reuse response revokes the tenant's tokens, not the client's.
ClientRows_TenantWide(c) ==
  {t \in Tokens : status[t] \in RowStates /\ TenantOf[rec[t].user] = TenantOf[c]}

\* The check of step 4b is missing.
LookupLive_AnyClient(p) ==
  /\ pc[p] = "lookup"
  /\ RowVisible(Tok(p), arg[p].client)
  /\ status[Tok(p)] = "live"
  /\ Continue(p, IF Tok(p) \in expired THEN "revoke" ELSE "user")
  /\ UNCHANGED <<storeVars, worldVars, registry, faults, histVars>>

\* GET in place of GETDEL.
LookupAuthKey_Get(p) ==
  /\ pc[p] = "lookup"
  /\ ~RowVisible(Tok(p), arg[p].client)
  /\ IF Tok(p) \in authKey THEN Continue(p, "authrow") ELSE Return(p)
  /\ UNCHANGED <<storeVars, worldVars, registry, faults, histVars>>

\* The user's status is not looked at.
CheckUser_Skipped(p) ==
  /\ pc[p] = "user"
  /\ Continue(p, "consume")
  /\ UNCHANGED <<storeVars, worldVars, registry, faults, histVars>>

\* The UPDATE does not set used.
ConsumeWins_Unmarked(p) ==
  /\ pc[p] = "consume"
  /\ status[Tok(p)] = "live"
  /\ Continue(p, "store")
  /\ UNCHANGED <<storeVars, worldVars, registry, faults, histVars>>

\* Whether the UPDATE matched a row is not looked at.
ConsumeMisses_Ignored(p) ==
  /\ pc[p] = "consume"
  /\ status[Tok(p)] # "live"
  /\ Continue(p, "store")
  /\ UNCHANGED <<storeVars, worldVars, registry, faults, histVars>>

\* Any rotated member is taken for this one.
Rotated_AnyMember(data, t) == [theft |-> data.theft \/ data.rotated # {},
                               rotated |-> data.rotated \cup {t}]

-----------------------------------------------------------------------------
\* The rows an UPDATE of revokeFamily selects.
FamilyRows(f, c) == {t \in Tokens : status[t] \in RowStates /\ rec[t].family = f
                                      /\ TenantOf[rec[t].user] = TenantOf[c]}
ClientRows(c)    == {t \in Tokens : status[t] \in RowStates /\ rec[t].client = c}

-----------------------------------------------------------------------------
OldRecord == {r \in [client: Clients, user: Users, family: {None}, stamped: {TRUE}] :
                TenantOf[r.client] = TenantOf[r.user]}

Init ==
  /\ \E there \in SUBSET Legacy : \E old \in [there -> OldRecord] :
       /\ rec = [t \in Tokens |-> IF t \in there THEN old[t] ELSE None]
       /\ status = [t \in Tokens |-> IF t \in there THEN "live" ELSE "absent"]
  /\ expired = {} /\ authKey = {}
  /\ enabled = Clients
  /\ activeUsers = Users
  /\ revokedAt = {}
  /\ registry = [f \in Tokens |-> NewFamily]
  /\ pc = [p \in Requests |-> "idle"]
  /\ arg = [p \in Requests |-> None]
  /\ snap = [p \in Requests |-> NewFamily]
  /\ faults = 0
  /\ parent = [t \in Tokens |-> None]
  /\ reused = {} /\ userDown = {}

(***************************************************************************)
(* The handler.                                                            *)
(***************************************************************************)

\* Client lookup, secret, Enabled and grant-type checks.  A request that
\* fails one of them returns without touching any store and is not modelled.
StartRefresh(p, c, t) ==
  /\ pc[p] = "idle"
  /\ status[t] # "absent"
  /\ c \in enabled
  /\ Goto(p, "lookup")
  /\ arg' = [arg EXCEPT ![p] = [client |-> c, token |-> t]]
  /\ userDown' = IF rec[t].user \in activeUsers THEN userDown ELSE userDown \cup {p}
  /\ UNCHANGED <<storeVars, worldVars, registry, snap, faults, histVars>>

\* Steps 4 to 6: the row as it is now decides the rest of the request.
LookupForeign(p) ==  \* issued to a different client
  /\ pc[p] = "lookup"
  /\ RowVisible(Tok(p), arg[p].client) /\ rec[Tok(p)].client # arg[p].client
  /\ Return(p)
  /\ UNCHANGED <<storeVars, worldVars, registry, faults, histVars>>

\* record.FamilyID != "" decides whether the registry is told.
ReuseDetected(p) ==
  /\ reused' = reused \cup {FamilyOf(Tok(p))}
  /\ Continue(p, IF rec[Tok(p)].family = None THEN "revokefam" ELSE "theftget")

LookupReused(p) ==
  /\ pc[p] = "lookup"
  /\ RowVisible(Tok(p), arg[p].client) /\ rec[Tok(p)].client = arg[p].client
  /\ status[Tok(p)] # "live"
  /\ ReuseDetected(p)
  /\ UNCHANGED <<storeVars, worldVars, registry, faults, parent>>

LookupLive(p) ==
  /\ pc[p] = "lookup"
  /\ RowVisible(Tok(p), arg[p].client) /\ rec[Tok(p)].client = arg[p].client
  /\ status[Tok(p)] = "live"
  /\ Continue(p, IF Tok(p) \in expired THEN "revoke" ELSE "user")
  /\ UNCHANGED <<storeVars, worldVars, registry, faults, histVars>>

\* lookupAuthRefreshToken, first call: GETDEL on the Redis key.
LookupAuthKey(p) ==
  /\ pc[p] = "lookup"
  /\ ~RowVisible(Tok(p), arg[p].client)
  /\ \/ /\ Tok(p) \in authKey
        /\ authKey' = authKey \ {Tok(p)}
        /\ Continue(p, "authrow")
     \/ /\ Tok(p) \notin authKey
        /\ Return(p) /\ UNCHANGED authKey
  /\ UNCHANGED <<status, rec, expired, worldVars, registry, faults, histVars>>

\* Second call: the user of the Auth service's row.  Its revoked column is
\* not read; a missing row or another tenant's row ends the request.
LookupAuthRow(p) ==
  /\ pc[p] = "authrow"
  /\ IF /\ status[Tok(p)] \in {"auth", "authrev"}
        /\ TenantOf[rec[Tok(p)].user] = TenantOf[arg[p].client]
       THEN Continue(p, "user") ELSE Return(p)
  /\ UNCHANGED <<storeVars, worldVars, registry, faults, histVars>>

\* The row or the key can not be read, which is answered like a missing one.
\* (Here and below, a call that fails after taking effect leaves the stores as
\* the call does when it succeeds and the next one fails.)
LookupFails(p) ==
  /\ pc[p] \in {"lookup", "authrow"}
  /\ Fault /\ Return(p)
  /\ UNCHANGED <<storeVars, worldVars, registry, histVars>>

\* A status that can not be read counts as inactive.
CheckUser(p) ==
  /\ pc[p] = "user"
  /\ \/ /\ Continue(p, IF rec[Tok(p)].user \in activeUsers THEN "consume" ELSE "revoke")
        /\ NoFault
     \/ Fault /\ Continue(p, "revoke")
  /\ UNCHANGED <<storeVars, worldVars, registry, histVars>>

\* RevokeRefreshToken on an expired token or for an inactive user; its
\* failure is only logged.
RevokeStale(p) ==
  /\ pc[p] = "revoke"
  /\ \/ /\ status' = [status EXCEPT ![Tok(p)] = IF @ = "live" THEN "dead" ELSE @]
        /\ NoFault
     \/ Fault /\ UNCHANGED status
  /\ Return(p)
  /\ UNCHANGED <<rec, expired, authKey, worldVars, registry, histVars>>

\* ConsumeRefreshToken: the conditional UPDATE.
ConsumeWins(p) ==
  /\ pc[p] = "consume"
  /\ status[Tok(p)] = "live"
  /\ status' = [status EXCEPT ![Tok(p)] = "dead"]
  /\ Continue(p, "store")
  /\ UNCHANGED <<rec, expired, authKey, worldVars, registry, faults, histVars>>

\* No row matched: reuse, unless the token came from the Auth service.
ConsumeMisses(p) ==
  /\ pc[p] = "consume"
  /\ status[Tok(p)] # "live"
  /\ IF FromAuthStore(Tok(p))
       THEN Continue(p, "store") /\ UNCHANGED reused
       ELSE ReuseDetected(p)
  /\ UNCHANGED <<storeVars, worldVars, registry, faults, parent>>

ConsumeFails(p) ==
  /\ pc[p] = "consume"
  /\ Fault /\ Return(p)
  /\ UNCHANGED <<storeVars, worldVars, registry, histVars>>

\* Access token, then StoreRefreshToken.  The new row joins the family and
\* is inserted without CreatedAt.
StoreRotated(p, n) ==
  /\ pc[p] = "store"
  /\ status[n] = "absent"
  /\ status' = [status EXCEPT ![n] = "live"]
  /\ rec' = [rec EXCEPT ![n] = [client |-> arg[p].client, user |-> rec[Tok(p)].user,
                                family |-> FamilyOf(Tok(p)), stamped |-> FALSE]]
  /\ parent' = [parent EXCEPT ![n] = Tok(p)]
  /\ Continue(p, "regget")
  /\ UNCHANGED <<expired, authKey, worldVars, registry, faults, reused>>

\* Issuing the access token or the INSERT fails: the old token stays consumed.
StoreFails(p) ==
  /\ pc[p] = "store"
  /\ Fault /\ Return(p)
  /\ UNCHANGED <<storeVars, worldVars, registry, histVars>>

(***************************************************************************)
(* The family registry: get, change the copy, put the whole record back.   *)
(* A failed get is ignored and the copy starts from an empty record; an    *)
(* absent record and an empty one behave alike.                            *)
(***************************************************************************)
ReadFamily(p, from, to) ==
  /\ pc[p] = from
  /\ \/ snap' = [snap EXCEPT ![p] = registry[FamilyOf(Tok(p))]] /\ NoFault
     \/ snap' = [snap EXCEPT ![p] = NewFamily] /\ Fault
  /\ Goto(p, to)
  /\ UNCHANGED <<storeVars, worldVars, registry, arg, histVars, userDown>>

\* familyRecordToJSONRepo: a token already marked rotated flags theft.
Rotated(data, t) == [theft |-> data.theft \/ t \in data.rotated,
                     rotated |-> data.rotated \cup {t}]

\* familyRecordMarkTheftRepo: every member's status becomes "revoked".
Stolen(data) == [theft |-> TRUE, rotated |-> {}]

\* put; its error is ignored by both callers.
WriteFamily(p, data) ==
  \/ registry' = [registry EXCEPT ![FamilyOf(Tok(p))] = data] /\ NoFault
  \/ Fault /\ UNCHANGED registry

RegisterRotationGet(p) == ReadFamily(p, "regget", "regput")
RegisterRotationPut(p) ==
  /\ pc[p] = "regput"
  /\ WriteFamily(p, Rotated(snap[p], Tok(p)))
  /\ Return(p)
  /\ UNCHANGED <<storeVars, worldVars, histVars>>

MarkTheftGet(p) == ReadFamily(p, "theftget", "theftput")
MarkTheftPut(p) ==
  /\ pc[p] = "theftput"
  /\ WriteFamily(p, Stolen(snap[p]))
  /\ Goto(p, "revokefam")
  /\ UNCHANGED <<storeVars, worldVars, arg, snap, histVars, userDown>>

(***************************************************************************)
(* revokeFamily: the family, or every token of the client when the record  *)
(* has no family or the first UPDATE fails.                                *)
(***************************************************************************)
RevokeFamily(p) ==
  /\ pc[p] = "revokefam"
  /\ rec[Tok(p)].family # None
  /\ RevokeRows(FamilyRows(rec[Tok(p)].family, arg[p].client))
  /\ Return(p)
  /\ UNCHANGED <<rec, expired, authKey, worldVars, registry, faults, histVars>>

RevokeClientWide(p) ==
  /\ pc[p] = "revokefam"
  /\ IF rec[Tok(p)].family = None THEN NoFault ELSE Fault
  /\ RevokeRows(ClientRows(arg[p].client))
  /\ Return(p)
  /\ UNCHANGED <<rec, expired, authKey, worldVars, registry, histVars>>

RevokeFails(p) ==
  /\ pc[p] = "revokefam"
  /\ Fault /\ Return(p)
  /\ UNCHANGED <<storeVars, worldVars, registry, histVars>>

Handler(p) ==
  \/ LookupForeign(p) \/ LookupReused(p) \/ LookupLive(p)
  \/ LookupAuthKey(p) \/ LookupAuthRow(p) \/ LookupFails(p)
  \/ CheckUser(p) \/ RevokeStale(p)
  \/ ConsumeWins(p) \/ ConsumeMisses(p) \/ ConsumeFails(p)
  \/ (\E n \in Tokens : StoreRotated(p, n)) \/ StoreFails(p)
  \/ RegisterRotationGet(p) \/ RegisterRotationPut(p)
  \/ MarkTheftGet(p) \/ MarkTheftPut(p)
  \/ RevokeFamily(p) \/ RevokeClientWide(p) \/ RevokeFails(p)

(***************************************************************************)
(* The rest of the system, as far as it touches these stores.              *)
(***************************************************************************)
localVars == <<registry, pc, arg, snap, faults, histVars>>

\* issueRefreshTokenRecord: a code exchange or a password grant roots a family.
\* The code exchange does not look at the user's status.
IssueRoot(c, u, n) ==
  /\ c \in enabled
  /\ TenantOf[c] = TenantOf[u]
  /\ status[n] = "absent"
  /\ status' = [status EXCEPT ![n] = "live"]
  /\ rec' = [rec EXCEPT ![n] = [client |-> c, user |-> u, family |-> n, stamped |-> TRUE]]
  /\ UNCHANGED <<expired, authKey, worldVars, localVars, userDown>>

\* A first-party login of the Auth service: row and Redis key.  The OAuth
\* service still serves these tokens; the Auth service of this commit only
\* deletes the keys, so they come from instances of an earlier release.
AuthLogin(u, n) ==
  /\ u \in activeUsers
  /\ status[n] = "absent"
  /\ status' = [status EXCEPT ![n] = "auth"]
  /\ rec' = [rec EXCEPT ![n] = [client |-> None, user |-> u, family |-> None, stamped |-> TRUE]]
  /\ authKey' = authKey \cup {n}
  /\ UNCHANGED <<expired, worldVars, localVars, userDown>>

\* RevokeToken (RFC 7009) on a refresh token: by hash, in every store; a call
\* that fails is only logged.  A token is in one store only and no handler reads
\* both its key and its revoked column, so the calls take effect as one step.
RevokeToken(t) ==
  /\ status[t] \in {"live", "auth"} \/ t \in authKey
  /\ \E row, key \in BOOLEAN :
       /\ IF row /\ key THEN NoFault ELSE Fault
       /\ status' = [status EXCEPT ![t] = IF row /\ @ = "live" THEN "dead"
                                          ELSE IF row /\ @ = "auth" THEN "authrev" ELSE @]
       /\ authKey' = IF key THEN authKey \ {t} ELSE authKey
  /\ UNCHANGED <<rec, expired, worldVars, registry, pc, arg, snap, histVars, userDown>>

\* UPDATE refresh_tokens SET revoked = true WHERE user_id = ...
RevokeAuthRows(u) ==
  status' = [t \in Tokens |-> IF status[t] = "auth" /\ rec[t].user = u THEN "authrev" ELSE status[t]]

\* RevokeUser of the Auth service: the rows, not the Redis keys.
RevokeUser(u) ==
  /\ \E t \in Tokens : status[t] = "auth" /\ rec[t].user = u
  /\ RevokeAuthRows(u)
  /\ UNCHANGED <<rec, expired, authKey, worldVars, localVars, userDown>>

\* The hourly cleanup, one DELETE per table.  A row is removed once its time
\* is over, and 7 days after revoked_at if it is revoked; whether the 7 days
\* have passed is left open.  Rotation, reuse response and RevokeToken leave
\* revoked_at of oidc_refresh_tokens empty.
PastRetention == {t \in Tokens : status[t] \in RowStates /\ (~rec[t].stamped \/ t \in expired)}

DeleteRows(S) ==
  /\ S # {}
  /\ status' = [t \in Tokens |-> IF t \in S THEN "deleted" ELSE status[t]]
  /\ UNCHANGED <<rec, expired, authKey, localVars, userDown>>

CleanupOidcRows ==
  /\ \E old \in SUBSET {t \in revokedAt : status[t] = "dead"} : DeleteRows(old \cup PastRetention)
  /\ UNCHANGED worldVars

CleanupAuthRows ==
  /\ \E old \in SUBSET {t \in Tokens : status[t] = "authrev"} :
       DeleteRows(old \cup {t \in expired : status[t] \in {"auth", "authrev"}})
  /\ UNCHANGED worldVars

\* DeleteUser of the Identity service: status 'deleted' and, in the same
\* transaction, the rows of both tables; the Redis keys stay.
DeleteUser(u) ==
  /\ DeleteRows({t \in Tokens : status[t] \notin {"absent", "deleted"} /\ rec[t].user = u})
  /\ activeUsers' = activeUsers \ {u}
  /\ UNCHANGED <<enabled, revokedAt>>

\* Time passes; a Redis key has the TTL of its token.
Expire(t) ==
  /\ status[t] \notin {"absent", "deleted"} /\ t \notin expired
  /\ expired' = expired \cup {t}
  /\ authKey' = authKey \ {t}
  /\ UNCHANGED <<status, rec, worldVars, localVars, userDown>>

DisableClient(c) ==
  /\ c \in enabled
  /\ enabled' = enabled \ {c}
  /\ UNCHANGED <<storeVars, activeUsers, revokedAt, localVars, userDown>>

EnableClient(c) ==
  /\ c \notin enabled
  /\ enabled' = enabled \cup {c}
  /\ UNCHANGED <<storeVars, activeUsers, revokedAt, localVars, userDown>>

\* The deletion of a client sets revoked_at of its rows, and not revoked.
DeleteClient(c) ==
  /\ c \in enabled
  /\ enabled' = enabled \ {c}
  /\ revokedAt' = revokedAt \cup {t \in Tokens : status[t] \in RowStates /\ rec[t].client = c}
  /\ UNCHANGED <<storeVars, activeUsers, localVars, userDown>>

\* So does the deletion of one's own account, in a statement of its own.
DeleteAccount(u) ==
  /\ u \in activeUsers
  /\ activeUsers' = activeUsers \ {u}
  /\ \/ /\ revokedAt' = revokedAt \cup {t \in Tokens : status[t] \in RowStates /\ rec[t].user = u}
        /\ NoFault
     \/ Fault /\ UNCHANGED revokedAt
  /\ UNCHANGED <<storeVars, enabled, registry, pc, arg, snap, histVars, userDown>>

\* SetUserStatus: locking or disabling a user revokes the Auth service's rows.
DeactivateUser(u) ==
  /\ u \in activeUsers
  /\ activeUsers' = activeUsers \ {u}
  /\ RevokeAuthRows(u)
  /\ UNCHANGED <<rec, expired, authKey, enabled, revokedAt, localVars, userDown>>

ActivateUser(u) ==
  /\ u \notin activeUsers
  /\ activeUsers' = activeUsers \cup {u}
  /\ userDown' = {p \in userDown : rec[Tok(p)].user # u}
  /\ UNCHANGED <<storeVars, enabled, revokedAt, localVars>>

Environment ==
  \/ \E n \in Tokens, u \in Users : AuthLogin(u, n) \/ \E c \in Clients : IssueRoot(c, u, n)
  \/ \E t \in Tokens : RevokeToken(t) \/ Expire(t)
  \/ \E u \in Users : \/ RevokeUser(u) \/ DeactivateUser(u) \/ ActivateUser(u)
                      \/ DeleteAccount(u) \/ DeleteUser(u)
  \/ \E c \in Clients : DisableClient(c) \/ EnableClient(c) \/ DeleteClient(c)
  \/ CleanupOidcRows \/ CleanupAuthRows

Next ==
  \/ \E p \in Requests, c \in Clients, t \in Tokens : StartRefresh(p, c, t)
  \/ \E p \in Requests : Handler(p)
  \/ Environment

Spec == Init /\ [][Next]_vars

-----------------------------------------------------------------------------
(***************************************************************************)
(* Properties.                                                             *)
(***************************************************************************)

\* A rotation family never has two usable tokens: whatever requests race on
\* a family, and whatever calls fail, the chain of rotations is linear.  This
\* is what makes presenting an old token a proof of theft
\* (grant_refresh.go, steps 5 and 7).
AtMostOneLive ==
  \A t1, t2 \in Tokens :
    status[t1] = "live" /\ status[t2] = "live" /\ FamilyOf(t1) = FamilyOf(t2) => t1 = t2

\* A token is exchanged for at most one new token, whichever store it came
\* from: the conditional UPDATE and Redis GETDEL each elect one winner.
SingleRotation ==
  \A n1, n2 \in Tokens : parent[n1] # None /\ parent[n1] = parent[n2] => n1 = n2

\* All OAuth tokens of a family belong to one client and one user: rotation
\* never carries a grant over to somebody else (the check of step 4b).
FamilyOneClient ==
  \A t1, t2 \in Tokens :
    /\ status[t1] # "absent" /\ status[t2] # "absent"
    /\ ~FromAuthStore(t1) /\ ~FromAuthStore(t2)
    /\ FamilyOf(t1) = FamilyOf(t2)
    => rec[t1].client = rec[t2].client /\ rec[t1].user = rec[t2].user

\* The registry accuses a family of theft only if a used or revoked token of
\* it was really presented, although its record is read, changed and written
\* back without a lock and RegisterRotation raises the flag on its own.
TheftFlagSound == \A f \in Tokens : registry[f].theft => f \in reused

\* A user who was inactive during the whole request gets no new token from
\* it (the status check sits several calls before the INSERT).
InactiveUserGetsNothing == \A p \in Requests : pc[p] = "store" => p \notin userDown

\* No step of a request changes a row that belongs to another client: a token
\* presented by the wrong client is neither spent nor revoked, and the reuse
\* response stays within the client.
ForeignRowsUntouched ==
  [][\A p \in Requests, t \in Tokens :
       /\ pc[p] # "idle" /\ pc'[p] # pc[p]
       /\ status[t] \in RowStates /\ status'[t] # status[t]
       => rec[t].client = arg[p].client]_vars

\* Once the response to a reuse is over, no token of the family is usable
\* ("reuse of any rotated token revokes the whole family", domain/models.go).
\* Does not hold, even without failures: a rotation that consumed its token
\* before the response stores the new one after it.
ReuseRevokesFamily ==
  \A t \in Tokens : status[t] = "live" /\ FamilyOf(t) \in reused =>
    \E p \in Requests : /\ pc[p] \in {"theftget", "theftput", "revokefam"}
                        /\ FamilyOf(Tok(p)) = FamilyOf(t)

\* The hourly cleanup deletes no token that can still be used: it is for revoked
\* tokens and for expired ones.  (Deleting a user deletes his usable tokens too,
\* and is meant to.)  Does not hold: a rotated token is inserted with a zero
\* created_at and is past the retention at once.
CleanupSparesLive ==
  [][CleanupOidcRows \/ CleanupAuthRows =>
       \A t \in Tokens : status[t] = "live" /\ t \notin expired => status'[t] # "deleted"]_vars

-----------------------------------------------------------------------------
(***************************************************************************)
(* The inductive invariant.  A family is held by whoever may still extend  *)
(* it: a usable token, the Redis key of a first-party token, or a request  *)
(* between winning the token and storing the next one.                     *)
(***************************************************************************)
TokenHolds(t) == status[t] = "live" \/ t \in authKey

RequestHolds(p) == \/ pc[p] \in {"authrow", "store"}
                   \/ pc[p] \in {"user", "consume"} /\ FromAuthStore(Tok(p))

\* A family that exists and that nobody holds.
Extinct(f) ==
  /\ status[f] # "absent"
  /\ \A t \in Tokens : TokenHolds(t) => FamilyOf(t) # f
  /\ \A p \in Requests : RequestHolds(p) => FamilyOf(Tok(p)) # f

\* A family without a usable token, a key and a rotation in flight never gets
\* a usable token again: a request that looked at one of its tokens while that
\* was usable, a retry, a failed call, a client enabled or a user activated
\* again do not bring it back.  So the one rotation in flight that
\* ReuseRevokesFamily fails for is all that escapes revokeFamily.
ExtinctForGood == [][\A f \in Tokens : Extinct(f) => Extinct(f)']_vars

\* A row is of one of the two stores, and its family was drawn before it.
StoreShape ==
  /\ \A t \in Tokens : status[t] # "absent" =>
       /\ status[FamilyOf(t)] # "absent"
       /\ FromAuthStore(t) => rec[t].family = None /\ status[t] \notin RowStates
       /\ ~FromAuthStore(t) => status[t] \in RowStates \cup {"deleted"}
  /\ \A t \in authKey : status[t] # "absent" /\ FromAuthStore(t)
  /\ \A p \in Requests : pc[p] = "authrow" => FromAuthStore(Tok(p))

OneHolder ==
  /\ \A t1, t2 \in Tokens :
       TokenHolds(t1) /\ TokenHolds(t2) /\ FamilyOf(t1) = FamilyOf(t2) => t1 = t2
  /\ \A t \in Tokens, p \in Requests :
       TokenHolds(t) /\ RequestHolds(p) => FamilyOf(t) # FamilyOf(Tok(p))
  /\ \A p, q \in Requests :
       RequestHolds(p) /\ RequestHolds(q) /\ FamilyOf(Tok(p)) = FamilyOf(Tok(q)) => p = q

\* A token that was rotated can not be rotated again.
Spent ==
  \A n \in Tokens : parent[n] # None =>
    /\ status[n] # "absent" /\ status[parent[n]] # "absent"
    /\ ~TokenHolds(parent[n])
    /\ \A p \in Requests : RequestHolds(p) => Tok(p) # parent[n]

\* Past the lookup, the token is the client's own or comes from the Auth store.
ClientBound ==
  \A p \in Requests : pc[p] \notin {"idle", "lookup"} /\ ~FromAuthStore(Tok(p))
                        => rec[Tok(p)].client = arg[p].client

\* A first-party token that is still to be spent has no OAuth descendants.
AuthUnspent ==
  \A t, n \in Tokens :
    /\ status[t] # "absent" /\ FromAuthStore(t)
    /\ t \in authKey \/ \E p \in Requests : RequestHolds(p) /\ Tok(p) = t
    /\ status[n] # "absent" /\ ~FromAuthStore(n)
    => FamilyOf(n) # t

IInv ==
  /\ TypeOK /\ StoreShape /\ OneHolder /\ Spent /\ SingleRotation
  /\ ClientBound /\ AuthUnspent /\ FamilyOneClient
=============================================================================
