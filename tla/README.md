# GGID: specifications of the token, session and audit core

GGID is an identity platform: a gateway in front of Go services for
authentication, OAuth/OIDC, identities, organizations, policies and audit, over
PostgreSQL, Redis and NATS JetStream, with a web console and SDKs in front of
the gateway. This directory holds TLA+ specifications
of the parts of it in which several actors share state and a wrong order of
steps would matter, TLC configurations that check them on small instances, and
TLAPS proofs of the main results for every instance.

Paths below are relative to the repository root. `PROJECT.json` lists for every
definition that models code the lines it stands for, the hazards each property
is aimed at, and the findings.

## 1. Inventory

| Component | State | Operations | Interacts with |
|---|---|---|---|
| Refresh-token rotation (`services/oauth/internal/service/grant_refresh.go`, `token_family.go`) | `oidc_refresh_tokens`, `oauth_token_families` | `RefreshToken`, `lookupAuthRefreshToken`, `revokeFamily` | Auth's Redis keys and `refresh_tokens`; `users`; clients |
| Authorization-code grant (`grant_authorization_code.go`, `oauth_service.go`, `server.go`) | `oauth_authorization_codes`, state keys in Redis and in a process's map | `CreateAuthorizationCode`, `ValidateState`, `ExchangeAuthorizationCode` | roots a token family |
| Device grant (`grant_device.go`, `device_code_handler.go`) | two maps under one mutex | create, approve, deny, poll, reap | token endpoint, the user's browser |
| Password grant (`grant_password.go`) | `sessions` | sign a token, record its session | `RevokeUser` |
| Revocation (`token_revocation.go`) | rows and keys above, `ggid:revoked_jti`, `sessions` | `RevokeToken` | every store |
| Token cleanup (`services/oauth/cmd/main.go`) | rows above | hourly `DELETE`s | races with all handlers |
| Other grants: CIBA, PAR | maps and Redis | authorize, poll | same one-time contract as codes |
| Key rotation | signing keys | rotate, retire | all tokens |
| Audit publisher (`pkg/audit/publisher.go`) | bounded channel | `Publish`, `PublishAsync`, `Close` | JetStream |
| Audit consumer (`services/audit/internal/consumer`) | JetStream consumer | fetch, insert, Ack/Nak | audit repository |
| Audit repository and service | `audit_events`, a hash chain per tenant | `Insert`, `CleanupOldEvents`, anonymize, repair | tamper check |
| Tamper check (`tamper_check_handler.go`) | none | `verifyEventChain` | reads the chain |
| Auth sessions (`session_revocation_manager.go`, `logout_all.go`, `cae_scanner.go`) | `sessions`, `ggid:revoked_jti` | `RevokeUser`, `LogoutAll`, end one session, policy sweep, clean-up | `refresh_tokens`, gateway |
| Auth lockout, MFA | Redis counters, secrets | per-login checks | password grant |
| Identity | `users`, groups | CRUD, `DeleteUser`, `SetUserStatus` | tokens and codes of the user |
| Gateway token check (`middleware.go`, `pkg/auth/jti_blocklist.go`) | `ggid:revoked_jti` | `CAECheck`, eviction | sessions, every request |
| Gateway, the rest | breakers, limiters, coalescer, caches | per-request middleware | all services |
| Console session (`console/src/lib/api.ts`, `components/auth-guard.tsx`, sign-in pages) | two tokens in localStorage, the page of each tab | `apiFetch` with refresh and retry, guard, sign-in, callback, sign-out, impersonation | token endpoint, gateway |
| React SDK (`sdk/react/src/GGIDProvider.tsx`) | token set in localStorage and in React state, a timer | mount, refresh, login, logout | token endpoint |
| React Native SDK (`sdk/react-native/src/client.ts`) | session in SecureStore | `login`, `getSession`, `refreshToken`, `logout` | token endpoint |
| Policy, Organization | policies, memberships | evaluation, CRUD | - |
| MCP server, CLI, migration tool, other SDKs, console pages | none of the system's | API clients | - |

What is hard here is that almost every operation is a sequence of separate calls
to PostgreSQL, Redis or a process's own map, with no transaction around them:

- *Concurrency.* Requests with the same token or code overlap call by call.
- *Failure.* Any call may fail; several errors are deliberately only logged.
- *Ordering.* A response to reuse, a deletion or a cleanup runs between two calls
  of another handler. Audit events arrive out of the order in which they happened.
- *Delivery.* JetStream delivers at least once, and up to `MaxDeliver` times.
- *Time.* Tokens, codes and keys expire between a check and a use.
- *Awaits.* The clients run to the next `await`; tabs, calls and timers share one
  storage cell, a page may be left and an application killed in the middle of a
  refresh whose token the server has already replaced.

What makes the parts correct:

- *Rotation*: the tokens of a family form one line, owned by one client and one
  user, of which at most one token is usable; the registry accuses nobody
  wrongly; nobody's rows are touched by somebody else's request.
- *Code grant*: a code is spent once and answered at most once, and tokens go only
  to a request that passed every check.
- *Device grant*: a redeemed code yields nothing any more, polls obey the last
  decision, tokens stay in the tenant, the limit is overrun only by creates that
  overlap.
- *Revocation*: what `RevokeUser` leaves usable has one of a few known causes.
- *Clients*: what is stored is the newest token handed out, reuse detection hits
  only a client that raced with itself or lost an answer, no refresh hangs.
- *Audit*: an event is persisted at most once, acknowledged only after it is
  persisted, and in the end persisted; a row is chained to a row that is there;
  an alarm of the tamper check on an untouched log has a known cause.

## 2. Modules

| Module | Models | Extends / used by |
|---|---|---|
| `RefreshRotation` | rotation, both token stores, the family registry and all writers of these stores | `MCRefreshRotation`, `RefreshRotation_proofs` |
| `AuditChain` | JetStream delivery, consumer, `Insert`, direct inserts, retention, linkage check | `MCAuditChain`, `AuditChain_proofs` |
| `OneTimeGrant` | abstract: what a one-time credential promises | instantiated by `AuthorizationCode` |
| `AuthorizationCode` | authorize endpoint, `ValidateState`, code exchange, cleanup and deletions | `MCAuthorizationCode`, `AuthorizationCode_proofs` |
| `DeviceGrant` | create, approve, deny, poll and reap of device codes | `MCGrants`, `DeviceGrant_proofs` |
| `AccessRevocation` | sessions rows, the set of revoked jtis and everything that writes either | `MCGrants`, `AccessRevocation_proofs` |
| `TokenEndpoint` | the token endpoint as a client sees it, and refresh exchanges under way | extended by the four below |
| `TokenClient` | abstract: callers sharing one storage cell for a refresh token | instantiated by `Clients`; `TokenClient_proofs` |
| `ConsoleSession`, `ReactSession`, `NativeSession` | the three TypeScript clients | instantiated by `Clients` |
| `Clients` | composition: endpoint and one kind of client, with the refinement to `TokenClient` | `MCClients`, `Clients_proofs` |

The three modules of the services' stores follow one convention. A handler is one action per
call to a shared store; `pc[p]` names the *next* call of handler `p`, `arg[p]` its
parameters. Local computation between two calls belongs to the action before or
after it. A call that may fail has a failing variant that counts in `faults`; the
counter is bounded by `MaxFaults`, an arbitrary natural number in the proofs.
Definitions whose names have a suffix (`ConsumeWins_Unmarked`) are faulty variants
of the definition named before the underscore. They are used by nothing; they
document which mistake each property detects.

### RefreshRotation

`status` merges the columns `used` and `revoked`, which no code tells apart
("live"/"dead"), with the two stores: "auth" and "authrev" are rows of the Auth
service's `refresh_tokens`. `rec` holds the columns that never change. `authKey`
is the set of Redis keys `ggid:rt:<hash>`. `registry` is the JSON record of
`oauth_token_families` reduced to the theft flag and the ids marked "rotated".
`revokedAt` is the column that deletion of a client or an account sets and that
only the cleanup reads. A token stands for its secret, hash and row id; family
ids are token ids, since a family is rooted at a token.

| Code | Actions |
|---|---|
| `RefreshToken` steps 1-6 | `StartRefresh`, `LookupForeign`, `LookupReused`, `LookupLive`, `LookupFails` |
| `lookupAuthRefreshToken` | `LookupAuthKey` (GETDEL), `LookupAuthRow` |
| step 6b | `CheckUser`, `RevokeStale` |
| `ConsumeRefreshToken` | `ConsumeWins`, `ConsumeMisses`, `ConsumeFails` |
| steps 8-9a | `StoreRotated`, `StoreFails`, `RegisterRotationGet/Put` |
| reuse response | `MarkTheftGet/Put`, `RevokeFamily`, `RevokeClientWide`, `RevokeFails` |
| other writers | `IssueRoot`, `RevokeToken`, `RevokeUser`, `DeleteUser`, `DeleteAccount`, `DeleteClient`, `DisableClient`, `EnableClient`, `DeactivateUser`, `ActivateUser`, `CleanupOidcRows`, `CleanupAuthRows` |
| external | `AuthLogin` (logins of an earlier release of the Auth service: this commit only reads and deletes such keys), `Expire` |

Time is two facts, `expired` and `rec.stamped`: whether a row was inserted with a
real `created_at`. Token lifetime and the cleanup's age test are both 30 days.

### AuditChain

An event is its position in the order `(created_at, id)` by which the repository
and the tamper check sort; both are set before the event is sent. A hash is
modelled as the sequence of events it covers, which makes it injective, as HMAC is
taken to be. `Insert` is three actions: `SelectTail` (the snapshot of the SELECT),
`LockTail` (waiting for the row and taking it) and `Commit` or `Duplicate`. This
is how PostgreSQL evaluates `ORDER BY ... LIMIT 1 FOR UPDATE` at READ COMMITTED:
the row is chosen in the snapshot; after a wait it is returned if it was not
changed, and a row inserted meanwhile is not seen. `Abandon` stands for database
errors, panics, crashes and lost acknowledgements at any point. Retention is two
statements, `GetBoundaryEventID` and `DeleteOlderThanExcept`; the second waits for
row locks. `log` and `odd` are history: the order of commits, and the events that
overlapped with another insert of their tenant or were late.

### OneTimeGrant and AuthorizationCode

`OneTimeGrant` has four phases per grant (none, open, spent, closed) and who
received tokens. `AuthorizationCode` implements it under the mapping `Phase`: a
code is *open* while the UPDATE of `ConsumeCode` would match it, *spent* while a
request that consumed it is issuing tokens, whatever has become of its row, and
*closed* afterwards. The state check before the exchange is `StateFound` (Redis
GETDEL), `StateMissing`, `LoadState` and `DeleteState` (the map). `StoreRoot` is the
step that appears as `IssueRoot` in `RefreshRotation`.

### DeviceGrant

The codes live in two maps of one process under one mutex; an action is one
critical section. `CreateDeviceAuthorization` is `CountActive` and `StoreCode`,
`PollDeviceToken` is `PollRead`, then `PollExpired` or `PollRecheck`, `PollIssue`
(signing, outside the lock) and `PollDelete`. Approving and denying are one section
each (`Approve`, `Deny`, `DecideTooLate`), the reaper is `Reap`. `decision` and
`redeemed` are history; `poll[p].late` and `calm` say whether the code was redeemed
when the poll began and whether nobody has decided since it last looked the code up;
`calm` is set at both looks, whatever they find. A poll that finds an approval at
its first look and a denial at its second answers `authorization_pending`
(`grant_device.go:133-135`), and the device learns of the denial at its next poll:
`DecisionObeyed` names that one answer and allows no token in its place. The tenant
of an approval is always compared in the model; the code skips the comparison for a
caller without a tenant (`grant_device.go:194`), which the gateway does not forward.
The grant is *not* a `OneTimeGrant`: two polls that overlap can both be answered
with a token.
`NoLateToken` states what does hold.

### AccessRevocation

One user's access tokens. `session[j]` is the row of token `j` in `sessions`,
`blocklist` the Redis set `ggid:revoked_jti` that `CAECheck` consults. `RevokeUser` is
`ListActiveJTI`, one `BlockJTI` per listed jti and `RevokeSessions`; between any two
of them logins, other revocations, logouts, the policy sweep and the clean-ups
run, and any call may fail, after which the code goes on. The password grant is
`SignToken` and `InsertSession`; the other grants record no session
(`IssueUntracked`). `promised` collects the tokens that were in use when a
`RevokeUser` call began that has returned, `excuse[j]` the first event that kept `j`
from being found or blocked. `RevocationExplained` is the exact extent of the
comment "revokes all sessions, access tokens, and refresh tokens for a user".

### TokenEndpoint, TokenClient and the clients

`TokenEndpoint` serves a refresh in one step and keeps what a client can observe:
`[fam, n]` is the n-th token of a login, `gen` the member that can still be used. It
may refuse any request, revoke a family on reuse, consume a token and fail to
store the next; a caller that goes away leaves its request in `orphans`, to be
served later or never. `lost` and `raced` are history. It is the view from outside
of what `RefreshRotation` models from inside (`AtMostOneLive` and `SingleRotation` are
what makes one `gen` per family enough); the two are not connected formally.

`TokenClient` says what the clients have in common: callers present what is in the
cell, and put back what they are handed. `Clients` maps it to
`ggid_refresh_token` of the console, the token set of the provider and the session
of the native client, and `ImplementsTokenClient` is that refinement.

| Code | Actions |
|---|---|
| `apiFetch` | `Request`, `Answered`, `Rejected`, `RejectedForGood`, `Refreshed`, `RefreshFailed`, `RetryAnswered`, `RetryFailed` |
| `AuthGuard` | `Effect` (part of every step that changes the path or loads a page), `StatusReply`, `VerifyRejected`, `VerifyAccepted`, `Unauthorized` |
| sign-in pages, callback, sidebar, user page | `Submit`, `SignedIn`, `SignedInBare`, `SignInFails`, `Redirect`, `Callback`, `SocialCallback`, `SignOut`, `Impersonated` |
| `GGIDProvider` | `MountProvider`, `ProfileLoaded`, `ProfileFailed`, `TimerFires`, `RefreshSucceeds`, `RefreshFails`, `LoginSucceeds`, `LoginBare`, `Logout` |
| `GGIDClient` | `StartGet`, `StartLogin`, `StartLogout`, `Read*` (`getSession`), `RefreshSaved`, `RefreshNull`, `EnterLogout`, `RevokeAccess`, `DeleteSession`, `Restart` |

An action is the code between two awaits. A client-side navigation takes effect at
once, a page load when it commits (`leaving`, `Unload`). MFA is part of `Submit`;
impersonation and social login yield a `Bare` access token, which has no refresh
token, and so may a sign-in whose answer has none (`SignedInBare`): the console then
leaves the refresh token of an earlier login in place. A token set of the React
provider is *dated* if the effect that sets the timer can tell when the access token
expires; an answer may be dated or not, and that of a login may have no refresh
token (`LoginBare`). `AlwaysRefreshing` is about dated sets. Its exception is a timer
that finds no refresh token in the storage; the provider is then `stranded`: it keeps
its token set and has no timer. `depth` counts the `logout()` frames of a native operation.

## 3. Runs

| Run | Checks | Shows |
|---|---|---|
| `refresh_rotation` | `TypeOK`, `AtMostOneLive`, `SingleRotation`, `FamilyOneClient`, `TheftFlagSound`, `InactiveUserGetsNothing`, `ForeignRowsUntouched`, `ExtinctForGood` | rotation is linear and stays with one client and user, and a family that has died out stays so, under races, one failure and everything the rest of the system does |
| `refresh_reuse` | `ReuseRevokesFamily` (violated) | a rotation in flight survives the response to reuse |
| `refresh_cleanup` | `CleanupSparesLive` (violated) | the next cleanup deletes a token that a rotation has just handed out; the property is about cleanup steps only |
| `audit_chain` | `TypeOK`, `PersistedOnce`, `AckedIsPersisted`, `AlarmExplained`, `LinkedToSurvivor` | at-least-once delivery ends in exactly one row, links are sound, alarms have a cause |
| `audit_progress` | `Persisted` | nothing blocks the log for ever |
| `audit_fork` | `NoFork` (violated) | `FOR UPDATE` does not serialize appends |
| `audit_anchor` | `AnchorKept` (violated) | the all-tenants cleanup keeps one anchor only |
| `grants` | code: `TypeOK`, `TokensBound`, `IsOneTimeGrant`; device: `DeviceTypeOK`, `LimitBounded`, `IndexAgrees`, `NoLateToken`, `DecisionObeyed`, `SubjectInTenant`; access tokens: `AccessTypeOK`, `RevocationExplained` | the code grant is a one-time grant, bound to its authorization; device codes obey decisions and do not outlive their use; what survives `RevokeUser` has a named cause |
| `code_state` | `StateOneTime` (violated) | the in-memory state check accepts one state twice |
| `clients` | `ClientsTypeOK`, `StoredTokenLive`, `ReuseHasCause`, `PairTogether`, `AlwaysRefreshing`, `NoRollback`, `ImplementsTokenClient`, `RefreshesEnd` | each client implements `TokenClient`, keeps what it is handed, and ends every refresh |
| `console_callback` | `CallbackNotSkipped` (violated) | the guard takes a signed-out browser off the callback page before the page has run |
| `native_logout` | `LogoutEnds` (violated) | `logout()` and `getSession()` call each other for ever |

### Bounds

- *Rotation*: two concurrent requests, three tokens, two clients of one tenant, a
  user of it and a user of another tenant; at any time at most one of a store
  failure so far (`MaxFaults = 1`), a change in the world (a client not enabled, a
  user not active, an expired or deleted token) and a row from before migration
  044; at most `MaxLoad = 3` of failures, changes and tokens drawn; at most
  `MaxRoots = 2` tokens that are not the result of a rotation. Two requests are enough for each
  of the races, and three tokens for a rotation of a rotation and for a second
  family. Requests return to "idle", so a behaviour may contain any number of
  them, one after another. About 280,000 distinct states up to symmetry.
- *Audit*: two workers, three events of one tenant, two deliveries of a message.
  Two workers overlap in every way; three events are the fewest with which a link
  can break behind a deleted row. `audit_progress` makes one of the messages
  undecodable. `audit_anchor` uses two tenants. Deadlock is not checked: a log in
  which everything is acknowledged stops.
- *Code grant*: two requests (each runs once; a retry is another request), two
  codes, a public and a confidential client that share a redirect URI, one
  verifier, one state value (so codes of a client share a state key), `MaxFaults = 1`,
  and `MaxChanges = 1` of clients not enabled, codes expired or removed, and
  failures; a request has at most one wrong parameter.
- *Device grant*: three codes of one client, two creates, two polls, users of two
  tenants, a limit of one code; codes and polls together are at most three
  (`DeviceBound`): two polls of one code, or three codes that fill the limit. With one
  client a poll by the wrong client does not occur; the proofs cover it.
- *Access tokens*: two tokens, two `RevokeUser` calls at once, each of which may be
  called again; at most two of expired tokens, excused tokens and single
  revocations under way (`AccessBound`).
  The three grants share no state, so `MCGrants` explores one of them per behaviour.
  About 500,000 distinct states together.
- *Clients*: one tab with two calls, two providers, or two native operations; one
  login with two rotations; one guard check under way per tab (`MaxChecks`); two
  `logout()` frames told apart from more (`MaxDepth` saturates, it does not stop the
  recursion). Two callers suffice for a race on one token, two rotations for an old
  token that is not the last but one. About 600,000 distinct states. Several logins, tabs and providers are
  covered by the proofs about `Clients`.

### Fairness

`audit_progress`: weak fairness of every worker's steps (the
consumer loops for ever and a database call returns) and of the delivery of every
message (JetStream offers a message until it is acknowledged or its deliveries
are used up). Nothing is assumed of publishers, failures or the cleanup. `LockTail`
is covered by weak fairness because a lock is given up by a step of its holder.

`clients`: weak fairness of `Settle(c)`, a fetch is answered or rejects and the code
that awaits it runs (browsers and the native runtime settle every fetch). It is
given to one caller; callers are interchangeable. `native_logout` adds that an
operation of the native client goes on while the application runs
(`OperationMoves`). Nothing is assumed of users, timers, expiry or orphaned requests.
`console_callback` checks what a step may not do and needs no fairness.

### Findings

1. *Reuse and a rotation in flight* (`refresh_reuse`). `domain/models.go:128` promises
   that reuse of a rotated token revokes the whole family. `revokeFamily` reaches
   the rows that exist; a handler between `ConsumeRefreshToken` and
   `StoreRefreshToken` inserts its row afterwards. That is all that escapes: the
   UPDATE leaves no usable token of the family (`FamilyTaken`), and a family with
   neither a usable token nor such a handler never gets one again (`ExtinctForGood`).
2. *Zero `created_at`* (`refresh_cleanup`). The rotated record is built without
   `CreatedAt`, so the cleanup's `created_at < NOW() - INTERVAL '30 days'` holds at once.
   The behaviour found is a login, one refresh and the cleanup. With the row stamped
   the property holds.
3. *Forked chains* (`audit_fork`). The comment in `audit_repo.go:58` says that FOR
   UPDATE prevents two inserts from reading the same `prev_hash`. It does not.
4. *One anchor for all tenants* (`audit_anchor`). The scheduler calls
   `CleanupOldEvents` with `uuid.Nil`.
5. *State accepted twice* (`code_state`). Load and Delete on the map are two calls.
   The code behind it is still spent once.
6. *The callback behind the guard* (`console_callback`). `/auth/callback` is not in
   `PUBLIC_PATHS`, so a browser without a session is sent to the login page before
   the callback page is mounted: it leaves for the authorization server, comes back
   with its code, and the answer of `/system/status` moves it to `/login`. With the path
   among the public ones the property holds.
7. *Logging out for ever* (`native_logout`). `logout()` begins with `getSession()`, which
   gives up an expired session by calling `logout()`.

Observations that no run is about: no migration creates `oidc_refresh_tokens` or
gives `refresh_tokens` a column `revoked`, though the code uses both; deleting a
client or one's account sets `revoked_at`, which the OAuth service does not read
(the user check and the client lookup are what stops these tokens); a failing
status query in step 6b revokes a live token like an inactive user; the cascade
of an access-token revocation compares the client's UUID with the token's
audience; AMR, ACR and the authentication time of an authorization are not
among the columns of a code. `RevokeUser` is commented "revokes all sessions, access
tokens, and refresh tokens for a user" (`session_revocation_manager.go:60`); the
excuses of `RevocationExplained` are the access tokens it does not reach: those of
grants that record no session, those whose session `LogoutAll` (whose own comment
speaks of a blacklist it does not fill), a single revocation or the policy sweep
had ended, and those of a login that overlaps. `CAECheck` is commented "Redis
unavailable -> allow + warn" while `IsRevoked` fails closed. `RevokeOldestForUser` would
revoke the newest sessions (`ORDER BY created_at ASC OFFSET n`), but its only caller,
`SessionService.Create`, is used by tests alone. The cascade of an access-token
revocation, being empty, is not modelled. Token answers have `expires_in` and no
`expires_at`, so the React provider dates a token set by its payload, and `atob` throws
on a base64url payload with `-` or `_` in it: the set then gets no timer
(`GGIDProvider.tsx:132-139`). A set without a refresh token gets a timer that does
nothing (line 89).

## 4. Proofs

Each `*_proofs` module extends its component and TLAPS. The constants are
arbitrary, within the `ASSUME` of the component: any number of requests, tokens,
clients, events, workers, codes and failures.

- `RefreshRotation_proofs`: `TypeCorrect`, `LinearFamilies` (`AtMostOneLive`),
  `RotatedOnce` (`SingleRotation`), `FamilyOwnership` (`FamilyOneClient`),
  `ClientIsolation` (`ForeignRowsUntouched`), `ExtinctionFinal` (`ExtinctForGood`),
  `FamilyTaken`, `InactiveRefused` (`InactiveUserGetsNothing`) and `NoFalseAccusation`
  (`TheftFlagSound`). `AtMostOneLive` is not inductive: it says
  nothing of a request that has consumed a token and will insert another. The
  invariant `OneHolder` says that a family is *held* by at most one of a usable token,
  a first-party key, and a request between winning and storing; every action
  hands the hold on, or drops it. `Spent` and `AuthUnspent` say that what was rotated
  is never held again, `StoreShape` that a row belongs to one of the two stores,
  `ClientBound` that a request past the lookup works on its own client's token.
  Every step is one of four kinds (`StepKinds`): it adds no holder, hands a token's
  family to a request, a request's family to a token, or roots a family; this also
  gives `ExtinctionFinal`. `FamilyTaken` (no usable token of the family is left by the
  UPDATE of `revokeFamily`) is about a WHERE clause on tenant and `family_id`, so it
  needs `OneTenant`, client and user of a row are of one tenant, and `RootSpent`, a root
  from before migration 044, whose `family_id` is NULL, is not usable once it has
  descendants. `UserGate` says that a request whose user was inactive all along has
  not passed the status check. `RegistryInv` says of the registry, which is read and
  written back without a lock, that every id marked "rotated", in the registry or in a
  copy, is of a token that was rotated, and that each rotation is registered by one
  request, before which its id is marked nowhere: so `RegisterRotation` finding its id
  marked, which raises the flag, does not happen, and only `MarkTheft` raises it.
- `AuditChain_proofs`: `TypeCorrect`, `AtMostOnce` (`PersistedOnce`), `NoAckedLoss`
  (`AckedIsPersisted`), `SoundLinks` (`LinkedToSurvivor`). The primary key protects only
  rows that are there, so `PersistedOnce` needs `GoneForGood`: what retention removed
  is out of every worker's reach. `ReplyPersisted` and `TailHeld` carry the other two.
  `AlarmsHaveCause` (`AlarmExplained`) needs to know, for every row that is not odd, how
  the row it is chained to relates to the rows that are there now (`LinksKept`):
  everything between the two came out of order and is odd, and if anything older is
  left the row itself is left. `Alone` is that fact for an insert between its SELECT
  and its COMMIT, `KeepsNewest` and `GonePast` carry it over a cleanup.
  The assumption on `Events` (every non-empty subset has a largest element) holds of
  every finite set of events.
- `AuthorizationCode_proofs`: `TypeCorrect`, `Binding` (`TokensBound`) and `Implements`
  (`IsOneTimeGrant`): every step of the code grant is a step of `OneTimeGrant` or a
  stutter under `Phase`. It rests on `OneSpender`, at most one request is between the
  UPDATE and its answer, and nobody was answered before it.
- `DeviceGrant_proofs`: `TypeCorrect`, `Limit`, `SameCodes`, `SingleUse`, `Obedience`, `TenantKept`, for any
  number of codes, clients, creates, polls and any limit. `OnceDrawn` says that removed
  codes do not come back, `EntryAgrees` that the stored status is the last decision
  and its user one of the tenant, `PollAgrees` that what a poll has copied stays true
  of the code, or of its decision if nobody decided since its last look, and `LimitInv` counts every
  create that has counted and not stored.
- `AccessRevocation_proofs`: `TypeCorrect` and `Explained` (`RevocationExplained`), for any
  number of tokens and overlapping calls. The property says nothing of a call under
  way; `CallsCovered` does: every token a call is answerable for, and every active
  row, is without a row, settled (blocked, expired or excused) or still on the
  call's list. It needs `RowsSettled`, a row that is no longer active is of a settled
  token, and `Handed`, rows and jtis belong to tokens that were handed out.
  `TypeCorrect` includes that a token which is not handed out yet has no row.
- `TokenClient_proofs`: `StoredLive`, `CausedReuse` and `Monotone` (`NoRollback`), for any
  number of callers, logins and rotations. `Known`: no token anywhere is ahead of the
  server. `Newest`: while an answer is on its way, nothing of its family that is stored or
  presented is newer than the token it was asked with, so nothing can be redeemed
  before it is saved. `Current`, `Shared` and `OrphansLost` carry the causes.
- `Clients_proofs`: the real clients, for any number of tabs, calls, providers,
  operations, logins and rotations. `TypeCorrect`, `PairsTogether` (`PairTogether`) and
  `KeepsRefreshing` (`AlwaysRefreshing`) come from the invariant `Kept`, which adds to
  them `Framed`: a native operation about to leave `logout()` has a frame to leave.
  `Allowed` writes down what `TokenClient` lets happen to the endpoint and to the cell.
  One lemma per client shows that its steps are `Allowed` (`ReactAllowed`,
  `NativeAllowed`, `ConsoleAllowed`), `Simulation` puts them together, and `Implements`
  (`ImplementsTokenClient`) is the refinement. `Promise` instantiates `TokenClient_proofs`
  with what the clients store; through it `TokenClient`'s invariant holds of them
  (`PromiseKept`) and gives `StoredLive` (`StoredTokenLive`), `CausedReuse`
  (`ReuseHasCause`) and `Monotone` (`NoRollback`).

Every invariant and action property that a passing run checks is proved. Only
model-checked are the two liveness properties, `Persisted` and `RefreshesEnd`:
liveness under fairness, like `ENABLED`, is beyond the prover, as are induction over
data and recursive operators, which these modules avoid.

## 5. Assumptions and omissions

- PostgreSQL at its default READ COMMITTED; one statement takes effect at once,
  except `SELECT ... FOR UPDATE` and the cleanup's two statements.
- The hash chain is enabled and the HMAC is injective. The repair tool, erasure
  and anonymization, which rewrite rows, are not modelled yet.
- Retention is longer than the 72 hours a message stays in the stream: an event
  before the cutoff is not on its way any more. The code accepts a retention of one
  day; then an event that was deleted and is delivered again would be inserted again.
  Rows with equal `created_at` are
  taken to be ordered by id in `GetBoundaryEventID` as well.
- The state map is that of one process; its cap of 100,000 entries and the
  periodic removal of expired entries are left out. A code whose authorization
  failed after the INSERT is known to nobody and left out.
- Device codes: one process lifetime; user codes do not collide; the counter's
  one-hour cut-off is never reached, since the reaper removes a code before.
- Access tokens: Redis and PostgreSQL are configured (without Redis the gateway
  checks nothing). A token lives fifteen minutes, a sessions row seven days longer.
- Clients: any request may be refused at any time, which covers expiry, revocation
  of the whole client and errors; scopes, roles, tenant and user keys in
  localStorage are left out, since no code decides about tokens by them.
- Contents of tokens, scopes, RAR details, hashing of secrets, logging and metrics
  change none of the modelled state.

### Not modelled

The reasons are with the components in `PROJECT.json`; in short:

- *CIBA*: no handler calls `ApproveCIBAAuth` or `DenyCIBAAuth`, so a request can only be
  created and polled until it expires.
- *The session limit*: `SessionService.Create` has no caller outside tests.
- *Console and React SDK beyond the session*: of some 231,000 lines of TypeScript
  147,000 are translation tables, and most of the rest is rendering and one request
  per button or hook. They hold no state that several actors write, and a
  specification of them would restate the markup. This is why the modelled share
  of the TypeScript is small: the modelled core is the Go services' token and
  audit code and the code of the clients that keeps a session.
- *Still to do*: pushed authorization requests, circuit breaker, audit publisher,
  chain repair and erasure, key rotation, request coalescing, lockout counters, the
  Go SDK's deduplication of refreshes.
- *Policy, Organization, CLI, MCP, migration*: pure evaluation, CRUD, API clients.

## 6. Plan

Built: rotation, audit chain, code grant with its abstract specification, device
grant, access-token revocation, the three clients with theirs; proofs of all the
safety properties the runs check. Next:

1. `TokenEndpoint` as an abstraction of `RefreshRotation`, stated as a refinement: `gen` is
   the member of the line of a family that is held, and a revoked family one that is
   extinct. `OneHolder` and `ExtinctForGood` are the facts it rests on.
2. The safety part behind `Persisted`: a row lock is held by a worker whose next step
   is enabled, and no two workers wait for each other.
3. `AuditPublisher`: the bounded buffer and `Close`, composed with `AuditChain`'s
   `Publish`; then chain repair and erasure as an extension of `AuditChain`.
4. `CircuitBreaker` of the gateway: trial budget, results that come late.
5. The Go SDK's refresh deduplication as a client of `TokenEndpoint`; key rotation with
   overlapping keys; request coalescing.
