----------------------------- MODULE DeviceGrant -----------------------------
(***************************************************************************)
(* The device authorization grant of the OAuth service.  A device asks for *)
(* a code (CreateDeviceAuthorization) and polls the token endpoint with it *)
(* (PollDeviceToken) while a user approves or denies it in a browser       *)
(* (ApproveDeviceCode, DenyDeviceCode).  The codes live in one process's   *)
(* memory: the maps deviceCodeStore and userCodeIndex under one mutex.  An *)
(* action is one critical section; a create takes two of them and a poll   *)
(* up to three, with everything else in between.                           *)
(*                                                                         *)
(* A device code stands for itself and for its user code: both are random, *)
(* drawn once, and do not collide.  LastPoll is left out: it only decides  *)
(* between the answers slow_down and authorization_pending.  A code that   *)
(* is an hour old is not counted against the limit any more; the reaper    *)
(* removes it long before that.                                            *)
(***************************************************************************)
EXTENDS FiniteSets, Naturals

CONSTANTS
  DeviceCodes,
  DeviceClients,
  Creates,    \* device authorization requests being served
  Polls,      \* token requests being served
  Users,
  Tenants,
  TenantOf,   \* the tenant of each user: the gateway's X-Tenant-ID
  MaxActive,  \* stored codes a client may have when it asks for another
  Unset       \* no entry, no user, no decision

ASSUME DeviceAssumption ==
  /\ TenantOf \in [Users -> Tenants]
  /\ MaxActive \in Nat \ {0}
  /\ IsFiniteSet(Creates)
  /\ Unset \notin Users \cup DeviceClients /\ "denied" \notin Users
  /\ Unset \notin [client: DeviceClients, tenant: Tenants, status: {"pending", "approved", "denied"},
                   user: Users \cup {Unset}, expired: BOOLEAN]

VARIABLES
  store,     \* deviceCodeStore: the entry of each code
  index,     \* userCodeIndex: the codes a user can find by their user code
  create,    \* the client whose codes each create has counted, or Unset
  poll,      \* where each poll is, what it has copied, what it answered
  drawn,     \* history: the codes handed out
  decision,  \* history: the last decision on each code: who approved it, or "denied"
  redeemed   \* history: codes for which a device holds a token

deviceVars == <<store, index, create, poll, drawn, decision, redeemed>>

Entry == [client: DeviceClients, tenant: Tenants, status: {"pending", "approved", "denied"},
          user: Users \cup {Unset}, expired: BOOLEAN]

\* late: the code was redeemed when the poll began; calm: no decision was taken
\* since the poll last looked the code up.
Poll == [at: {"idle", "expired", "recheck", "issue", "delete"}, code: DeviceCodes,
         tenant: Tenants, user: Users \cup {Unset}, late: BOOLEAN, calm: BOOLEAN,
         answer: {"none", "token", "access_denied", "authorization_pending", "error"}]

DeviceTypeOK ==
  /\ store \in [DeviceCodes -> Entry \cup {Unset}]
  /\ index \subseteq DeviceCodes
  /\ create \in [Creates -> DeviceClients \cup {Unset}]
  /\ poll \in [Polls -> Poll \cup {Unset}]
  /\ drawn \subseteq DeviceCodes
  /\ decision \in [DeviceCodes -> Users \cup {"denied", Unset}]
  /\ redeemed \subseteq DeviceCodes

DeviceInit ==
  /\ store = [c \in DeviceCodes |-> Unset]
  /\ index = {}
  /\ create = [r \in Creates |-> Unset]
  /\ poll = [p \in Polls |-> Unset]
  /\ drawn = {}
  /\ decision = [c \in DeviceCodes |-> Unset]
  /\ redeemed = {}

Stored == {c \in DeviceCodes : store[c] # Unset}
Active(k) == {c \in Stored : store[c].client = k}

-----------------------------------------------------------------------------
(* CreateDeviceAuthorization. *)

\* Faulty variant: the count may reach the limit and still pass.
CountActive_OffByOne(r, k) ==
  /\ create[r] = Unset
  /\ Cardinality(Active(k)) <= MaxActive
  /\ create' = [create EXCEPT ![r] = k]
  /\ UNCHANGED <<store, index, poll, drawn, decision, redeemed>>

\* First critical section: the client's codes are counted.  A request over the
\* limit is answered with an error and leaves no trace.
CountActive(r, k) ==
  /\ create[r] = Unset
  /\ Cardinality(Active(k)) < MaxActive
  /\ create' = [create EXCEPT ![r] = k]
  /\ UNCHANGED <<store, index, poll, drawn, decision, redeemed>>

\* Faulty variant: a request without a valid tenant is stored with the nil one.
StoreCode_NilTenant(r, c, t) ==
  /\ create[r] # Unset
  /\ c \notin drawn
  /\ store' = [store EXCEPT ![c] = [client |-> create[r], tenant |-> Unset, status |-> "pending",
                                    user |-> Unset, expired |-> FALSE]]
  /\ index' = index \cup {c}
  /\ drawn' = drawn \cup {c}
  /\ create' = [create EXCEPT ![r] = Unset]
  /\ UNCHANGED <<poll, decision, redeemed>>

\* Second critical section: a new code is stored, whatever came in between.
StoreCode(r, c, t) ==
  /\ create[r] # Unset
  /\ c \notin drawn
  /\ store' = [store EXCEPT ![c] = [client |-> create[r], tenant |-> t, status |-> "pending",
                                    user |-> Unset, expired |-> FALSE]]
  /\ index' = index \cup {c}
  /\ drawn' = drawn \cup {c}
  /\ create' = [create EXCEPT ![r] = Unset]
  /\ UNCHANGED <<poll, decision, redeemed>>

-----------------------------------------------------------------------------
(* ApproveDeviceCode, DenyDeviceCode, the clock and the reaper. *)

\* Both maps lose the codes in C.
RemoveCodes(C) ==
  /\ store' = [c \in DeviceCodes |-> IF c \in C THEN Unset ELSE store[c]]
  /\ index' = index \ C

Decide(c, d) ==
  /\ decision' = [decision EXCEPT ![c] = d]
  /\ poll' = [p \in Polls |-> IF poll[p] # Unset /\ poll[p].code = c
                              THEN [poll[p] EXCEPT !.calm = FALSE] ELSE poll[p]]

Found(c) == c \in index /\ store[c] # Unset

\* Faulty variant: whoever knows the user code may approve it.
Approve_AnyTenant(c, u) ==
  /\ Found(c) /\ ~ store[c].expired
  /\ store' = [store EXCEPT ![c].status = "approved", ![c].user = u]
  /\ Decide(c, u)
  /\ UNCHANGED <<index, create, drawn, redeemed>>

Approve(c, u) ==
  /\ Found(c) /\ ~ store[c].expired
  /\ store[c].tenant = TenantOf[u]
  /\ store' = [store EXCEPT ![c].status = "approved", ![c].user = u]
  /\ Decide(c, u)
  /\ UNCHANGED <<index, create, drawn, redeemed>>

\* The entry keeps the user of an earlier approval.
Deny(c) ==
  /\ Found(c) /\ ~ store[c].expired
  /\ store' = [store EXCEPT ![c].status = "denied"]
  /\ Decide(c, "denied")
  /\ UNCHANGED <<index, create, drawn, redeemed>>

\* Approving or denying an expired code removes it.
DecideTooLate(c) ==
  /\ Found(c) /\ store[c].expired
  /\ RemoveCodes({c})
  /\ UNCHANGED <<create, poll, drawn, decision, redeemed>>

ExpireCode(c) ==
  /\ store[c] # Unset /\ ~ store[c].expired
  /\ store' = [store EXCEPT ![c].expired = TRUE]
  /\ UNCHANGED <<index, create, poll, drawn, decision, redeemed>>

Reap ==
  /\ \E c \in Stored : store[c].expired
  /\ RemoveCodes({c \in Stored : store[c].expired})
  /\ UNCHANGED <<create, poll, drawn, decision, redeemed>>

-----------------------------------------------------------------------------
(* PollDeviceToken. *)

At(p, step) == poll[p] # Unset /\ poll[p].at = step
Continue(p, step) == [poll EXCEPT ![p].at = step]
Reply(p, what) == [poll EXCEPT ![p].at = "idle", ![p].answer = what]

\* The entry is copied under the read lock and judged after the unlock.  A code
\* that is not stored, or not this client's, is refused without a trace.
PollRead(p, c, k) ==
  LET e == store[c]
      Begin(step, what) ==
        poll' = [poll EXCEPT ![p] =
                   [at |-> step, code |-> c, tenant |-> e.tenant, user |-> e.user,
                    late |-> c \in redeemed, calm |-> TRUE, answer |-> what]]
  IN /\ poll[p] = Unset \/ At(p, "idle")
     /\ IF e = Unset \/ e.client # k THEN UNCHANGED poll
        ELSE \/ e.expired /\ Begin("expired", "none")
             \/ ~ e.expired /\ e.status = "pending" /\ Begin("idle", "authorization_pending")
             \/ ~ e.expired /\ e.status = "denied" /\ Begin("idle", "access_denied")
             \/ ~ e.expired /\ e.status = "approved" /\ Begin("recheck", "none")
     /\ UNCHANGED <<store, index, create, drawn, decision, redeemed>>

\* Faulty variant: the user code is left in the index.
PollExpired_IndexLeft(p) ==
  /\ At(p, "expired")
  /\ store' = [store EXCEPT ![poll[p].code] = Unset]
  /\ poll' = Reply(p, "error")
  /\ UNCHANGED <<index, create, drawn, decision, redeemed>>

PollExpired(p) ==
  /\ At(p, "expired")
  /\ RemoveCodes({poll[p].code})
  /\ poll' = Reply(p, "error")
  /\ UNCHANGED <<create, drawn, decision, redeemed>>

\* Faulty variant: the status read before the unlock is trusted.
PollRecheck_Trusting(p) ==
  /\ At(p, "recheck")
  /\ poll' = [poll EXCEPT ![p].at = "issue", ![p].calm = TRUE]
  /\ UNCHANGED <<store, index, create, drawn, decision, redeemed>>

\* The entry is looked up again under the lock and its user copied.
PollRecheck(p) ==
  LET e == store[poll[p].code]
      Approved == e # Unset /\ e.status = "approved"
  IN /\ At(p, "recheck")
     /\ \/ Approved /\ poll' = [poll EXCEPT ![p].at = "issue", ![p].user = e.user, ![p].calm = TRUE]
        \/ ~ Approved /\ poll' = [poll EXCEPT ![p].at = "idle", ![p].calm = TRUE,
                                              ![p].answer = "authorization_pending"]
     /\ UNCHANGED <<store, index, create, drawn, decision, redeemed>>

\* The token is signed outside the lock; signing may fail.
PollIssue(p) ==
  /\ At(p, "issue")
  /\ poll' \in {Continue(p, "delete"), Reply(p, "error")}
  /\ UNCHANGED <<store, index, create, drawn, decision, redeemed>>

\* Faulty variant: only the user code is removed.
PollDelete_CodeLeft(p) ==
  /\ At(p, "delete")
  /\ index' = index \ {poll[p].code}
  /\ poll' = Reply(p, "token")
  /\ redeemed' = redeemed \cup {poll[p].code}
  /\ UNCHANGED <<store, create, drawn, decision>>

PollDelete(p) ==
  /\ At(p, "delete")
  /\ RemoveCodes({poll[p].code})
  /\ poll' = Reply(p, "token")
  /\ redeemed' = redeemed \cup {poll[p].code}
  /\ UNCHANGED <<create, drawn, decision>>

-----------------------------------------------------------------------------
DeviceNext ==
  \/ \E r \in Creates, k \in DeviceClients : CountActive(r, k)
  \/ \E r \in Creates, c \in DeviceCodes, t \in Tenants : StoreCode(r, c, t)
  \/ \E c \in DeviceCodes : Deny(c) \/ DecideTooLate(c) \/ ExpireCode(c)
  \/ \E c \in DeviceCodes, u \in Users : Approve(c, u)
  \/ Reap
  \/ \E p \in Polls, c \in DeviceCodes, k \in DeviceClients : PollRead(p, c, k)
  \/ \E p \in Polls : PollExpired(p) \/ PollRecheck(p) \/ PollIssue(p) \/ PollDelete(p)

DeviceSpec == DeviceInit /\ [][DeviceNext]_deviceVars

-----------------------------------------------------------------------------
\* The limit of pending codes, counted and used in two critical sections, is
\* overrun by at most one code for every other create that is being served.
LimitBounded ==
  \A k \in DeviceClients : Cardinality(Active(k)) <= MaxActive - 1 + Cardinality(Creates)

\* Outside the lock the two maps hold the same codes, whichever of the five
\* places that remove an expired or redeemed code ran, in whatever order.
IndexAgrees == index = Stored

\* A device code is good for one token, unless polls overlap: a poll that begins
\* after a token was handed out for the code gets none.
NoLateToken == \A p \in Polls : poll[p] # Unset /\ poll[p].answer = "token" => ~ poll[p].late

\* A poll answers as the last decision before its last look at the code says: a
\* token for the user who approved, a denial only after one, and "pending" while
\* there is no decision or when another poll, or the clock, has taken the code
\* away.  So a user who denies, or approves in another's place, before that look
\* prevails: no token is issued against him.  A poll that saw an approval at its
\* first look and a denial at its second says "pending", not "access_denied"; the
\* device learns of the denial at its next poll.
DecisionObeyed ==
  \A p \in Polls : poll[p] # Unset /\ poll[p].calm =>
    LET c == poll[p].code
        Overtaken == decision[c] = "denied" /\ poll[p].user # Unset
    IN CASE poll[p].answer = "token" -> decision[c] = poll[p].user
         [] poll[p].answer = "access_denied" -> decision[c] = "denied"
         [] poll[p].answer = "authorization_pending" ->
              decision[c] = Unset \/ c \notin Stored \/ Overtaken
         [] OTHER -> TRUE

\* A device token is never issued for a user of another tenant than the one the
\* code was created in, whoever decides while the poll is under way.
SubjectInTenant ==
  \A p \in Polls : poll[p] # Unset /\ poll[p].answer = "token" =>
    poll[p].user \in Users /\ TenantOf[poll[p].user] = poll[p].tenant
=============================================================================
