-------------------------- MODULE DeviceGrant_proofs --------------------------
(***************************************************************************)
(* Proofs about DeviceGrant for any number of codes, clients, creates,     *)
(* polls, users and tenants and any limit.  The argument: a code is drawn  *)
(* once, so what a poll has copied stays true of a code that is gone; the  *)
(* stored status is the last decision; and every create that has counted   *)
(* and not yet stored is accounted for in the limit.                       *)
(***************************************************************************)
EXTENDS DeviceGrant, FiniteSetTheorems, TLAPS

\* Removed codes do not come back: the drawn ones that are not stored are gone.
OnceDrawn ==
  /\ Stored \subseteq drawn
  /\ redeemed \subseteq drawn /\ redeemed \cap Stored = {}

\* Nobody decides on a code that was not handed out.
Undecided == \A c \in DeviceCodes \ drawn : decision[c] = Unset

\* The entry of a stored code says what was last decided, by users of its tenant.
EntryAgrees ==
  \A c \in Stored :
    /\ store[c].status = "pending" => decision[c] = Unset
    /\ store[c].status = "approved" => decision[c] = store[c].user /\ store[c].user \in Users
    /\ store[c].status = "denied" => decision[c] = "denied"
    /\ store[c].user \in Users => TenantOf[store[c].user] = store[c].tenant

\* A poll under way knows the tenant of its code, the user of the approval it has
\* seen, and that of the last decision once it issues.
PollOK(p) ==
  poll[p] # Unset =>
    /\ poll[p].code \in drawn /\ ~ poll[p].late
    /\ poll[p].at # "idle" => poll[p].answer = "none"
    /\ poll[p].at = "recheck" => poll[p].user \in Users
    /\ poll[p].code \in Stored => store[poll[p].code].tenant = poll[p].tenant
    /\ poll[p].at \in {"issue", "delete"} \/ poll[p].answer = "token" =>
         /\ poll[p].user \in Users /\ TenantOf[poll[p].user] = poll[p].tenant
         /\ poll[p].calm => decision[poll[p].code] = poll[p].user
    /\ poll[p].calm /\ poll[p].answer = "access_denied" => decision[poll[p].code] = "denied"
    /\ poll[p].calm /\ poll[p].answer = "authorization_pending" =>
         \/ decision[poll[p].code] = Unset
         \/ poll[p].code \notin Stored
         \/ decision[poll[p].code] = "denied" /\ poll[p].user \in Users

PollAgrees == \A p \in Polls : PollOK(p)

\* Creates that have counted a client's codes and not yet stored their own.
Counted(k) == {r \in Creates : create[r] = k}

\* Every such create may still add a code.
LimitInv ==
  /\ IsFiniteSet(Stored)
  /\ \A k \in DeviceClients :
       Cardinality(Active(k)) + Cardinality(Counted(k)) =< MaxActive - 1 + Cardinality(Creates)

IInv ==
  /\ DeviceTypeOK /\ IndexAgrees /\ OnceDrawn /\ Undecided /\ EntryAgrees /\ PollAgrees
  /\ LimitInv

-----------------------------------------------------------------------------
(* What the pieces of the actions do. *)

\* An entry is not the absence of one.
LEMMA EntryNotUnset == Unset \notin Entry
  BY DeviceAssumption DEF Entry

\* A poll that has begun holds a record.
LEMMA PollForm ==
  ASSUME DeviceTypeOK, NEW p \in Polls, poll[p] # Unset
  PROVE  poll[p] \in Poll /\ poll[p].code \in DeviceCodes
  BY DEF DeviceTypeOK, Poll

\* A poll that goes on changes its place only.
LEMMA ContinueForm ==
  ASSUME DeviceTypeOK, NEW p \in Polls, poll[p] # Unset,
         NEW step \in {"issue", "delete"}, poll' = Continue(p, step)
  PROVE  /\ poll'[p] = [poll[p] EXCEPT !.at = step]
         /\ poll' \in [Polls -> Poll \cup {Unset}]
         /\ \A q \in Polls : q # p => poll'[q] = poll[q]
  <1>1. [poll[p] EXCEPT !.at = step] \in Poll
    BY PollForm DEF Poll
  <1> QED BY <1>1 DEF Continue, DeviceTypeOK

\* A poll that answers is over.
LEMMA ReplyForm ==
  ASSUME DeviceTypeOK, NEW p \in Polls, poll[p] # Unset,
         NEW what \in {"token", "error"}, poll' = Reply(p, what)
  PROVE  /\ poll'[p] = [poll[p] EXCEPT !.at = "idle", !.answer = what]
         /\ poll' \in [Polls -> Poll \cup {Unset}]
         /\ \A q \in Polls : q # p => poll'[q] = poll[q]
  <1>1. [poll[p] EXCEPT !.at = "idle", !.answer = what] \in Poll
    BY PollForm DEF Poll
  <1> QED BY <1>1 DEF Reply, DeviceTypeOK

\* Removing codes empties both maps at the same places.
LEMMA RemoveForm ==
  ASSUME DeviceTypeOK, NEW C \in SUBSET DeviceCodes, RemoveCodes(C)
  PROVE  /\ store' \in [DeviceCodes -> Entry \cup {Unset}]
         /\ Stored' = Stored \ C /\ index' = index \ C
         /\ \A c \in Stored' : store'[c] = store[c]
  BY DEF RemoveCodes, Stored, DeviceTypeOK

\* Changing an entry in place stores no code and removes none.
LEMMA EditForm ==
  ASSUME DeviceTypeOK, NEW c \in Stored, NEW e \in Entry, store' = [store EXCEPT ![c] = e]
  PROVE  /\ store' \in [DeviceCodes -> Entry \cup {Unset}]
         /\ Stored' = Stored /\ store'[c] = e
         /\ \A d \in Stored : d # c => store'[d] = store[d]
  BY EntryNotUnset DEF Stored, DeviceTypeOK

-----------------------------------------------------------------------------
(* What steps that store nothing keep. *)

\* The limit is kept when no code is stored and no create moves.
LEMMA LimitKept ==
  ASSUME LimitInv, DeviceTypeOK, DeviceTypeOK', Stored' \subseteq Stored, create' = create,
         \A c \in Stored' : store'[c].client = store[c].client
  PROVE  LimitInv'
  <1>1. IsFiniteSet(Stored) /\ IsFiniteSet(Stored')
    BY FS_Subset DEF LimitInv
  <1>2. ASSUME NEW k \in DeviceClients
        PROVE  Cardinality(Active(k)') + Cardinality(Counted(k)') =< MaxActive - 1 + Cardinality(Creates)
    <2>1. Active(k)' \subseteq Active(k) /\ Active(k) \subseteq Stored
      BY DEF Active
    <2>2. IsFiniteSet(Active(k)) /\ IsFiniteSet(Active(k)') /\ IsFiniteSet(Counted(k))
      BY <1>1, <2>1, FS_Subset, DeviceAssumption DEF Counted
    <2>3. Cardinality(Active(k)') =< Cardinality(Active(k))
      BY <2>1, <2>2, FS_Subset
    <2>4. /\ Cardinality(Active(k)) \in Nat /\ Cardinality(Active(k)') \in Nat
          /\ Cardinality(Counted(k)) \in Nat /\ Cardinality(Creates) \in Nat
      BY <2>2, FS_CardinalityType, DeviceAssumption
    <2>5. Counted(k)' = Counted(k)
      BY DEF Counted
    <2> QED
      BY <2>3, <2>4, <2>5, DeviceAssumption DEF LimitInv
  <1> QED BY <1>1, <1>2 DEF LimitInv

\* A poll that does not move keeps what it knows while codes are only removed.
LEMMA PollKept ==
  ASSUME NEW p \in Polls, PollOK(p), poll'[p] = poll[p], drawn \subseteq drawn', decision' = decision,
         Stored' \cap drawn \subseteq Stored,
         \A c \in Stored' \cap drawn : store'[c].tenant = store[c].tenant
  PROVE  PollOK(p)'
  BY DEF PollOK

\* Removing codes keeps the invariant, but for the poll that does it.
LEMMA Removed ==
  ASSUME IInv, DeviceTypeOK', NEW C \in SUBSET DeviceCodes, RemoveCodes(C),
         create' = create, drawn' = drawn, decision' = decision,
         redeemed \subseteq redeemed', redeemed' \subseteq redeemed \cup (C \cap drawn)
  PROVE  /\ IndexAgrees' /\ OnceDrawn' /\ Undecided' /\ EntryAgrees' /\ LimitInv'
         /\ \A p \in Polls : poll'[p] = poll[p] => PollOK(p)'
  <1> USE DEF IInv
  <1>1. Stored' = Stored \ C /\ index' = index \ C /\ \A c \in Stored' : store'[c] = store[c]
    BY RemoveForm
  <1>2. IndexAgrees' /\ OnceDrawn' /\ Undecided'
    BY <1>1 DEF IndexAgrees, OnceDrawn, Undecided
  <1>3. EntryAgrees'
    BY <1>1 DEF EntryAgrees
  <1>4. LimitInv'
    BY <1>1, LimitKept
  <1>5. \A p \in Polls : poll'[p] = poll[p] => PollOK(p)'
    BY <1>1, PollKept DEF PollAgrees
  <1> QED BY <1>2, <1>3, <1>4, <1>5

\* A poll's own step keeps the invariant if it keeps what the poll knows.
LEMMA PollMoves ==
  ASSUME IInv, DeviceTypeOK', NEW p \in Polls, PollOK(p)',
         UNCHANGED <<store, index, create, drawn, decision, redeemed>>,
         \A q \in Polls : q # p => poll'[q] = poll[q]
  PROVE  IInv'
  <1> USE DEF IInv
  <1>1. Stored' = Stored
    BY DEF Stored
  <1>2. IndexAgrees' /\ OnceDrawn' /\ Undecided' /\ EntryAgrees'
    BY <1>1 DEF IndexAgrees, OnceDrawn, Undecided, EntryAgrees
  <1>3. LimitInv'
    BY <1>1, LimitKept
  <1>4. PollAgrees'
    BY <1>1, PollKept DEF PollAgrees
  <1> QED BY <1>2, <1>3, <1>4

-----------------------------------------------------------------------------
(* PollDeviceToken. *)

\* A code that a poll finds was never redeemed; what it copies is what the entry
\* says.
LEMMA ReadInv ==
  ASSUME IInv, NEW p \in Polls, NEW c \in DeviceCodes, NEW k \in DeviceClients, PollRead(p, c, k)
  PROVE  IInv'
  <1> USE DEF IInv
  <1> DEFINE e == store[c]
             Record(step, what) ==
               [at |-> step, code |-> c, tenant |-> e.tenant, user |-> e.user,
                late |-> c \in redeemed, calm |-> TRUE, answer |-> what]
  <1>1. CASE UNCHANGED poll
    <2>1. DeviceTypeOK'
      BY <1>1 DEF DeviceTypeOK, PollRead
    <2>2. PollOK(p)'
      BY <1>1 DEF PollRead, PollAgrees, PollOK, Stored
    <2> QED
      BY <1>1, <2>1, <2>2, PollMoves DEF PollRead
  <1>2. ASSUME NEW step \in {"idle", "expired", "recheck"},
               NEW what \in {"none", "access_denied", "authorization_pending"},
               e # Unset,
               poll' = [poll EXCEPT ![p] = Record(step, what)],
               what = "authorization_pending" => e.status = "pending",
               what = "access_denied" => e.status = "denied",
               step # "idle" => what = "none",
               step = "recheck" => e.status = "approved"
        PROVE  IInv'
    <2>1. c \in Stored /\ e \in Entry
      BY <1>2 DEF Stored, DeviceTypeOK
    <2>2. e.tenant \in Tenants /\ e.user \in Users \cup {Unset}
      BY <2>1 DEF Entry
    <2>3. Record(step, what) \in Poll
      BY <2>2 DEF Poll
    <2>4. poll'[p] = Record(step, what) /\ \A q \in Polls : q # p => poll'[q] = poll[q]
      BY <1>2 DEF DeviceTypeOK
    <2>5. DeviceTypeOK'
      BY <1>2, <2>3 DEF DeviceTypeOK, PollRead
    <2>6. c \in drawn /\ c \notin redeemed
      BY <2>1 DEF OnceDrawn
    <2>7. Stored' = Stored /\ UNCHANGED <<store, drawn, decision>>
      BY DEF PollRead, Stored
    <2>8. /\ what = "access_denied" => decision[c] = "denied"
          /\ what = "authorization_pending" => decision[c] = Unset
          /\ step = "recheck" => e.user \in Users
      BY <1>2, <2>1 DEF EntryAgrees
    <2>9. ~ poll'[p].late
      <3>1. (c \in redeemed) = FALSE
        BY <2>6
      <3>2. poll'[p].late = (c \in redeemed)
        BY <2>4
      <3> QED
        BY <3>1, <3>2
    <2>10. /\ poll'[p].code = c /\ poll'[p].tenant = e.tenant /\ poll'[p].at = step
           /\ poll'[p].answer = what /\ poll'[p].user = e.user
      BY <2>4
    <2>11. PollOK(p)'
      BY <1>2, <2>6, <2>7, <2>8, <2>9, <2>10 DEF PollOK
    <2> QED
      BY <2>4, <2>5, <2>11, PollMoves DEF PollRead
  <1> QED
    BY <1>1, <1>2 DEF PollRead

\* The second look finds the user of the last decision, if that is an approval.
LEMMA RecheckInv ==
  ASSUME IInv, NEW p \in Polls, PollRecheck(p)
  PROVE  IInv'
  <1> USE DEF IInv
  <1> DEFINE c == poll[p].code
             e == store[c]
  <1>1. poll[p] # Unset /\ poll[p] \in Poll /\ c \in DeviceCodes /\ poll[p].at = "recheck"
    BY PollForm DEF PollRecheck, At
  <1>2. Stored' = Stored /\ UNCHANGED <<store, index, create, drawn, decision, redeemed>>
    BY DEF PollRecheck, Stored
  <1>3. CASE e # Unset /\ e.status = "approved"
              /\ poll' = [poll EXCEPT ![p].at = "issue", ![p].user = e.user, ![p].calm = TRUE]
    <2>1. c \in Stored /\ e.user \in Users /\ decision[c] = e.user /\ TenantOf[e.user] = e.tenant
      BY <1>1, <1>3 DEF Stored, EntryAgrees
    <2>2. e.tenant = poll[p].tenant
      BY <1>1, <2>1 DEF PollAgrees, PollOK
    <2>3. [poll[p] EXCEPT !.at = "issue", !.user = e.user, !.calm = TRUE] \in Poll
      BY <1>1, <2>1 DEF Poll
    <2>4. /\ poll'[p] = [poll[p] EXCEPT !.at = "issue", !.user = e.user, !.calm = TRUE]
          /\ \A q \in Polls : q # p => poll'[q] = poll[q]
          /\ poll' \in [Polls -> Poll \cup {Unset}]
      BY <1>3, <2>3 DEF DeviceTypeOK
    <2>5. DeviceTypeOK'
      BY <1>2, <2>4 DEF DeviceTypeOK
    <2>6. /\ poll'[p].code = c /\ poll'[p].tenant = poll[p].tenant /\ poll'[p].user = e.user
          /\ poll'[p].late = poll[p].late /\ poll'[p].answer = poll[p].answer
      BY <1>1, <2>4 DEF Poll
    <2>7. PollOK(p) /\ decision[c] # Unset /\ decision[c] # "denied" /\ c \in Stored
      BY <2>1, DeviceAssumption DEF PollAgrees
    <2>8. poll[p].answer = "none"
      BY <1>1 DEF PollAgrees, PollOK
    <2>9. PollOK(p)'
      BY <1>1, <1>2, <2>1, <2>2, <2>6, <2>7, <2>8 DEF PollOK
    <2> QED
      BY <1>2, <2>4, <2>5, <2>9, PollMoves
  <1>4. CASE /\ ~ (e # Unset /\ e.status = "approved")
             /\ poll' = [poll EXCEPT ![p].at = "idle", ![p].calm = TRUE,
                                     ![p].answer = "authorization_pending"]
    <2>1. [poll[p] EXCEPT !.at = "idle", !.calm = TRUE, !.answer = "authorization_pending"] \in Poll
      BY <1>1 DEF Poll
    <2>2. /\ poll'[p] = [poll[p] EXCEPT !.at = "idle", !.calm = TRUE, !.answer = "authorization_pending"]
          /\ poll' \in [Polls -> Poll \cup {Unset}]
          /\ \A q \in Polls : q # p => poll'[q] = poll[q]
      BY <1>4, <2>1 DEF DeviceTypeOK
    <2>3. DeviceTypeOK'
      BY <1>2, <2>2 DEF DeviceTypeOK
    <2>4. /\ poll'[p].code = c /\ poll'[p].tenant = poll[p].tenant /\ poll'[p].late = poll[p].late
          /\ poll'[p].at = "idle" /\ poll'[p].answer = "authorization_pending"
          /\ poll'[p].user = poll[p].user
      BY <1>1, <2>2 DEF Poll
    <2>5. poll[p].user \in Users /\ PollOK(p)
      BY <1>1 DEF PollAgrees, PollOK
    <2>6. decision[c] = Unset \/ c \notin Stored \/ decision[c] = "denied"
      <3> SUFFICES ASSUME c \in Stored PROVE decision[c] \in {Unset, "denied"}
        OBVIOUS
      <3>1. e \in Entry /\ e.status \in {"pending", "denied"}
        BY <1>4 DEF Stored, DeviceTypeOK, Entry
      <3> QED
        BY <3>1 DEF EntryAgrees
    <2>7. ~ poll'[p].late
      <3>1. ~ poll[p].late
        BY <1>1, <2>5 DEF PollOK
      <3> QED BY <2>4, <3>1, Zenon
    <2>8. PollOK(p)'
      BY <1>1, <1>2, <2>4, <2>5, <2>6, <2>7 DEF PollOK
    <2> QED
      BY <1>2, <2>2, <2>3, <2>8, PollMoves
  <1> QED
    BY <1>3, <1>4 DEF PollRecheck

\* Signing changes nothing but the poll's place.
LEMMA IssueInv ==
  ASSUME IInv, NEW p \in Polls, PollIssue(p)
  PROVE  IInv'
  <1> USE DEF IInv
  <1>1. poll[p] # Unset /\ poll[p] \in Poll /\ poll[p].at = "issue" /\ PollOK(p)
    BY PollForm DEF PollIssue, At, PollAgrees
  <1>2. Stored' = Stored /\ UNCHANGED <<store, index, create, drawn, decision, redeemed>>
    BY DEF PollIssue, Stored
  <1>3. /\ poll'[p] \in {[poll[p] EXCEPT !.at = "delete"], [poll[p] EXCEPT !.at = "idle", !.answer = "error"]}
        /\ poll' \in [Polls -> Poll \cup {Unset}]
        /\ \A q \in Polls : q # p => poll'[q] = poll[q]
    BY <1>1, ContinueForm, ReplyForm DEF PollIssue
  <1>4. DeviceTypeOK'
    BY <1>2, <1>3 DEF DeviceTypeOK
  <1>5. /\ poll'[p].code = poll[p].code /\ poll'[p].tenant = poll[p].tenant
        /\ poll'[p].late = poll[p].late /\ poll'[p].calm = poll[p].calm
        /\ poll'[p].user = poll[p].user
        /\ \/ poll'[p].at = "delete" /\ poll'[p].answer = poll[p].answer
           \/ poll'[p].at = "idle" /\ poll'[p].answer = "error"
    BY <1>1, <1>3 DEF Poll
  <1>6. (poll'[p].calm => poll[p].calm) /\ ~ poll'[p].late
    <2>1. ~ poll[p].late
      BY <1>1 DEF PollOK
    <2>2. ~ poll'[p].late
      BY <1>5, <2>1, Zenon
    <2>3. poll'[p].calm => poll[p].calm
      BY <1>5, Zenon
    <2> QED BY <2>2, <2>3
  <1>7. PollOK(p)'
    BY <1>1, <1>2, <1>5, <1>6 DEF PollOK
  <1> QED
    BY <1>2, <1>3, <1>4, <1>7, PollMoves

\* A poll that removes its code, expired or redeemed, knows what it knew.
LEMMA PollRemoves ==
  ASSUME IInv, NEW p \in Polls, poll[p] # Unset,
         NEW what \in {"error", "token"}, poll' = Reply(p, what),
         what = "token" => poll[p].at = "delete",
         RemoveCodes({poll[p].code}), UNCHANGED <<create, drawn, decision>>,
         redeemed' = redeemed \/ redeemed' = redeemed \cup {poll[p].code}
  PROVE  IInv'
  <1> USE DEF IInv
  <1> DEFINE c == poll[p].code
  <1>1. poll[p] \in Poll /\ c \in DeviceCodes /\ PollOK(p) /\ c \in drawn
    BY PollForm DEF PollAgrees, PollOK
  <1>2. /\ poll'[p] = [poll[p] EXCEPT !.at = "idle", !.answer = what]
        /\ poll' \in [Polls -> Poll \cup {Unset}]
        /\ \A q \in Polls : q # p => poll'[q] = poll[q]
    BY ReplyForm
  <1>3. /\ poll'[p].code = c /\ poll'[p].tenant = poll[p].tenant /\ poll'[p].late = poll[p].late
        /\ poll'[p].calm = poll[p].calm /\ poll'[p].user = poll[p].user
        /\ poll'[p].at = "idle" /\ poll'[p].answer = what
    BY <1>1, <1>2 DEF Poll
  <1>4. Stored' = Stored \ {c} /\ index' = index \ {c} /\ store' \in [DeviceCodes -> Entry \cup {Unset}]
    BY <1>1, RemoveForm
  <1>5. DeviceTypeOK'
    BY <1>1, <1>2, <1>4 DEF DeviceTypeOK
  <1>6. /\ IndexAgrees' /\ OnceDrawn' /\ Undecided' /\ EntryAgrees' /\ LimitInv'
        /\ \A q \in Polls : poll'[q] = poll[q] => PollOK(q)'
    BY <1>1, <1>5, Removed
  <1>7. (poll'[p].calm => poll[p].calm) /\ ~ poll'[p].late
    <2>1. ~ poll[p].late
      BY <1>1 DEF PollOK
    <2>2. ~ poll'[p].late
      BY <1>3, <2>1, Zenon
    <2>3. poll'[p].calm => poll[p].calm
      BY <1>3, Zenon
    <2> QED BY <2>2, <2>3
  <1>8. PollOK(p)'
    BY <1>1, <1>3, <1>4, <1>7 DEF PollOK
  <1> QED
    BY <1>2, <1>5, <1>6, <1>8 DEF PollAgrees

\* The steps of PollDeviceToken keep the invariant.
LEMMA PollInv ==
  ASSUME IInv,
         \/ \E p \in Polls, c \in DeviceCodes, k \in DeviceClients : PollRead(p, c, k)
         \/ \E p \in Polls : PollExpired(p) \/ PollRecheck(p) \/ PollIssue(p) \/ PollDelete(p)
  PROVE  IInv'
  <1>1. ASSUME NEW p \in Polls, PollExpired(p) PROVE IInv'
    BY <1>1, PollRemoves DEF PollExpired, At
  <1>2. ASSUME NEW p \in Polls, PollDelete(p) PROVE IInv'
    BY <1>2, PollRemoves DEF PollDelete, At
  <1> QED
    BY <1>1, <1>2, ReadInv, RecheckInv, IssueInv

-----------------------------------------------------------------------------
(* Decisions, the clock and the reaper. *)

\* A decision is written into the entry, and polls under way are no longer calm.
LEMMA DecideInv ==
  ASSUME IInv, NEW c \in Stored, NEW d \in Users \cup {"denied"}, NEW e \in Entry,
         Decide(c, d), store' = [store EXCEPT ![c] = e],
         e.client = store[c].client, e.tenant = store[c].tenant,
         \/ d \in Users /\ e.status = "approved" /\ e.user = d /\ TenantOf[d] = e.tenant
         \/ d = "denied" /\ e.status = "denied" /\ e.user = store[c].user,
         UNCHANGED <<index, create, drawn, redeemed>>
  PROVE  IInv'
  <1> USE DEF IInv
  <1>1. /\ store' \in [DeviceCodes -> Entry \cup {Unset}] /\ c \in DeviceCodes
        /\ Stored' = Stored /\ store'[c] = e
        /\ \A b \in Stored : b # c => store'[b] = store[b]
    BY EditForm DEF Stored
  <1>2. /\ decision'[c] = d /\ \A b \in DeviceCodes : b # c => decision'[b] = decision[b]
        /\ decision' \in [DeviceCodes -> Users \cup {"denied", Unset}]
    BY <1>1 DEF Decide, DeviceTypeOK
  <1>3. ASSUME NEW p \in Polls, poll[p] # Unset, poll[p].code = c
        PROVE  /\ poll'[p] \in Poll /\ poll'[p].code = c /\ poll'[p].tenant = poll[p].tenant
               /\ poll'[p].late = poll[p].late /\ poll'[p].calm = FALSE
               /\ poll'[p].user = poll[p].user
               /\ poll'[p].at = poll[p].at /\ poll'[p].answer = poll[p].answer
    <2>1. poll[p] \in Poll /\ poll'[p] = [poll[p] EXCEPT !.calm = FALSE]
      BY <1>3 DEF Decide, DeviceTypeOK
    <2> QED BY <1>3, <2>1 DEF Poll
  <1>4. \A p \in Polls : ~ (poll[p] # Unset /\ poll[p].code = c) => poll'[p] = poll[p]
    BY DEF Decide
  <1>5. poll' \in [Polls -> Poll \cup {Unset}]
    <2>1. \A p \in Polls : poll'[p] \in Poll \cup {Unset}
      BY <1>3, <1>4 DEF DeviceTypeOK
    <2> QED BY <2>1 DEF Decide
  <1>6. DeviceTypeOK'
    BY <1>1, <1>2, <1>5 DEF DeviceTypeOK
  <1>7. IndexAgrees' /\ OnceDrawn' /\ Undecided'
    BY <1>1, <1>2 DEF IndexAgrees, OnceDrawn, Undecided
  <1>8. EntryAgrees'
    <2> SUFFICES ASSUME NEW b \in Stored
                 PROVE  /\ store'[b].status = "pending" => decision'[b] = Unset
                        /\ store'[b].status = "approved" =>
                             decision'[b] = store'[b].user /\ store'[b].user \in Users
                        /\ store'[b].status = "denied" => decision'[b] = "denied"
                        /\ store'[b].user \in Users => TenantOf[store'[b].user] = store'[b].tenant
      BY <1>1 DEF EntryAgrees
    <2>1. CASE b = c
      BY <2>1, <1>1, <1>2 DEF EntryAgrees
    <2>2. CASE b # c
      BY <2>2, <1>1, <1>2 DEF EntryAgrees, Stored
    <2> QED BY <2>1, <2>2
  <1>9. LimitInv'
    BY <1>1, <1>6, LimitKept
  <1>10. PollAgrees'
    <2> SUFFICES ASSUME NEW p \in Polls PROVE PollOK(p)'
      BY DEF PollAgrees
    <2>1. CASE poll[p] # Unset /\ poll[p].code = c
      <3>1. PollOK(p)
        BY DEF PollAgrees
      <3>2. ~ poll'[p].calm /\ ~ poll'[p].late
        BY <2>1, <3>1, <1>3 DEF PollOK
      <3> QED
        BY <2>1, <3>1, <3>2, <1>1, <1>3 DEF PollOK
    <2>2. CASE poll[p] = Unset
      BY <2>2, <1>4 DEF PollOK
    <2>3. CASE poll[p] # Unset /\ poll[p].code # c
      <3>1. poll'[p] = poll[p] /\ poll[p].code \in DeviceCodes
        BY <2>3, <1>4, PollForm
      <3> QED
        BY <2>3, <3>1, <1>1, <1>2 DEF PollAgrees, PollOK
    <2> QED BY <2>1, <2>2, <2>3
  <1> QED
    BY <1>6, <1>7, <1>8, <1>9, <1>10

\* The clock marks an entry, which no poll under way looks at again.
LEMMA ExpireInv ==
  ASSUME IInv, NEW c \in DeviceCodes, ExpireCode(c)
  PROVE  IInv'
  <1> USE DEF IInv
  <1> DEFINE e == [store[c] EXCEPT !.expired = TRUE]
  <1>1. c \in Stored /\ store[c] \in Entry
    BY DEF ExpireCode, Stored, DeviceTypeOK
  <1>2. /\ e \in Entry /\ e.client = store[c].client /\ e.tenant = store[c].tenant
        /\ e.status = store[c].status /\ e.user = store[c].user
    BY <1>1 DEF Entry
  <1>3. store' = [store EXCEPT ![c] = e] /\ UNCHANGED <<index, create, poll, drawn, decision, redeemed>>
    BY <1>1 DEF ExpireCode, DeviceTypeOK
  <1>4. /\ store' \in [DeviceCodes -> Entry \cup {Unset}]
        /\ Stored' = Stored /\ store'[c] = e
        /\ \A d \in Stored : d # c => store'[d] = store[d]
    BY <1>1, <1>2, <1>3, EditForm
  <1>5. \A d \in Stored : /\ store'[d].client = store[d].client /\ store'[d].tenant = store[d].tenant
                          /\ store'[d].status = store[d].status /\ store'[d].user = store[d].user
    BY <1>2, <1>4
  <1>6. DeviceTypeOK'
    BY <1>3, <1>4 DEF DeviceTypeOK
  <1>7. IndexAgrees' /\ OnceDrawn' /\ Undecided'
    BY <1>3, <1>4 DEF IndexAgrees, OnceDrawn, Undecided
  <1>8. EntryAgrees'
    BY <1>3, <1>4, <1>5 DEF EntryAgrees
  <1>9. LimitInv'
    BY <1>3, <1>4, <1>5, <1>6, LimitKept
  <1>10. PollAgrees'
    BY <1>3, <1>4, <1>5, PollKept DEF PollAgrees
  <1> QED
    BY <1>6, <1>7, <1>8, <1>9, <1>10

\* Approving keeps the invariant.
LEMMA ApproveInv ==
  ASSUME IInv, NEW c \in DeviceCodes, NEW u \in Users, Approve(c, u)
  PROVE  IInv'
  <1> DEFINE e == [store[c] EXCEPT !.status = "approved", !.user = u]
  <1>1. c \in Stored /\ store[c] \in Entry
    BY DEF Approve, Found, Stored, IInv, DeviceTypeOK
  <1>2. /\ e \in Entry /\ e.client = store[c].client /\ e.tenant = store[c].tenant
        /\ e.status = "approved" /\ e.user = u
    BY <1>1 DEF Entry
  <1>3. store' = [store EXCEPT ![c] = e]
    BY <1>1 DEF Approve, IInv, DeviceTypeOK
  <1>4. /\ Decide(c, u) /\ store[c].tenant = TenantOf[u]
        /\ UNCHANGED <<index, create, drawn, redeemed>>
    BY DEF Approve
  <1> QED
    BY <1>1, <1>2, <1>3, <1>4, DecideInv

\* So does denying.
LEMMA DenyInv ==
  ASSUME IInv, NEW c \in DeviceCodes, Deny(c)
  PROVE  IInv'
  <1> DEFINE e == [store[c] EXCEPT !.status = "denied"]
  <1>1. c \in Stored /\ store[c] \in Entry
    BY DEF Deny, Found, Stored, IInv, DeviceTypeOK
  <1>2. /\ e \in Entry /\ e.client = store[c].client /\ e.tenant = store[c].tenant
        /\ e.status = "denied" /\ e.user = store[c].user
    BY <1>1 DEF Entry
  <1>3. store' = [store EXCEPT ![c] = e]
    BY <1>1 DEF Deny, IInv, DeviceTypeOK
  <1>4. Decide(c, "denied") /\ UNCHANGED <<index, create, drawn, redeemed>>
    BY DEF Deny
  <1> QED
    BY <1>1, <1>2, <1>3, <1>4, DecideInv

\* A removal that is no poll's step keeps the invariant.
LEMMA CleanInv ==
  ASSUME IInv, NEW C \in SUBSET DeviceCodes, RemoveCodes(C),
         UNCHANGED <<create, poll, drawn, decision, redeemed>>
  PROVE  IInv'
  <1>1. DeviceTypeOK'
    BY RemoveForm DEF IInv, DeviceTypeOK, RemoveCodes
  <1>2. /\ IndexAgrees' /\ OnceDrawn' /\ Undecided' /\ EntryAgrees' /\ LimitInv'
        /\ \A p \in Polls : poll'[p] = poll[p] => PollOK(p)'
    BY <1>1, Removed
  <1> QED
    BY <1>1, <1>2 DEF IInv, PollAgrees

-----------------------------------------------------------------------------
(* CreateDeviceAuthorization. *)

\* Who counts fewer codes than the limit joins those that may still store one.
LEMMA CountInv ==
  ASSUME IInv, NEW r \in Creates, NEW k \in DeviceClients, CountActive(r, k)
  PROVE  IInv'
  <1> USE DEF IInv
  <1>1. /\ create[r] = Unset /\ create' = [create EXCEPT ![r] = k]
        /\ Cardinality(Active(k)) < MaxActive
        /\ UNCHANGED <<store, index, poll, drawn, decision, redeemed>>
    BY DEF CountActive
  <1>2. Stored' = Stored /\ \A l \in DeviceClients : Active(l)' = Active(l)
    BY <1>1 DEF Stored, Active
  <1>3. DeviceTypeOK'
    BY <1>1 DEF DeviceTypeOK
  <1>4. IndexAgrees' /\ OnceDrawn' /\ Undecided' /\ EntryAgrees'
    BY <1>1, <1>2 DEF IndexAgrees, OnceDrawn, Undecided, EntryAgrees
  <1>5. PollAgrees'
    BY <1>1, <1>2, PollKept DEF PollAgrees
  <1>6. LimitInv'
    <2>1. IsFiniteSet(Creates) /\ Cardinality(Creates) \in Nat
      BY DeviceAssumption, FS_CardinalityType
    <2>2. ASSUME NEW l \in DeviceClients
          PROVE  Cardinality(Active(l)) + Cardinality(Counted(l)') =< MaxActive - 1 + Cardinality(Creates)
      <3>1. Cardinality(Active(l)) \in Nat
        BY FS_Subset, FS_CardinalityType DEF LimitInv, Active
      <3>2. CASE l = k
        <4>1. Counted(l)' \subseteq Creates
          BY DEF Counted
        <4>2. Cardinality(Counted(l)') \in Nat /\ Cardinality(Counted(l)') =< Cardinality(Creates)
          BY <2>1, <4>1, FS_Subset, FS_CardinalityType
        <4> QED
          BY <3>1, <3>2, <4>2, <1>1, <2>1, DeviceAssumption
      <3>3. CASE l # k
        <4>1. Counted(l)' = Counted(l)
          BY <1>1, <3>3, DeviceAssumption DEF Counted, DeviceTypeOK
        <4> QED BY <4>1 DEF LimitInv
      <3> QED BY <3>2, <3>3
    <2> QED
      BY <1>2, <2>2 DEF LimitInv
  <1> QED
    BY <1>3, <1>4, <1>5, <1>6

\* A code that is stored takes the place of the create that counted.
LEMMA StoreInv ==
  ASSUME IInv, NEW r \in Creates, NEW c \in DeviceCodes, NEW t \in Tenants, StoreCode(r, c, t)
  PROVE  IInv'
  <1> USE DEF IInv
  <1> DEFINE k == create[r]
             e == [client |-> k, tenant |-> t, status |-> "pending", user |-> Unset, expired |-> FALSE]
  <1>1. /\ k \in DeviceClients /\ c \notin drawn /\ c \notin Stored
        /\ store' = [store EXCEPT ![c] = e] /\ index' = index \cup {c} /\ drawn' = drawn \cup {c}
        /\ create' = [create EXCEPT ![r] = Unset]
        /\ UNCHANGED <<poll, decision, redeemed>>
    BY DEF StoreCode, DeviceTypeOK, OnceDrawn
  <1>2. e \in Entry /\ e # Unset
    <2>1. e \in Entry
      BY <1>1 DEF Entry
    <2> QED BY <2>1, EntryNotUnset
  <1>3. /\ store' \in [DeviceCodes -> Entry \cup {Unset}] /\ Stored' = Stored \cup {c}
        /\ store'[c] = e /\ \A d \in Stored : store'[d] = store[d]
    BY <1>1, <1>2 DEF Stored, DeviceTypeOK
  <1>4. DeviceTypeOK'
    BY <1>1, <1>3 DEF DeviceTypeOK
  <1>5. IndexAgrees' /\ OnceDrawn' /\ Undecided'
    BY <1>1, <1>3 DEF IndexAgrees, OnceDrawn, Undecided
  <1>6. EntryAgrees'
    BY <1>1, <1>3, DeviceAssumption DEF EntryAgrees, Undecided
  <1>7. PollAgrees'
    BY <1>1, <1>3, PollKept DEF PollAgrees, OnceDrawn
  <1>8. LimitInv'
    <2>1. IsFiniteSet(Stored) /\ IsFiniteSet(Stored')
      BY <1>3, FS_AddElement DEF LimitInv
    <2>2. ASSUME NEW l \in DeviceClients
          PROVE  Cardinality(Active(l)') + Cardinality(Counted(l)') =< MaxActive - 1 + Cardinality(Creates)
      <3>1. IsFiniteSet(Active(l)) /\ IsFiniteSet(Counted(l))
        BY <2>1, FS_Subset, DeviceAssumption DEF Active, Counted
      <3>2. CASE l = k
        <4>1. Active(l)' = Active(l) \cup {c} /\ c \notin Active(l)
          BY <1>1, <1>3, <3>2 DEF Active
        <4>2. Counted(l)' = Counted(l) \ {r} /\ r \in Counted(l)
          BY <1>1, <3>2, DeviceAssumption DEF Counted, DeviceTypeOK
        <4>3. Cardinality(Active(l)') = Cardinality(Active(l)) + 1
          BY <3>1, <4>1, FS_AddElement
        <4>4. Cardinality(Counted(l)') = Cardinality(Counted(l)) - 1
          BY <3>1, <4>2, FS_RemoveElement
        <4>5. Cardinality(Active(l)) \in Nat /\ Cardinality(Counted(l)) \in Nat
          BY <3>1, FS_CardinalityType
        <4>6. Cardinality(Active(l)) + Cardinality(Counted(l)) =< MaxActive - 1 + Cardinality(Creates)
          BY DEF LimitInv
        <4> QED BY <4>3, <4>4, <4>5, <4>6
      <3>3. CASE l # k
        <4>1. Active(l)' = Active(l)
          BY <1>1, <1>3, <3>3 DEF Active
        <4>2. Counted(l)' = Counted(l)
          BY <1>1, <3>3, DeviceAssumption DEF Counted, DeviceTypeOK
        <4> QED BY <4>1, <4>2 DEF LimitInv
      <3> QED BY <3>2, <3>3
    <2> QED
      BY <2>1, <2>2 DEF LimitInv
  <1> QED
    BY <1>4, <1>5, <1>6, <1>7, <1>8

-----------------------------------------------------------------------------
\* The invariant survives every step.
LEMMA InvNext == IInv /\ [DeviceNext]_deviceVars => IInv'
  <1> SUFFICES ASSUME IInv, [DeviceNext]_deviceVars PROVE IInv'
    OBVIOUS
  <1>1. CASE UNCHANGED deviceVars
    BY <1>1 DEF deviceVars, IInv, DeviceTypeOK, IndexAgrees, OnceDrawn, Undecided, EntryAgrees,
                PollAgrees, PollOK, LimitInv, Counted, Active, Stored
  <1>2. ASSUME NEW c \in DeviceCodes, DecideTooLate(c) PROVE IInv'
    BY <1>2, CleanInv DEF DecideTooLate
  <1>3. CASE Reap
    BY <1>3, CleanInv DEF Reap, Stored
  <1> QED
    BY <1>1, <1>2, <1>3, CountInv, StoreInv, DenyInv, ExpireInv, ApproveInv, PollInv DEF DeviceNext

\* The invariant holds with no code stored and after every step.
THEOREM Invariance == DeviceSpec => []IInv
  <1>1. DeviceInit => IInv
    <2> SUFFICES ASSUME DeviceInit PROVE IInv
      OBVIOUS
    <2>1. DeviceTypeOK
      BY DEF DeviceInit, DeviceTypeOK
    <2>2. Stored = {}
      BY DEF DeviceInit, Stored
    <2>3. IndexAgrees /\ OnceDrawn /\ Undecided /\ EntryAgrees
      BY <2>2 DEF DeviceInit, IndexAgrees, OnceDrawn, Undecided, EntryAgrees
    <2>4. PollAgrees
      BY DEF DeviceInit, PollAgrees, PollOK
    <2>5. LimitInv
      <3>1. \A k \in DeviceClients : Active(k) = {} /\ Counted(k) = {}
        BY <2>2, DeviceAssumption DEF DeviceInit, Active, Counted
      <3>2. IsFiniteSet({}) /\ Cardinality({}) = 0 /\ Cardinality(Creates) \in Nat
        BY FS_EmptySet, FS_CardinalityType, DeviceAssumption
      <3> QED
        <4>1. \A k \in DeviceClients : Cardinality(Active(k)) = 0 /\ Cardinality(Counted(k)) = 0
          BY <3>1, <3>2
        <4>2. 0 =< MaxActive - 1 + Cardinality(Creates)
          BY <3>2, DeviceAssumption
        <4> QED BY <2>2, <3>2, <4>1, <4>2 DEF LimitInv
    <2> QED BY <2>1, <2>3, <2>4, <2>5 DEF IInv
  <1> QED
    BY <1>1, InvNext, PTL DEF DeviceSpec

\* Every state is of the declared types.
THEOREM TypeCorrect == DeviceSpec => []DeviceTypeOK
  BY Invariance, PTL DEF IInv

\* The two maps hold the same codes.
THEOREM SameCodes == DeviceSpec => []IndexAgrees
  BY Invariance, PTL DEF IInv

\* The limit is overrun by at most one code per other create being served.
THEOREM Limit == DeviceSpec => []LimitBounded
  <1>1. IInv => LimitBounded
    <2> SUFFICES ASSUME IInv, NEW k \in DeviceClients
                 PROVE  Cardinality(Active(k)) <= MaxActive - 1 + Cardinality(Creates)
      BY DEF LimitBounded
    <2>1. IsFiniteSet(Active(k)) /\ IsFiniteSet(Counted(k))
      BY FS_Subset, DeviceAssumption DEF IInv, LimitInv, Active, Counted
    <2>2. /\ Cardinality(Active(k)) \in Nat /\ Cardinality(Counted(k)) \in Nat
          /\ Cardinality(Creates) \in Nat
      BY <2>1, FS_CardinalityType, DeviceAssumption
    <2> QED
      BY <2>2, DeviceAssumption DEF IInv, LimitInv
  <1> QED
    BY <1>1, Invariance, PTL

\* A poll that begins after a token was handed out for its code gets none.
THEOREM SingleUse == DeviceSpec => []NoLateToken
  <1>1. IInv => NoLateToken
    BY DEF IInv, PollAgrees, PollOK, NoLateToken
  <1> QED
    BY <1>1, Invariance, PTL

\* A poll answers as the last decision before its last look at the code says, but
\* for a denial between its two looks: that is no token, and reported as pending.
THEOREM Obedience == DeviceSpec => []DecisionObeyed
  <1>1. IInv => DecisionObeyed
    BY DeviceAssumption DEF IInv, PollAgrees, PollOK, DecisionObeyed
  <1> QED
    BY <1>1, Invariance, PTL

\* Device tokens name users of the code's tenant.
THEOREM TenantKept == DeviceSpec => []SubjectInTenant
  <1>1. IInv => SubjectInTenant
    BY DEF IInv, PollAgrees, PollOK, SubjectInTenant
  <1> QED
    BY <1>1, Invariance, PTL
=============================================================================
