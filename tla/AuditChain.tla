------------------------------ MODULE AuditChain ------------------------------
(***************************************************************************)
(* The audit log: JetStream delivery, the consumer that persists events    *)
(* into audit_events as a hash chain per tenant, direct inserts by HTTP    *)
(* handlers, retention, and the tamper check that reads the chain.         *)
(*                                                                         *)
(* An event is its position in the order (created_at, id): both are fixed  *)
(* by the publisher before the event is sent, so events may well arrive    *)
(* out of this order.  The hash of an event is an HMAC over the previous   *)
(* hash and the event; it is modelled by what makes it useful, that no two *)
(* inputs share one: the hash of e over h is the sequence h with e         *)
(* appended, and the empty hash is the empty sequence.                     *)
(*                                                                         *)
(* PostgreSQL runs at READ COMMITTED.  SELECT ... LIMIT 1 FOR UPDATE picks *)
(* its row in the snapshot of the statement, waits for whoever has locked  *)
(* the row, and then returns that row, unless it was deleted meanwhile:    *)
(* then the next row of the same snapshot.  Rows inserted while it waited  *)
(* are not seen.                                                           *)
(***************************************************************************)
EXTENDS Integers, Sequences, FiniteSetsExt, SequencesExt

CONSTANTS
  Workers,     \* consumer replicas and HTTP handlers that insert events
  Events,      \* positions in the order (created_at, id)
  Tenants,
  TenantOf,    \* the tenant of each event
  Malformed,   \* messages that do not decode
  MaxDeliver,  \* deliveries JetStream makes of a message
  None

ASSUME AuditAssumption ==
  /\ Events \subseteq Nat
  /\ \A S \in SUBSET Events : S # {} => \E m \in S : \A e \in S : m >= e
  /\ TenantOf \in [Events -> Tenants]
  /\ Malformed \subseteq Events
  /\ MaxDeliver \in Nat \ {0}
  /\ None \notin Events /\ None \notin Workers

VARIABLES
  msg,      \* where each event is: not sent, in the stream, acknowledged, direct
  deliv,    \* deliveries of its message so far
  stored,   \* rows of audit_events
  prev,     \* their column prev_hash
  pc,       \* next call of each worker
  cur,      \* the event it is inserting
  snap,     \* rows its SELECT saw
  tail,     \* the row it has locked
  cleaner,  \* the cleanup in progress: its cutoff, its tenants, the row it keeps
  log,      \* history: the events in the order of their commits
  odd       \* history: events inserted out of order or beside another insert

chainVars  == <<stored, prev, log>>
workerVars == <<pc, cur, snap, tail>>
vars == <<msg, deliv, stored, prev, pc, cur, snap, tail, cleaner, log, odd>>

Steps == {"idle", "select", "lock", "insert", "reply"}

TypeOK ==
  /\ msg \in [Events -> {"new", "stream", "acked", "direct"}]
  /\ deliv \in [Events -> 0..MaxDeliver]
  /\ stored \subseteq Events
  /\ prev \in [Events -> Seq(Events)]
  /\ pc \in [Workers -> Steps]
  /\ cur \in [Workers -> Events \cup {None}]
  /\ \A w \in Workers : pc[w] # "idle" => cur[w] \in Events
  /\ snap \in [Workers -> SUBSET Events]
  /\ tail \in [Workers -> Events \cup {None}]
  /\ cleaner \in [cut: Events, scope: SUBSET Tenants, keep: Events] \cup {None}
  /\ log \in Seq(Events)
  /\ odd \subseteq Events

-----------------------------------------------------------------------------
\* ComputeHash over the columns of a stored row.
HashOf(e) == Append(prev[e], e)

RowsOf(T) == {e \in stored : TenantOf[e] \in T}

\* Without FOR UPDATE (a faulty variant, see below).
Locked_Never(e, w) == FALSE

\* Somebody else's transaction holds the row.
Locked(e, w) == \E v \in Workers \ {w} : pc[v] = "insert" /\ tail[v] = e

\* Inserts of the same tenant that have read, or are about to lock, a tail.
Rivals(w) == {v \in Workers \ {w} : /\ pc[v] \in {"lock", "insert"}
                                    /\ TenantOf[cur[v]] = TenantOf[cur[w]]}

Rest(w) ==
  /\ pc' = [pc EXCEPT ![w] = "idle"]
  /\ cur' = [cur EXCEPT ![w] = None]
  /\ snap' = [snap EXCEPT ![w] = {}]
  /\ tail' = [tail EXCEPT ![w] = None]

(***************************************************************************)
(* Faulty variants of the definitions below, one plausible mistake each:   *)
(* every property is violated by one of them.                              *)
(***************************************************************************)

\* Deliveries are not counted.
Deliver_Unbounded(w, e) ==
  /\ pc[w] = "idle"
  /\ msg[e] = "stream"
  /\ deliv' = [deliv EXCEPT ![e] = @ + 1]
  /\ cur' = [cur EXCEPT ![w] = e]
  /\ pc' = [pc EXCEPT ![w] = "select"]
  /\ UNCHANGED <<msg, chainVars, snap, tail, cleaner, odd>>

\* A message that failed once is terminated.
Deliver_Once(w, e) ==
  /\ pc[w] = "idle"
  /\ msg[e] = "stream" /\ deliv[e] = 0
  /\ deliv' = [deliv EXCEPT ![e] = @ + 1]
  /\ cur' = [cur EXCEPT ![w] = e]
  /\ pc' = [pc EXCEPT ![w] = IF e \in Malformed THEN "reply" ELSE "select"]
  /\ UNCHANGED <<msg, chainVars, snap, tail, cleaner, odd>>

\* The table has no primary key.
Commit_NoPrimaryKey(w) ==
  /\ pc[w] = "insert"
  /\ stored' = stored \cup {cur[w]}
  /\ prev' = [prev EXCEPT ![cur[w]] = IF tail[w] = None THEN <<>> ELSE HashOf(tail[w])]
  /\ log' = Append(log, cur[w])
  /\ pc' = [pc EXCEPT ![w] = "reply"]
  /\ tail' = [tail EXCEPT ![w] = None]
  /\ UNCHANGED <<msg, deliv, cleaner, cur, snap, odd>>

\* Errors are acknowledged.
Abandon_Acks(w) ==
  /\ pc[w] # "idle"
  /\ msg' = [msg EXCEPT ![cur[w]] = "acked"]
  /\ Rest(w)
  /\ UNCHANGED <<deliv, chainVars, cleaner, odd>>

\* The oldest event is kept.
GetBoundaryEventID_Oldest(cut, T) ==
  LET old == {e \in RowsOf(T) : e <= cut} IN
    /\ cleaner = None
    /\ old # {}
    /\ \A w \in Workers : pc[w] = "idle"
    /\ cleaner' = [cut |-> cut, scope |-> T, keep |-> Min(old)]
    /\ UNCHANGED <<msg, deliv, chainVars, workerVars, odd>>

-----------------------------------------------------------------------------
Init ==
  /\ msg = [e \in Events |-> "new"]
  /\ deliv = [e \in Events |-> 0]
  /\ stored = {}
  /\ prev = [e \in Events |-> <<>>]
  /\ pc = [w \in Workers |-> "idle"]
  /\ cur = [w \in Workers |-> None]
  /\ snap = [w \in Workers |-> {}]
  /\ tail = [w \in Workers |-> None]
  /\ cleaner = None
  /\ log = <<>>
  /\ odd = {}

(***************************************************************************)
(* Delivery.  A message stays in the stream until it is acknowledged and   *)
(* is delivered again after a Nak, a crash, or when the AckWait runs out,  *)
(* which may be while the first delivery is still being processed.         *)
(***************************************************************************)
Publish(e) ==
  /\ msg[e] = "new"
  /\ msg' = [msg EXCEPT ![e] = "stream"]
  /\ UNCHANGED <<deliv, chainVars, workerVars, cleaner, odd>>

\* A batch is processed one message at a time; one that does not decode is
\* acknowledged and dropped.
Deliver(w, e) ==
  /\ pc[w] = "idle"
  /\ msg[e] = "stream" /\ deliv[e] < MaxDeliver
  /\ deliv' = [deliv EXCEPT ![e] = @ + 1]
  /\ cur' = [cur EXCEPT ![w] = e]
  /\ pc' = [pc EXCEPT ![w] = IF e \in Malformed THEN "reply" ELSE "select"]
  /\ UNCHANGED <<msg, chainVars, snap, tail, cleaner, odd>>

\* AuditService.InsertEvent: no message behind it, and no second attempt.
InsertEvent(w, e) ==
  /\ pc[w] = "idle"
  /\ msg[e] = "new" /\ e \notin Malformed
  /\ msg' = [msg EXCEPT ![e] = "direct"]
  /\ cur' = [cur EXCEPT ![w] = e]
  /\ pc' = [pc EXCEPT ![w] = "select"]
  /\ UNCHANGED <<deliv, chainVars, snap, tail, cleaner, odd>>

(***************************************************************************)
(* AuditRepository.Insert.                                                 *)
(***************************************************************************)
SelectTail(w) ==
  /\ pc[w] = "select"
  /\ snap' = [snap EXCEPT ![w] = RowsOf({TenantOf[cur[w]]})]
  /\ pc' = [pc EXCEPT ![w] = "lock"]
  /\ odd' = IF Rivals(w) = {} THEN odd
            ELSE odd \cup {cur[w]} \cup {cur[v] : v \in Rivals(w)}
  /\ UNCHANGED <<msg, deliv, chainVars, cur, tail, cleaner>>

\* ORDER BY created_at DESC, id DESC LIMIT 1 over the rows still there.
LockTail(w) ==
  /\ pc[w] = "lock"
  /\ LET rows == snap[w] \cap stored IN
       IF rows = {} THEN UNCHANGED tail
       ELSE /\ ~Locked(Max(rows), w)
            /\ tail' = [tail EXCEPT ![w] = Max(rows)]
  /\ pc' = [pc EXCEPT ![w] = "insert"]
  /\ UNCHANGED <<msg, deliv, chainVars, cur, snap, cleaner, odd>>

\* INSERT and COMMIT; the primary key refuses an event that is there already.
Commit(w) ==
  /\ pc[w] = "insert"
  /\ cur[w] \notin stored
  /\ stored' = stored \cup {cur[w]}
  /\ prev' = [prev EXCEPT ![cur[w]] = IF tail[w] = None THEN <<>> ELSE HashOf(tail[w])]
  /\ log' = Append(log, cur[w])
  /\ odd' = IF \E s \in RowsOf({TenantOf[cur[w]]}) : s > cur[w] THEN odd \cup {cur[w]} ELSE odd
  /\ IF msg[cur[w]] = "direct"
       THEN Rest(w)
       ELSE /\ pc' = [pc EXCEPT ![w] = "reply"]
            /\ tail' = [tail EXCEPT ![w] = None]
            /\ UNCHANGED <<cur, snap>>
  /\ UNCHANGED <<msg, deliv, cleaner>>

\* The duplicate is answered with a Nak.
Duplicate(w) ==
  /\ pc[w] = "insert"
  /\ cur[w] \in stored
  /\ Rest(w)
  /\ UNCHANGED <<msg, deliv, chainVars, cleaner, odd>>

\* After the detection engine has seen the event.
Ack(w) ==
  /\ pc[w] = "reply"
  /\ msg' = [msg EXCEPT ![cur[w]] = "acked"]
  /\ Rest(w)
  /\ UNCHANGED <<deliv, chainVars, cleaner, odd>>

\* A database error (answered with a Nak), a panic, a crash, a lost
\* acknowledgement: the transaction is rolled back, the message stays.
Abandon(w) ==
  /\ pc[w] # "idle"
  /\ Rest(w)
  /\ UNCHANGED <<msg, deliv, chainVars, cleaner, odd>>

(***************************************************************************)
(* CleanupOldEvents, for one tenant or, from the scheduler, for all of     *)
(* them: two statements, the second a DELETE that waits for locked rows.   *)
(* Retention is longer than the 72 hours a message lives, so no event      *)
(* before the cutoff is still on its way.                                  *)
(***************************************************************************)
Older(cut) == {e \in Events : e <= cut}

Settled(e) == /\ msg[e] # "stream" \/ deliv[e] = MaxDeliver
              /\ \A w \in Workers : cur[w] # e

GetBoundaryEventID(cut, T) ==
  /\ cleaner = None
  /\ \A e \in Older(cut) : msg[e] # "new" /\ Settled(e)
  /\ RowsOf(T) \cap Older(cut) # {}
  /\ cleaner' = [cut |-> cut, scope |-> T, keep |-> Max(RowsOf(T) \cap Older(cut))]
  /\ UNCHANGED <<msg, deliv, chainVars, workerVars, odd>>

DeleteOlderThanExcept ==
  /\ cleaner # None
  /\ LET doomed == (RowsOf(cleaner.scope) \cap Older(cleaner.cut)) \ {cleaner.keep} IN
       /\ \A e \in doomed : ~Locked(e, None)
       /\ stored' = stored \ doomed
  /\ cleaner' = None
  /\ UNCHANGED <<msg, deliv, prev, log, workerVars, odd>>

\* The DELETE fails, or the process stops between the two statements.
CleanupFails ==
  /\ cleaner # None
  /\ cleaner' = None
  /\ UNCHANGED <<msg, deliv, chainVars, workerVars, odd>>

-----------------------------------------------------------------------------
Work(w) == SelectTail(w) \/ LockTail(w) \/ Commit(w) \/ Duplicate(w) \/ Ack(w)

Next ==
  \/ \E e \in Events : Publish(e)
  \/ \E w \in Workers : Work(w) \/ Abandon(w)
  \/ \E w \in Workers, e \in Events : Deliver(w, e) \/ InsertEvent(w, e)
  \/ \E cut \in Events, T \in {{t} : t \in Tenants} \cup {Tenants} : GetBoundaryEventID(cut, T)
  \/ DeleteOlderThanExcept \/ CleanupFails

Spec == Init /\ [][Next]_vars

\* The consumer loops for ever, a database call returns, and JetStream offers
\* a message until its deliveries are used up.  Nothing is assumed of
\* publishers, failures or the cleanup.
Fairness ==
  /\ \A w \in Workers : WF_vars(Work(w))
  /\ \A e \in Events : WF_vars(\E w \in Workers : Deliver(w, e))

FairSpec == Spec /\ Fairness

-----------------------------------------------------------------------------
(***************************************************************************)
(* Properties.                                                             *)
(***************************************************************************)

\* The tamper check (verifyEventChain) reads a tenant's rows in order and
\* reports a broken link where a row's prev_hash is neither empty nor the
\* hash of the row before it.
Before(e) == {p \in RowsOf({TenantOf[e]}) : p < e}
BrokenLinks == {e \in stored : /\ Before(e) # {} /\ prev[e] # <<>>
                               /\ prev[e] # HashOf(Max(Before(e)))}

\* An event is persisted at most once, whatever is delivered again: after a
\* lost acknowledgement, and while the first delivery still runs.
PersistedOnce == IsInjective(log)

\* A message leaves the stream only when its event has been committed.
AckedIsPersisted ==
  \A e \in Events \ Malformed : msg[e] = "acked" => e \in Range(log)

\* A new row is chained to a row of its tenant that is still there when the
\* insert commits: a row lock is held from reading the tail to the COMMIT, so
\* the cleanup can not remove the row in between.
LinkedToSurvivor ==
  [][\A e \in stored' \ stored : prev'[e] # <<>> =>
       Last(prev'[e]) \in stored /\ TenantOf[Last(prev'[e])] = TenantOf[e]]_vars

\* On a log nobody tampered with, the tamper check accuses only where inserts
\* of the tenant overlapped or an event came late; retention alone never
\* makes it raise an alarm.
AlarmExplained == \A e \in BrokenLinks : e \in odd \/ Max(Before(e)) \in odd

\* Every event the stream has taken is persisted, or its deliveries are used
\* up: no order of row locks, redeliveries and cleanups blocks the log.
Persisted == \A e \in Events \ Malformed :
  msg[e] = "stream" ~> (e \in Range(log) \/ deliv[e] = MaxDeliver)

\* Appends to a tenant's chain are serialized by FOR UPDATE (audit_repo.go,
\* Insert), so no two rows have the same predecessor.  Does not hold: the
\* insert that waited for the lock still uses the row of its old snapshot.
\* (Two first rows are left aside: there is no row to lock yet.)
NoFork ==
  \A e1, e2 \in stored : prev[e1] = prev[e2] /\ prev[e1] # <<>> => e1 = e2

\* Retention keeps an anchor, so that a chain goes on from where it was
\* (audit_service.go, CleanupOldEvents).  Does not hold: the scheduled
\* cleanup keeps one event for all tenants together.
AnchorKept ==
  [][\A t \in Tenants : RowsOf({t}) # {} => \E e \in stored' : TenantOf[e] = t]_vars

-----------------------------------------------------------------------------
(***************************************************************************)
(* The inductive invariant behind PersistedOnce, AckedIsPersisted and      *)
(* LinkedToSurvivor.                                                       *)
(***************************************************************************)

\* No attempt to insert the event is under way or can still start.
OutOfReach(e) == msg[e] # "new" /\ Settled(e)

\* A row that is gone was persisted, and nobody can insert it again.
GoneForGood ==
  /\ stored \subseteq Range(log)
  /\ \A e \in Range(log) \ stored : OutOfReach(e)
  /\ cleaner # None => \A e \in Older(cleaner.cut) : OutOfReach(e)

\* An acknowledgement is sent only for what is persisted or can not be.
ReplyPersisted ==
  \A w \in Workers : pc[w] = "reply" /\ cur[w] \notin Malformed => cur[w] \in Range(log)

\* A locked tail is a row of the tenant, and is still there.
TailHeld ==
  /\ \A w \in Workers : pc[w] = "lock" =>
       \A e \in snap[w] : TenantOf[e] = TenantOf[cur[w]]
  /\ \A w \in Workers : tail[w] # None =>
       /\ pc[w] = "insert" /\ tail[w] \in stored
       /\ TenantOf[tail[w]] = TenantOf[cur[w]]

IInv == TypeOK /\ GoneForGood /\ ReplyPersisted /\ TailHeld /\ PersistedOnce /\ AckedIsPersisted
=============================================================================
