-------------------------- MODULE AuditChain_proofs --------------------------
(***************************************************************************)
(* Theorems about AuditChain, for all values of its constants.             *)
(***************************************************************************)
EXTENDS AuditChain, TLAPS

\* The newest row of a non-empty set of rows is one of them.
LEMMA MaxIn ==
  ASSUME NEW S \in SUBSET Events, S # {}
  PROVE Max(S) \in S
  BY AuditAssumption DEF Max

\* ... and none of them is newer.
LEMMA MaxAbove ==
  ASSUME NEW S \in SUBSET Events, NEW e \in S
  PROVE Max(S) >= e /\ Max(S) \in S
  <1>1. \E m \in S : \A x \in S : m >= x
    BY AuditAssumption
  <1> QED
    BY <1>1 DEF Max

\* What appending to the log does to its range and to injectivity.
LEMMA LogAppend ==
  ASSUME NEW l \in Seq(Events), NEW e \in Events
  PROVE /\ Append(l, e) \in Seq(Events)
        /\ Range(Append(l, e)) = Range(l) \cup {e}
        /\ IsInjective(l) /\ e \notin Range(l) => IsInjective(Append(l, e))
  <1>1. /\ Append(l, e) \in Seq(Events)
        /\ DOMAIN l = 1..Len(l) /\ DOMAIN Append(l, e) = 1..(Len(l) + 1) /\ Len(l) \in Nat
        /\ \A i \in 1..Len(l) : Append(l, e)[i] = l[i]
        /\ Append(l, e)[Len(l) + 1] = e
    OBVIOUS
  <1> DEFINE a == Append(l, e)
  <1> HIDE DEF a
  <1>2. \A i \in 1..(Len(l) + 1) : i \in 1..Len(l) \/ i = Len(l) + 1
    BY <1>1
  <1>3. Range(a) = Range(l) \cup {e}
    BY <1>1, <1>2 DEF Range, a
  <1>4. ASSUME IsInjective(l), e \notin Range(l)
        PROVE IsInjective(a)
    BY <1>1, <1>2, <1>4 DEF Range, IsInjective, a
  <1> QED
    BY <1>1, <1>3, <1>4 DEF a

-----------------------------------------------------------------------------
\* The invariant holds at the start.
LEMMA InvInit == Init => IInv
  <1> SUFFICES ASSUME Init PROVE IInv
    OBVIOUS
  <1> USE AuditAssumption DEF Init
  <1>1. Range(log) = {} /\ IsInjective(log)
    BY DEF Range, IsInjective
  <1>2. TypeOK
    BY DEF TypeOK, Steps
  <1> QED
    BY <1>1, <1>2 DEF IInv, GoneForGood, ReplyPersisted, TailHeld, PersistedOnce, AckedIsPersisted

\* Types survive every step.
LEMMA TypeNext == TypeOK /\ [Next]_vars => TypeOK'
  <1> SUFFICES ASSUME TypeOK, [Next]_vars PROVE TypeOK'
    OBVIOUS
  <1> USE DEF TypeOK, Steps, chainVars, workerVars, Rest
  <1>0. MaxDeliver \in Nat /\ None \notin Events
    BY AuditAssumption
  <1>1. ASSUME NEW e \in Events, Publish(e) PROVE TypeOK'
    BY <1>1 DEF Publish
  <1>2. ASSUME NEW w \in Workers, NEW e \in Events, Deliver(w, e) PROVE TypeOK'
    BY <1>0, <1>2 DEF Deliver
  <1>3. ASSUME NEW w \in Workers, NEW e \in Events, InsertEvent(w, e) PROVE TypeOK'
    BY <1>3 DEF InsertEvent
  <1>4. ASSUME NEW w \in Workers, SelectTail(w) PROVE TypeOK'
    <2>1. RowsOf({TenantOf[cur[w]]}) \in SUBSET Events
      BY DEF RowsOf
    <2>2. odd' \subseteq Events
      BY <1>4 DEF SelectTail, Rivals
    <2> QED
      BY <1>4, <2>1, <2>2 DEF SelectTail
  <1>5. ASSUME NEW w \in Workers, LockTail(w) PROVE TypeOK'
    <2>1. snap[w] \cap stored # {} => Max(snap[w] \cap stored) \in Events
      BY MaxIn
    <2>2. tail' \in [Workers -> Events \cup {None}]
      BY <1>5, <2>1 DEF LockTail
    <2> QED
      BY <1>5, <2>2 DEF LockTail
  <1>6. ASSUME NEW w \in Workers, Commit(w) PROVE TypeOK'
    <2>1. cur[w] \in Events
      BY <1>6 DEF Commit
    <2>2. tail[w] # None => HashOf(tail[w]) \in Seq(Events)
      BY LogAppend DEF HashOf
    <2>3. log' \in Seq(Events)
      BY <1>6, <2>1, LogAppend DEF Commit
    <2>4. prev' \in [Events -> Seq(Events)]
      BY <1>6, <2>1, <2>2 DEF Commit
    <2>5. stored' \subseteq Events /\ odd' \subseteq Events
      BY <1>6, <2>1 DEF Commit
    <2>6. /\ pc' \in [Workers -> Steps] /\ cur' \in [Workers -> Events \cup {None}]
          /\ snap' \in [Workers -> SUBSET Events] /\ tail' \in [Workers -> Events \cup {None}]
          /\ \A v \in Workers : pc'[v] # "idle" => cur'[v] \in Events
      BY <1>6, <2>1 DEF Commit
    <2> QED
      BY <1>6, <2>3, <2>4, <2>5, <2>6 DEF Commit
  <1>7. ASSUME NEW w \in Workers, Duplicate(w) \/ Ack(w) \/ Abandon(w) PROVE TypeOK'
    <2>1. Rest(w) /\ msg' \in [Events -> {"new", "stream", "acked", "direct"}]
      BY <1>7 DEF Duplicate, Ack, Abandon
    <2> QED
      BY <1>7, <2>1 DEF Duplicate, Ack, Abandon
  <1>8. ASSUME NEW cut \in Events, NEW T \in {{t} : t \in Tenants} \cup {Tenants},
               GetBoundaryEventID(cut, T)
        PROVE TypeOK'
    <2>1. Max(RowsOf(T) \cap Older(cut)) \in Events
      <3>1. RowsOf(T) \cap Older(cut) \in SUBSET Events /\ RowsOf(T) \cap Older(cut) # {}
        BY <1>8 DEF GetBoundaryEventID, RowsOf
      <3> QED
        BY <3>1, MaxIn
    <2>2. cleaner' \in [cut: Events, scope: SUBSET Tenants, keep: Events]
      BY <1>8, <2>1 DEF GetBoundaryEventID
    <2> QED
      BY <1>8, <2>2 DEF GetBoundaryEventID
  <1>9. CASE DeleteOlderThanExcept \/ CleanupFails
    BY <1>9 DEF DeleteOlderThanExcept, CleanupFails
  <1>10. CASE UNCHANGED vars
    BY <1>10 DEF vars
  <1> QED
    BY <1>1, <1>2, <1>3, <1>4, <1>5, <1>6, <1>7, <1>8, <1>9, <1>10 DEF Next, Work

\* Type correctness: the chain, the stream and the workers keep their shape.
THEOREM TypeCorrect == Spec => []TypeOK
  <1>1. Init => TypeOK
    BY InvInit DEF IInv
  <1> QED
    BY <1>1, TypeNext, PTL DEF Spec

-----------------------------------------------------------------------------
\* An event that can no longer be inserted stays so: its message is not
\* delivered again, and it is neither published nor inserted a second time.
LEMMA OutOfReachNext ==
  ASSUME TypeOK, [Next]_vars, NEW e \in Events, OutOfReach(e)
  PROVE OutOfReach(e)'
  <1> USE DEF TypeOK, OutOfReach, Settled, chainVars, workerVars
  <1>0. MaxDeliver \in Nat /\ None # e
    BY AuditAssumption
  <1>1. ASSUME NEW d \in Events, Publish(d) PROVE OutOfReach(e)'
    BY <1>1 DEF Publish
  <1>2. ASSUME NEW w \in Workers, NEW d \in Events, Deliver(w, d) PROVE OutOfReach(e)'
    BY <1>0, <1>2 DEF Deliver
  <1>3. ASSUME NEW w \in Workers, NEW d \in Events, InsertEvent(w, d) PROVE OutOfReach(e)'
    BY <1>3 DEF InsertEvent
  <1>4. ASSUME NEW w \in Workers, Work(w) \/ Abandon(w) PROVE OutOfReach(e)'
    <2>1. /\ cur' = cur \/ cur' = [cur EXCEPT ![w] = None]
          /\ deliv' = deliv
          /\ msg' = msg \/ msg' = [msg EXCEPT ![cur[w]] = "acked"]
      BY <1>4 DEF Work, Abandon, SelectTail, LockTail, Commit, Duplicate, Ack, Rest
    <2> QED
      BY <1>0, <2>1
  <1>5. CASE UNCHANGED <<msg, deliv, cur>>
    BY <1>5
  <1> QED
    BY <1>1, <1>2, <1>3, <1>4, <1>5
    DEF Next, GetBoundaryEventID, DeleteOlderThanExcept, CleanupFails, vars

\* What a step does to the log: a commit appends an event that was never
\* there, every other step leaves it alone.
LEMMA LogStep ==
  ASSUME IInv, [Next]_vars
  PROVE \/ log' = log
        \/ \E w \in Workers : /\ Commit(w) /\ cur[w] \in Events \ Range(log)
                               /\ log' = Append(log, cur[w])
  <1>1. ASSUME NEW w \in Workers, Commit(w)
        PROVE cur[w] \in Events \ Range(log) /\ log' = Append(log, cur[w])
    BY <1>1 DEF Commit, IInv, TypeOK, GoneForGood, OutOfReach, Settled
  <1> QED
    BY <1>1 DEF Next, vars, chainVars, Publish, Deliver, InsertEvent, Work, SelectTail, LockTail,
                Duplicate, Ack, Abandon, GetBoundaryEventID, DeleteOlderThanExcept, CleanupFails

\* Rows are persisted before they can go, and never come back.
LEMMA GoneForGoodNext ==
  ASSUME IInv, [Next]_vars
  PROVE GoneForGood'
  <1> USE DEF IInv, TypeOK
  <1>0. Range(log) \subseteq Events /\ Range(log)' \subseteq Events
    BY TypeNext DEF Range
  <1>1. \A e \in Events : OutOfReach(e) => OutOfReach(e)'
    BY OutOfReachNext
  <1>2. CASE \E w \in Workers : Commit(w)
    <2>1. PICK w \in Workers : Commit(w)
      BY <1>2
    <2>2. stored' = stored \cup {cur[w]} /\ cleaner' = cleaner /\ Range(log)' = Range(log) \cup {cur[w]}
      BY <2>1, LogAppend DEF Commit
    <2> QED
      BY <1>0, <1>1, <2>2 DEF GoneForGood, Older
  <1>3. CASE log' = log /\ stored' = stored /\ (cleaner' = cleaner \/ cleaner' = None)
    BY <1>0, <1>1, <1>3 DEF GoneForGood, Older
  <1>4. CASE DeleteOlderThanExcept
    <2>1. /\ stored' \subseteq stored /\ stored \ stored' \subseteq Older(cleaner.cut)
          /\ log' = log /\ cleaner' = None /\ cleaner # None
      BY <1>4 DEF DeleteOlderThanExcept
    <2> QED
      BY <1>0, <1>1, <2>1 DEF GoneForGood
  <1>5. ASSUME NEW cut \in Events, NEW T, GetBoundaryEventID(cut, T)
        PROVE GoneForGood'
    <2>1. /\ log' = log /\ stored' = stored /\ cleaner'.cut = cut
          /\ \A e \in Older(cut) : OutOfReach(e)
      BY <1>5 DEF GetBoundaryEventID, OutOfReach, chainVars
    <2> QED
      BY <1>0, <1>1, <2>1 DEF GoneForGood, Older
  <1> QED
    BY <1>2, <1>3, <1>4, <1>5
    DEF Next, vars, chainVars, Publish, Deliver, InsertEvent, Work, SelectTail, LockTail,
        Duplicate, Ack, Abandon, CleanupFails

\* The insert of an event succeeds before its message is acknowledged.
LEMMA PersistedNext ==
  ASSUME IInv, [Next]_vars
  PROVE ReplyPersisted' /\ PersistedOnce' /\ AckedIsPersisted'
  <1> USE DEF IInv, TypeOK
  <1>1. PersistedOnce' /\ Range(log) \subseteq Range(log)'
    BY LogStep, LogAppend DEF PersistedOnce
  <1>2. ReplyPersisted'
    <2>1. ASSUME NEW w \in Workers, Commit(w) PROVE ReplyPersisted'
      <3>1. cur[w] \in Range(log)'
        BY <2>1, LogAppend DEF Commit
      <3> QED
        BY <1>1, <2>1, <3>1 DEF Commit, ReplyPersisted, Rest
    <2>2. ASSUME NEW w \in Workers, NEW e \in Events, Deliver(w, e) \/ InsertEvent(w, e)
          PROVE ReplyPersisted'
      BY <1>1, <2>2 DEF Deliver, InsertEvent, ReplyPersisted
    <2>3. ASSUME NEW w \in Workers,
                 SelectTail(w) \/ LockTail(w) \/ Duplicate(w) \/ Ack(w) \/ Abandon(w)
          PROVE ReplyPersisted'
      BY <1>1, <2>3 DEF SelectTail, LockTail, Duplicate, Ack, Abandon, Rest, ReplyPersisted
    <2>4. CASE UNCHANGED <<pc, cur>>
      BY <1>1, <2>4 DEF ReplyPersisted
    <2> QED
      BY <2>1, <2>2, <2>3, <2>4
      DEF Next, vars, Work, workerVars, Publish, GetBoundaryEventID, DeleteOlderThanExcept, CleanupFails
  <1>3. AckedIsPersisted'
    <2>1. ASSUME NEW e \in Events, msg'[e] = "acked", msg[e] # "acked"
          PROVE \E w \in Workers : pc[w] = "reply" /\ cur[w] = e
      BY <2>1 DEF Next, vars, Work, Publish, Deliver, InsertEvent, SelectTail, LockTail, Commit,
                  Duplicate, Ack, Abandon, GetBoundaryEventID, DeleteOlderThanExcept, CleanupFails
    <2> QED
      BY <1>1, <2>1 DEF AckedIsPersisted, ReplyPersisted
  <1> QED
    BY <1>1, <1>2, <1>3

\* The row lock keeps the tail where it is until the COMMIT.
LEMMA TailHeldNext ==
  ASSUME IInv, [Next]_vars
  PROVE TailHeld'
  <1> DEFINE Held(w) == /\ pc[w] = "lock" => \A e \in snap[w] : TenantOf[e] = TenantOf[cur[w]]
                        /\ tail[w] # None => /\ pc[w] = "insert" /\ tail[w] \in stored
                                             /\ TenantOf[tail[w]] = TenantOf[cur[w]]
  <1>a. \A w \in Workers : Held(w)
    BY DEF IInv, TailHeld
  <1>b. SUFFICES \A w \in Workers : Held(w)'
    BY DEF TailHeld
  <1>c. ASSUME NEW w \in Workers, Held(w)', stored \subseteq stored',
               \A v \in Workers \ {w} : /\ pc'[v] = pc[v] /\ cur'[v] = cur[v]
                                        /\ snap'[v] = snap[v] /\ tail'[v] = tail[v]
        PROVE \A v \in Workers : Held(v)'
    <2> SUFFICES ASSUME NEW v \in Workers, v # w PROVE Held(v)'
      BY <1>c
    <2> QED
      BY <1>a, <1>c
  <1> USE DEF IInv, TypeOK, chainVars, workerVars
  <1>0. None \notin Events /\ None \notin Workers
    BY AuditAssumption
  <1>1. ASSUME NEW w \in Workers, SelectTail(w) PROVE \A v \in Workers : Held(v)'
    <2>1. Held(w)'
      BY <1>1, <1>a DEF SelectTail, RowsOf
    <2>2. stored' = stored /\ \A v \in Workers \ {w} : /\ pc'[v] = pc[v] /\ cur'[v] = cur[v]
                                                        /\ snap'[v] = snap[v] /\ tail'[v] = tail[v]
      BY <1>1 DEF SelectTail
    <2> HIDE DEF Held
    <2> QED
      BY <1>c, <2>1, <2>2
  <1>2. ASSUME NEW w \in Workers, LockTail(w) PROVE \A v \in Workers : Held(v)'
    <2>1. snap[w] \cap stored # {} => Max(snap[w] \cap stored) \in snap[w] \cap stored
      BY MaxIn
    <2>2. Held(w)'
      BY <1>2, <1>a, <2>1 DEF LockTail
    <2>3. stored' = stored /\ \A v \in Workers \ {w} : /\ pc'[v] = pc[v] /\ cur'[v] = cur[v]
                                                        /\ snap'[v] = snap[v] /\ tail'[v] = tail[v]
      BY <1>2 DEF LockTail
    <2> HIDE DEF Held
    <2> QED
      BY <1>c, <2>2, <2>3
  <1>3. ASSUME NEW w \in Workers, Commit(w) \/ Duplicate(w) \/ Ack(w) \/ Abandon(w)
        PROVE \A v \in Workers : Held(v)'
    <2>1. stored \subseteq stored' /\ tail'[w] = None /\ pc'[w] # "lock"
      BY <1>3 DEF Commit, Duplicate, Ack, Abandon, Rest
    <2>2. \A v \in Workers \ {w} : /\ pc'[v] = pc[v] /\ cur'[v] = cur[v]
                                   /\ snap'[v] = snap[v] /\ tail'[v] = tail[v]
      BY <1>3 DEF Commit, Duplicate, Ack, Abandon, Rest
    <2>3. Held(w)'
      BY <2>1
    <2> HIDE DEF Held
    <2> QED
      BY <1>c, <2>1, <2>2, <2>3
  <1>4. ASSUME NEW w \in Workers, NEW e \in Events, Deliver(w, e) \/ InsertEvent(w, e)
        PROVE \A v \in Workers : Held(v)'
    <2>1. tail[w] = None
      BY <1>4, <1>a DEF Deliver, InsertEvent
    <2>2. Held(w)'
      BY <1>4, <2>1 DEF Deliver, InsertEvent
    <2>3. stored' = stored /\ \A v \in Workers \ {w} : /\ pc'[v] = pc[v] /\ cur'[v] = cur[v]
                                                        /\ snap'[v] = snap[v] /\ tail'[v] = tail[v]
      BY <1>4 DEF Deliver, InsertEvent
    <2> HIDE DEF Held
    <2> QED
      BY <1>c, <2>2, <2>3
  <1>5. CASE DeleteOlderThanExcept
    <2>1. \A w \in Workers : tail[w] # None => tail[w] \in stored'
      BY <1>0, <1>5, <1>a DEF DeleteOlderThanExcept, Locked
    <2> QED
      BY <1>5, <1>a, <2>1 DEF DeleteOlderThanExcept
  <1>6. CASE UNCHANGED <<stored, pc, cur, snap, tail>>
    BY <1>6, <1>a
  <1> HIDE DEF Held
  <1> QED
    BY <1>1, <1>2, <1>3, <1>4, <1>5, <1>6
    DEF Next, vars, Work, Publish, GetBoundaryEventID, CleanupFails

\* The inductive invariant.
THEOREM Invariance == Spec => []IInv
  <1>1. IInv /\ [Next]_vars => IInv'
    BY TypeNext, GoneForGoodNext, PersistedNext, TailHeldNext DEF IInv
  <1> QED
    BY <1>1, InvInit, PTL DEF Spec

\* No event is persisted twice, however often it is delivered.
THEOREM AtMostOnce == Spec => []PersistedOnce
  <1>1. IInv => PersistedOnce
    BY DEF IInv
  <1> QED
    BY <1>1, Invariance, PTL

\* No message is acknowledged before its event is persisted.
THEOREM NoAckedLoss == Spec => []AckedIsPersisted
  <1>1. IInv => AckedIsPersisted
    BY DEF IInv
  <1> QED
    BY <1>1, Invariance, PTL

\* A new row is chained to a row that is there when it commits.
THEOREM SoundLinks == Spec => LinkedToSurvivor
  <1> DEFINE Sound == \A e \in stored' \ stored : prev'[e] # <<>> =>
                        Last(prev'[e]) \in stored /\ TenantOf[Last(prev'[e])] = TenantOf[e]
  <1>1. ASSUME IInv, [Next]_vars PROVE Sound
    <2> USE <1>1 DEF IInv, TypeOK
    <2>1. ASSUME NEW w \in Workers, Commit(w) PROVE Sound
      <3>1. stored' = stored \cup {cur[w]} /\ cur[w] \in Events
        BY <2>1 DEF Commit
      <3>2. CASE tail[w] = None
        BY <2>1, <3>1, <3>2 DEF Commit
      <3>3. CASE tail[w] # None
        <4>1. prev'[cur[w]] = Append(prev[tail[w]], tail[w]) /\ tail[w] \in Events
          BY <2>1, <3>1, <3>3 DEF Commit, HashOf
        <4>2. Last(prev'[cur[w]]) = tail[w]
          BY <4>1 DEF Last
        <4> QED
          BY <3>1, <3>3, <4>2 DEF TailHeld
      <3> QED
        BY <3>2, <3>3
    <2>2. CASE stored' \subseteq stored
      BY <2>2
    <2> QED
      BY <2>1, <2>2
      DEF Next, vars, chainVars, Publish, Deliver, InsertEvent, Work, SelectTail, LockTail,
          Duplicate, Ack, Abandon, GetBoundaryEventID, DeleteOlderThanExcept, CleanupFails
  <1>2. IInv /\ [Next]_vars => [Sound]_vars
    BY <1>1
  <1> QED
    BY <1>2, Invariance, PTL DEF Spec, LinkedToSurvivor
-----------------------------------------------------------------------------
(***************************************************************************)
(* The tamper check.  An event that is not odd was chained to the newest   *)
(* row its tenant had, as no other insert of the tenant was between its    *)
(* SELECT and its COMMIT.  Since then rows below it came only out of order *)
(* (they are odd), and retention took the row it is chained to only with   *)
(* all the older ones.                                                     *)
(***************************************************************************)

\* Retention removes a row only when nothing older is still on its way.
GonePast == \A d \in Range(log) \ stored : \A e \in Events : e <= d => OutOfReach(e)

\* Until the DELETE, the row to keep is the newest before the cutoff.
KeepsNewest ==
  cleaner # None => \A r \in RowsOf(cleaner.scope) \cap Older(cleaner.cut) : r <= cleaner.keep

\* Overlapping inserts are odd, and an insert that is not has seen all rows.
Alone ==
  /\ \A v, w \in Workers : /\ v # w
                           /\ pc[v] \in {"lock", "insert"} /\ pc[w] \in {"lock", "insert"}
                           /\ TenantOf[cur[v]] = TenantOf[cur[w]]
                           => cur[v] \in odd
  /\ \A w \in Workers : pc[w] \in {"lock", "insert"} /\ cur[w] \notin odd =>
       /\ pc[w] = "lock" => RowsOf({TenantOf[cur[w]]}) \subseteq snap[w]
       /\ tail[w] # None => \A r \in RowsOf({TenantOf[cur[w]]}) : r <= tail[w]

\* The row e is chained to, seen from the rows that are there now.
ChainedTo(e, l) ==
  /\ l < e /\ TenantOf[l] = TenantOf[e] /\ prev[e] = HashOf(l)
  /\ \A p \in Before(e) : IF p > l THEN p \in odd ELSE l \in stored

LinksKept == \A e \in stored : e \notin odd /\ prev[e] # <<>> =>
               \E l \in Range(log) : ChainedTo(e, l)

ChainInv == GonePast /\ KeepsNewest /\ Alone /\ LinksKept

\* What a step does to the rows: one is committed, the DELETE of the cleanup,
\* or nothing.
LEMMA RowSteps ==
  ASSUME [Next]_vars
  PROVE \/ \E w \in Workers : Commit(w)
        \/ DeleteOlderThanExcept
        \/ UNCHANGED chainVars
  BY DEF Next, vars, chainVars, Publish, Deliver, InsertEvent, Work, SelectTail, LockTail,
         Duplicate, Ack, Abandon, GetBoundaryEventID, CleanupFails

\* A row goes by the DELETE, and then nothing before the cutoff can come.
LEMMA GonePastNext ==
  ASSUME IInv, GonePast, [Next]_vars
  PROVE GonePast'
  <1> USE DEF IInv, TypeOK
  <1>0. Range(log) \subseteq Events /\ Events \subseteq Nat
    BY AuditAssumption DEF Range
  <1>1. \A e \in Events : OutOfReach(e) => OutOfReach(e)'
    BY OutOfReachNext
  <1>2. ASSUME NEW w \in Workers, Commit(w) PROVE GonePast'
    <2>1. stored' = stored \cup {cur[w]} /\ Range(log)' = Range(log) \cup {cur[w]}
      BY <1>2, LogAppend DEF Commit
    <2> QED
      BY <1>1, <2>1 DEF GonePast
  <1>3. CASE DeleteOlderThanExcept
    <2>1. /\ stored \ stored' \subseteq Older(cleaner.cut) /\ log' = log /\ cleaner # None
          /\ cleaner.cut \in Events
      BY <1>3 DEF DeleteOlderThanExcept
    <2>2. \A d \in Older(cleaner.cut) : \A e \in Events : e <= d => e \in Older(cleaner.cut)
      <3> DEFINE cut == cleaner.cut
      <3> HIDE DEF cut
      <3>1. cut \in Nat
        BY <1>0, <2>1 DEF cut
      <3>2. \A d \in Older(cut) : \A e \in Events : e <= d => e \in Older(cut)
        BY <1>0, <3>1 DEF Older
      <3> QED BY <3>2 DEF cut
    <2> QED
      BY <1>1, <2>1, <2>2 DEF GonePast, GoneForGood
  <1>4. CASE UNCHANGED chainVars
    BY <1>1, <1>4 DEF GonePast, chainVars
  <1> QED
    BY <1>2, <1>3, <1>4, RowSteps

\* No row older than the cutoff is added while a cleanup is between its two
\* statements.
LEMMA KeepsNewestNext ==
  ASSUME IInv, KeepsNewest, [Next]_vars
  PROVE KeepsNewest'
  <1> USE DEF IInv, TypeOK
  <1>1. ASSUME NEW w \in Workers, Commit(w) PROVE KeepsNewest'
    <2>1. cleaner # None => cur[w] \notin Older(cleaner.cut)
      BY DEF GoneForGood, OutOfReach, Settled
    <2>2. stored' = stored \cup {cur[w]} /\ cleaner' = cleaner
      BY <1>1 DEF Commit
    <2>3. cleaner # None => RowsOf(cleaner.scope)' \cap Older(cleaner.cut)
                              = RowsOf(cleaner.scope) \cap Older(cleaner.cut)
      BY <2>1, <2>2 DEF RowsOf
    <2> QED
      BY <2>2, <2>3 DEF KeepsNewest, Older
  <1>2. ASSUME NEW cut \in Events, NEW T, GetBoundaryEventID(cut, T) PROVE KeepsNewest'
    <2> DEFINE old == RowsOf(T) \cap Older(cut)
    <2>1. old \in SUBSET Events /\ Events \subseteq Nat
      BY AuditAssumption DEF Older
    <2>2. \A r \in old : Max(old) >= r /\ Max(old) \in old
      BY <2>1, MaxAbove
    <2>3. \A r \in old : r <= Max(old)
      <3> HIDE DEF old
      <3> QED BY <2>1, <2>2
    <2>4. /\ cleaner'.cut = cut /\ cleaner'.scope = T /\ cleaner'.keep = Max(old) /\ stored' = stored
      BY <1>2 DEF GetBoundaryEventID, chainVars
    <2> QED
      BY <2>3, <2>4 DEF KeepsNewest, RowsOf, Older
  <1>3. CASE cleaner' = None
    BY <1>3 DEF KeepsNewest
  <1>4. CASE UNCHANGED <<stored, cleaner>>
    BY <1>4 DEF KeepsNewest, RowsOf, Older
  <1> QED
    BY <1>1, <1>2, <1>3, <1>4
    DEF Next, vars, chainVars, Publish, Deliver, InsertEvent, Work, SelectTail, LockTail,
        Duplicate, Ack, Abandon, CleanupFails, DeleteOlderThanExcept

\* Inserts that overlap with another of their tenant are recorded as odd.
LEMMA AloneNext ==
  ASSUME IInv, Alone, [Next]_vars
  PROVE Alone'
  <1> DEFINE Busy(w) == pc[w] \in {"lock", "insert"}
             Apart(v, w) == /\ Busy(v) /\ Busy(w) /\ TenantOf[cur[v]] = TenantOf[cur[w]]
                            => cur[v] \in odd
             Seen(w) == Busy(w) /\ cur[w] \notin odd =>
                          /\ pc[w] = "lock" => RowsOf({TenantOf[cur[w]]}) \subseteq snap[w]
                          /\ tail[w] # None => \A r \in RowsOf({TenantOf[cur[w]]}) : r <= tail[w]
  <1>a. /\ \A v, w \in Workers : v # w => Apart(v, w)
        /\ \A w \in Workers : Seen(w)
    BY DEF Alone
  <1>b. SUFFICES /\ \A v, w \in Workers : v # w => Apart(v, w)'
                 /\ \A w \in Workers : Seen(w)'
    BY DEF Alone
  <1> USE DEF IInv, TypeOK, chainVars, workerVars
  <1>0. None \notin Events /\ None \notin Workers
    BY AuditAssumption
  \* No worker joins in, and no row is added: nothing changes for the others.
  <1>c. ASSUME odd \subseteq odd', stored' \subseteq stored,
               \A v \in Workers : Busy(v)' =>
                 /\ pc'[v] = pc[v] /\ cur'[v] = cur[v] /\ snap'[v] = snap[v] /\ tail'[v] = tail[v]
        PROVE  /\ \A v, w \in Workers : v # w => Apart(v, w)'
               /\ \A w \in Workers : Seen(w)'
    BY <1>a, <1>c DEF RowsOf
  <1>1. ASSUME NEW w \in Workers, SelectTail(w)
        PROVE  /\ \A u, v \in Workers : u # v => Apart(u, v)'
               /\ \A v \in Workers : Seen(v)'
    <2>1. /\ stored' = stored /\ cur' = cur /\ tail' = tail /\ odd \subseteq odd'
          /\ tail[w] = None
          /\ \A v \in Workers : v # w => pc'[v] = pc[v] /\ snap'[v] = snap[v]
          /\ pc'[w] = "lock" /\ snap'[w] = RowsOf({TenantOf[cur[w]]})
      BY <1>1 DEF SelectTail, TailHeld
    <2>2. \A v \in Workers : /\ v # w /\ Busy(v) /\ TenantOf[cur[v]] = TenantOf[cur[w]]
                             => cur[v] \in odd' /\ cur[w] \in odd'
      BY <1>1 DEF SelectTail, Rivals
    <2>3. \A u, v \in Workers : u # v => Apart(u, v)'
      BY <1>a, <2>1, <2>2
    <2>4. \A v \in Workers : v # w => Seen(v)'
      BY <1>a, <2>1 DEF RowsOf
    <2>5. Seen(w)'
      BY <2>1 DEF RowsOf
    <2> HIDE DEF Seen, Apart
    <2> QED BY <2>3, <2>4, <2>5
  <1>2. ASSUME NEW w \in Workers, LockTail(w)
        PROVE  /\ \A u, v \in Workers : u # v => Apart(u, v)'
               /\ \A v \in Workers : Seen(v)'
    <2> DEFINE rows == snap[w] \cap stored
    <2>1. /\ stored' = stored /\ cur' = cur /\ snap' = snap /\ odd' = odd
          /\ \A v \in Workers : v # w => pc'[v] = pc[v] /\ tail'[v] = tail[v]
          /\ pc[w] = "lock" /\ pc'[w] = "insert" /\ tail[w] = None
          /\ rows # {} => tail'[w] = Max(rows)
          /\ rows = {} => tail'[w] = None
      BY <1>2 DEF LockTail, TailHeld
    <2>2. \A u, v \in Workers : u # v => Apart(u, v)'
      <3>1. (\A v \in Workers : Busy(v)' => Busy(v)) /\ cur' = cur /\ odd' = odd
        BY <2>1
      <3> HIDE DEF Busy
      <3> QED BY <1>a, <3>1
    <2>3. \A v \in Workers : v # w => Seen(v)'
      BY <1>a, <2>1 DEF RowsOf
    <2>4. Seen(w)'
      <3> SUFFICES ASSUME cur[w] \notin odd, tail'[w] # None,
                          NEW r \in RowsOf({TenantOf[cur[w]]})
                   PROVE  r <= tail'[w]
        BY <2>1 DEF RowsOf
      <3>1. r \in rows
        BY <1>a, <2>1 DEF RowsOf
      <3>2. Max(rows) >= r /\ Max(rows) \in Events /\ r \in Events
        <4>1. rows \in SUBSET Events
          OBVIOUS
        <4> HIDE DEF rows
        <4> QED BY <3>1, <4>1, MaxAbove
      <3>3. tail'[w] = Max(rows) /\ Events \subseteq Nat
        BY <2>1, <3>1, AuditAssumption
      <3> QED
        <4> HIDE DEF rows
        <4> QED BY <3>2, <3>3
    <2> HIDE DEF Seen, Apart
    <2> QED BY <2>2, <2>3, <2>4
  <1>3. ASSUME NEW w \in Workers, Commit(w)
        PROVE  /\ \A u, v \in Workers : u # v => Apart(u, v)'
               /\ \A v \in Workers : Seen(v)'
    <2>1. /\ stored' = stored \cup {cur[w]} /\ odd \subseteq odd' /\ ~Busy(w)' /\ Busy(w)
          /\ \A v \in Workers : v # w =>
               pc'[v] = pc[v] /\ tail'[v] = tail[v] /\ cur'[v] = cur[v] /\ snap'[v] = snap[v]
      BY <1>3 DEF Commit, Rest
    <2>2. \A u, v \in Workers : u # v => Apart(u, v)'
      BY <1>a, <2>1
    <2>3. ASSUME NEW v \in Workers, Busy(v)', cur'[v] \notin odd' PROVE Seen(v)'
      <3>1. v # w /\ Busy(v) /\ cur[v] \notin odd /\ cur'[v] = cur[v]
            /\ TenantOf[cur[v]] # TenantOf[cur[w]]
        BY <1>a, <2>1, <2>3
      <3>2. RowsOf({TenantOf[cur[v]]})' = RowsOf({TenantOf[cur[v]]})
        BY <2>1, <3>1 DEF RowsOf
      <3> QED BY <1>a, <2>1, <3>1, <3>2
    <2>4. \A v \in Workers : Seen(v)'
      BY <2>3
    <2> HIDE DEF Seen, Apart
    <2> QED BY <2>2, <2>4
  <1>4. ASSUME NEW w \in Workers, Duplicate(w) \/ Ack(w) \/ Abandon(w)
        PROVE  /\ \A u, v \in Workers : u # v => Apart(u, v)'
               /\ \A v \in Workers : Seen(v)'
    <2>1. /\ odd' = odd /\ stored' = stored /\ ~Busy(w)'
          /\ \A v \in Workers : v # w =>
               pc'[v] = pc[v] /\ tail'[v] = tail[v] /\ cur'[v] = cur[v] /\ snap'[v] = snap[v]
      BY <1>4 DEF Duplicate, Ack, Abandon, Rest
    <2> HIDE DEF Seen, Apart
    <2> QED BY <1>c, <2>1
  <1>5. ASSUME NEW w \in Workers, NEW e \in Events, Deliver(w, e) \/ InsertEvent(w, e)
        PROVE  /\ \A u, v \in Workers : u # v => Apart(u, v)'
               /\ \A v \in Workers : Seen(v)'
    <2>1. /\ odd' = odd /\ stored' = stored /\ ~Busy(w)'
          /\ \A v \in Workers : v # w =>
               pc'[v] = pc[v] /\ tail'[v] = tail[v] /\ cur'[v] = cur[v] /\ snap'[v] = snap[v]
      BY <1>5 DEF Deliver, InsertEvent
    <2> HIDE DEF Seen, Apart
    <2> QED BY <1>c, <2>1
  <1>6. CASE UNCHANGED <<odd, pc, cur, snap, tail>> /\ stored' \subseteq stored
    <2> HIDE DEF Seen, Apart
    <2> QED BY <1>c, <1>6
  <1>7. \/ UNCHANGED <<odd, pc, cur, snap, tail>> /\ stored' \subseteq stored
        \/ \E w \in Workers : Work(w) \/ Abandon(w)
        \/ \E w \in Workers, e \in Events : Deliver(w, e) \/ InsertEvent(w, e)
    BY DEF Next, vars, Publish, GetBoundaryEventID, CleanupFails, DeleteOlderThanExcept
  <1> HIDE DEF Seen, Apart, Busy
  <1> QED
    BY <1>1, <1>2, <1>3, <1>4, <1>5, <1>6, <1>7 DEF Work

\* A row keeps the link it was given, or what came between is odd.
LEMMA LinksKeptNext ==
  ASSUME IInv, ChainInv, [Next]_vars
  PROVE LinksKept'
  <1> USE DEF IInv, TypeOK
  <1>0. Events \subseteq Nat /\ Range(log) \subseteq Events
    BY AuditAssumption DEF Range
  <1>1. CASE UNCHANGED chainVars
    <2>1. UNCHANGED <<stored, prev, log>> /\ odd \subseteq odd'
      BY <1>1 DEF chainVars, Next, vars, Publish, Deliver, InsertEvent, Work, SelectTail, LockTail,
                  Commit, Duplicate, Ack, Abandon, GetBoundaryEventID, CleanupFails,
                  DeleteOlderThanExcept
    <2>2. \A e, l \in Events : ChainedTo(e, l) => ChainedTo(e, l)'
      BY <2>1 DEF ChainedTo, Before, RowsOf, HashOf
    <2> QED
      BY <1>0, <2>1, <2>2 DEF ChainInv, LinksKept
  <1>2. ASSUME NEW w \in Workers, Commit(w) PROVE LinksKept'
    <2>0. PICK n \in Events : n = cur[w]
      BY <1>2 DEF Commit
    <2>1. /\ n \in Events /\ n \notin stored /\ n \notin Range(log)
          /\ stored' = stored \cup {n} /\ Range(log)' = Range(log) \cup {n} /\ odd \subseteq odd'
          /\ \A e \in Events : e # n => prev'[e] = prev[e]
          /\ prev'[n] = IF tail[w] = None THEN <<>> ELSE HashOf(tail[w])
          /\ n \notin odd' => \A s \in RowsOf({TenantOf[n]}) : ~(s > n)
      <3>1. n \notin Range(log)
        BY <1>2, <2>0 DEF Commit, GoneForGood, OutOfReach, Settled
      <3>2. Range(log)' = Range(log) \cup {n}
        BY <1>2, <2>0, LogAppend DEF Commit
      <3> QED BY <1>2, <2>0, <3>1, <3>2 DEF Commit
    <2>2. \A l \in Events : l # n => HashOf(l)' = HashOf(l)
      BY <2>1 DEF HashOf
    <2>3. ASSUME NEW e \in stored, NEW l \in Range(log), ChainedTo(e, l)
          PROVE  ChainedTo(e, l)'
      <3>1. l \in Events /\ e \in Events /\ l # n /\ e # n
        BY <1>0, <2>1
      <3>2. l < e /\ TenantOf[l] = TenantOf[e] /\ prev'[e] = HashOf(l)'
        BY <2>1, <2>2, <2>3, <3>1 DEF ChainedTo
      <3>3. ASSUME NEW p \in Before(e)' PROVE IF p > l THEN p \in odd' ELSE l \in stored'
        <4>1. CASE p # n
          <5>1. p \in Before(e)
            BY <2>1, <3>3, <4>1 DEF Before, RowsOf
          <5> QED BY <2>1, <2>3, <5>1 DEF ChainedTo
        <4>2. CASE p = n
          <5>1. n < e /\ TenantOf[n] = TenantOf[e]
            BY <3>3, <4>2 DEF Before, RowsOf
          <5>2. e \in RowsOf({TenantOf[n]}) /\ e > n
            BY <1>0, <2>1, <3>1, <5>1 DEF RowsOf
          <5>3. n \in odd'
            BY <2>1, <5>2
          <5>4. ~(n > l) => l \in stored
            <6>1. SUFFICES ASSUME ~(n > l), l \notin stored PROVE FALSE
              OBVIOUS
            <6>2. n <= l
              BY <1>0, <2>1, <3>1, <6>1
            <6>3. OutOfReach(n)
              BY <2>1, <6>1, <6>2 DEF ChainInv, GonePast
            <6> QED BY <2>0, <6>3 DEF OutOfReach, Settled
          <5> QED BY <2>1, <4>2, <5>3, <5>4
        <4> QED BY <4>1, <4>2
      <3> QED BY <3>2, <3>3 DEF ChainedTo
    <2>4. ASSUME n \notin odd', prev'[n] # <<>>, NEW l, l = tail[w]
          PROVE  l \in Range(log) /\ ChainedTo(n, l)'
      <3>1. /\ l # None /\ l \in stored /\ TenantOf[l] = TenantOf[n]
            /\ prev'[n] = HashOf(l) /\ l # n /\ l \in Events
        BY <2>0, <2>1, <2>4 DEF TailHeld
      <3>2. l \in Range(log)
        BY <3>1 DEF GoneForGood
      <3>3. n \notin odd /\ pc[w] = "insert"
        BY <1>2, <2>1, <2>4 DEF Commit
      <3>4. \A r \in RowsOf({TenantOf[n]}) : r <= l /\ ~(r > n)
        BY <2>0, <2>1, <2>4, <3>1, <3>3 DEF ChainInv, Alone
      <3>5. l < n
        <4>1. ~(l > n)
          BY <3>1, <3>4 DEF RowsOf
        <4> QED BY <1>0, <2>1, <3>1, <4>1
      <3>6. ASSUME NEW p \in Before(n)' PROVE ~(p > l)
        <4>0. p \in stored' /\ TenantOf[p] = TenantOf[n] /\ p < n /\ p \in Events
          BY <2>1, <3>6 DEF Before, RowsOf
        <4>1. p \in RowsOf({TenantOf[n]}) /\ p \in Events
          BY <1>0, <2>1, <4>0 DEF RowsOf
        <4>2. p <= l
          BY <3>4, <4>1
        <4> QED BY <1>0, <3>1, <4>1, <4>2
      <3> QED BY <2>1, <2>2, <3>1, <3>2, <3>5, <3>6 DEF ChainedTo
    <2>5. ASSUME NEW e \in stored', e \notin odd', prev'[e] # <<>>
          PROVE  \E l \in Range(log)' : ChainedTo(e, l)'
      BY <2>1, <2>3, <2>4, <2>5 DEF ChainInv, LinksKept
    <2> QED
      BY <2>5 DEF LinksKept
  <1>3. CASE DeleteOlderThanExcept
    <2>1. PICK cut \in Events, keep \in Events : cut = cleaner.cut /\ keep = cleaner.keep
      BY <1>3 DEF DeleteOlderThanExcept
    <2>2. PICK scope : scope = cleaner.scope
      OBVIOUS
    <2>3. /\ stored' = stored \ ((RowsOf(scope) \cap Older(cut)) \ {keep})
          /\ UNCHANGED <<prev, log, odd>>
          /\ \A r \in RowsOf(scope) \cap Older(cut) : r <= keep
      BY <1>3, <2>1, <2>2 DEF DeleteOlderThanExcept, ChainInv, KeepsNewest
    <2>4. ASSUME NEW e \in stored, NEW l \in Range(log), ChainedTo(e, l)
          PROVE  ChainedTo(e, l)'
      <3>1. l \in Events /\ e \in Events
        BY <1>0
      <3>2. l < e /\ TenantOf[l] = TenantOf[e] /\ prev'[e] = HashOf(l)'
        BY <2>3, <2>4 DEF ChainedTo, HashOf
      <3>3. ASSUME NEW p \in Before(e)' PROVE IF p > l THEN p \in odd' ELSE l \in stored'
        <4>1. p \in Before(e) /\ p \in stored' /\ p \in Events /\ TenantOf[p] = TenantOf[e]
          BY <2>3, <3>3 DEF Before, RowsOf
        <4>2. SUFFICES ASSUME ~(p > l), l \in stored, l \notin stored' PROVE FALSE
          BY <2>3, <2>4, <4>1 DEF ChainedTo
        <4>3. l <= cut /\ TenantOf[l] \in scope /\ l # keep /\ l \in RowsOf(scope) \cap Older(cut)
          BY <2>3, <4>2 DEF RowsOf, Older
        <4>4. p <= l /\ p <= cut
          BY <1>0, <2>1, <3>1, <4>1, <4>2, <4>3
        <4>5. p \in RowsOf(scope) \cap Older(cut)
          BY <2>3, <3>2, <4>1, <4>3, <4>4 DEF RowsOf, Older
        <4>6. p = keep /\ l <= keep
          BY <2>3, <4>1, <4>3, <4>5
        <4> QED BY <1>0, <2>1, <3>1, <4>3, <4>4, <4>6
      <3> QED BY <3>2, <3>3 DEF ChainedTo
    <2>5. ASSUME NEW e \in stored', e \notin odd', prev'[e] # <<>>
          PROVE  \E l \in Range(log)' : ChainedTo(e, l)'
      BY <2>3, <2>4, <2>5 DEF ChainInv, LinksKept
    <2> QED
      BY <2>5 DEF LinksKept
  <1> QED
    BY <1>1, <1>2, <1>3, RowSteps

\* For any number of inserting workers, tenants, redeliveries and cleanups:
\* on a log nobody tampered with, the tamper check reports a broken link only
\* where inserts of the tenant overlapped or an event came late.
THEOREM AlarmsHaveCause == Spec => []AlarmExplained
  <1>1. Init => ChainInv
    BY DEF Init, ChainInv, GonePast, KeepsNewest, Alone, LinksKept, Range, RowsOf
  <1>2. IInv /\ ChainInv /\ [Next]_vars => ChainInv'
    BY GonePastNext, KeepsNewestNext, AloneNext, LinksKeptNext DEF ChainInv
  <1>3. IInv /\ ChainInv => AlarmExplained
    <2> SUFFICES ASSUME IInv, ChainInv, NEW e \in BrokenLinks, e \notin odd
                 PROVE  Max(Before(e)) \in odd
      BY DEF AlarmExplained
    <2>1. /\ e \in stored /\ e \in Events /\ Before(e) # {} /\ prev[e] # <<>>
          /\ prev[e] # HashOf(Max(Before(e))) /\ Before(e) \in SUBSET Events
      BY DEF BrokenLinks, IInv, TypeOK, Before, RowsOf
    <2>2. PICK l \in Range(log) : ChainedTo(e, l)
      BY <2>1 DEF ChainInv, LinksKept
    <2>3. l \in Events /\ Events \subseteq Nat
      BY AuditAssumption DEF IInv, TypeOK, Range
    <2>4. Max(Before(e)) \in Before(e)
      BY <2>1, MaxIn
    <2>5. CASE Max(Before(e)) > l
      BY <2>2, <2>4, <2>5 DEF ChainedTo
    <2>6. CASE ~(Max(Before(e)) > l)
      <3>1. l \in Before(e)
        BY <2>2, <2>4, <2>6 DEF ChainedTo, Before, RowsOf
      <3>2. Max(Before(e)) >= l
        BY <2>1, <3>1, MaxAbove
      <3>3. Max(Before(e)) = l
        BY <2>1, <2>3, <2>4, <2>6, <3>2
      <3> QED BY <2>1, <2>2, <3>3 DEF ChainedTo
    <2> QED BY <2>5, <2>6
  <1> QED
    BY <1>1, <1>2, <1>3, Invariance, PTL DEF Spec

=============================================================================
