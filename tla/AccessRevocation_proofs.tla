----------------------- MODULE AccessRevocation_proofs -----------------------
(***************************************************************************)
(* Proofs about AccessRevocation for any number of tokens and of RevokeUser *)
(* calls.  RevocationExplained says nothing of a call under way.  The       *)
(* invariant follows it: what it has listed and not yet tried is in todo,   *)
(* every other active row is of a token that is blocked, expired or         *)
(* excused, and so is every row that is no longer active.                   *)
(***************************************************************************)
EXTENDS AccessRevocation, TLAPS

SessionType == [Jtis -> {"none", "active", "revoked", "gone"}]
ExcuseType == [Jtis -> {"none", "call failed", "ended elsewhere", "login overlapped"}]

\* AccessTypeOK without what it says of rows and tokens together.
Typed ==
  /\ token \in [Jtis -> {"none", "signed", "out", "expired"}]
  /\ session \in [Jtis -> {"none", "active", "revoked", "gone"}]
  /\ blocklist \subseteq Jtis
  /\ revoking \subseteq Revokers
  /\ todo \in [Revokers -> SUBSET Jtis] /\ held \in [Revokers -> SUBSET Jtis]
  /\ marking \subseteq Jtis
  /\ promised \subseteq Jtis
  /\ excuse \in [Jtis -> {"none", "call failed", "ended elsewhere", "login overlapped"}]

Settled(j) == j \in blocklist \/ token[j] = "expired" \/ excuse[j] # "none"

\* A row is inserted last, and what is blocked or promised was handed out.
Handed ==
  /\ \A j \in Jtis : token[j] \in {"none", "signed"} => session[j] = "none" /\ j \notin blocklist
  /\ \A j \in promised \cup marking : token[j] \in {"out", "expired"}

RowsSettled ==
  /\ \A j \in Jtis : session[j] \in {"revoked", "gone"} => Settled(j)
  /\ \A j \in marking : Settled(j)

\* What the call r will not try any more is settled.
Covered(r) ==
  /\ \A j \in held[r] \cup todo[r] : token[j] \in {"out", "expired"}
  /\ \A j \in Jtis : j \in held[r] \/ session[j] = "active" =>
       session[j] = "none" \/ Settled(j) \/ j \in todo[r]

CallsCovered == \A r \in revoking : Covered(r)

IInv == Typed /\ Handed /\ RowsSettled /\ CallsCovered /\ RevocationExplained

-----------------------------------------------------------------------------
\* The invariant holds before the first login.
LEMMA InitInv == AccessInit => IInv
<1> SUFFICES ASSUME AccessInit PROVE IInv
  OBVIOUS
<1>1. Typed
  BY DEF AccessInit, Typed
<1>2. Handed /\ RowsSettled /\ RevocationExplained
  BY DEF AccessInit, Handed, RowsSettled, RevocationExplained, Settled
<1>3. CallsCovered
  BY DEF AccessInit, CallsCovered
<1> QED
  BY <1>1, <1>2, <1>3 DEF IInv

\* Only the type: a step leaves every variable in its set.
LEMMA TypeStep ==
  ASSUME Typed, [AccessNext]_accessVars
  PROVE  Typed'
<1> USE DEF Typed
<1>1. ASSUME NEW j \in Jtis, SignToken(j) \/ IssueUntracked(j) \/ ExpireToken(j) PROVE Typed'
  BY <1>1 DEF SignToken, IssueUntracked, ExpireToken
<1>2. ASSUME NEW j \in Jtis, InsertSession(j) PROVE Typed'
  <2>1. excuse' \in ExcuseType
    <3>1. excuse' = excuse \/ excuse' = Excuse({j}, "login overlapped")
      BY <1>2 DEF InsertSession
    <3> QED
      BY <3>1 DEF Excuse, ExcuseType
  <2>2. session' \in SessionType
    BY <1>2 DEF InsertSession, SetSessions, SessionType
  <2> QED
    BY <1>2, <2>1, <2>2 DEF InsertSession, ExcuseType, SessionType
<1>3. ASSUME NEW r \in Revokers, ListActiveJTI(r) PROVE Typed'
  <2>1. excuse' \in ExcuseType
    BY <1>3 DEF ListActiveJTI, Excuse, ExcuseType
  <2>2. session' \in SessionType
    BY <1>3 DEF ListActiveJTI, SetSessions, SessionType
  <2> QED
    BY <1>3, <2>1, <2>2 DEF ListActiveJTI, ExcuseType, SessionType, ActiveSessions
<1>4. ASSUME NEW r \in Revokers, NEW j \in Jtis, BlockJTI(r, j) PROVE Typed'
  <2>1. excuse' \in ExcuseType
    BY <1>4 DEF BlockJTI, Excuse, ExcuseType
  <2>2. session' \in SessionType
    BY <1>4 DEF BlockJTI, SetSessions, SessionType
  <2> QED
    BY <1>4, <2>1, <2>2 DEF BlockJTI, ExcuseType, SessionType
<1>5. ASSUME NEW r \in Revokers, RevokeSessions(r) \/ AbandonRevoke(r) PROVE Typed'
  <2>1. excuse' \in ExcuseType
    BY <1>5 DEF RevokeSessions, AbandonRevoke, Excuse, ExcuseType
  <2>2. session' \in SessionType
    BY <1>5 DEF RevokeSessions, AbandonRevoke, SetSessions, SessionType
  <2> QED
    BY <1>5, <2>1, <2>2 DEF RevokeSessions, AbandonRevoke, ExcuseType, SessionType, ReturnFrom
<1>6. ASSUME NEW j \in Jtis, BlockAccess(j) \/ MarkRevoked(j) PROVE Typed'
  <2>1. excuse' \in ExcuseType
    BY <1>6 DEF BlockAccess, MarkRevoked, Excuse, ExcuseType
  <2>2. session' \in SessionType
    BY <1>6 DEF BlockAccess, MarkRevoked, SetSessions, SessionType
  <2> QED
    BY <1>6, <2>1, <2>2 DEF BlockAccess, MarkRevoked, ExcuseType, SessionType
<1>7. ASSUME NEW j \in Jtis, RevokeSession(j) \/ SweepSession(j) PROVE Typed'
  <2>1. excuse' \in ExcuseType
    BY <1>7 DEF RevokeSession, SweepSession, EndSessions, Excuse, ExcuseType
  <2>2. session' \in SessionType
    BY <1>7 DEF RevokeSession, SweepSession, EndSessions, SetSessions, SessionType
  <2> QED
    BY <1>7, <2>1, <2>2 DEF RevokeSession, SweepSession, EndSessions, ExcuseType, SessionType
<1>8. CASE LogoutAll
  <2>1. excuse' \in ExcuseType
    BY <1>8 DEF LogoutAll, EndSessions, Excuse, ExcuseType
  <2>2. session' \in SessionType
    BY <1>8 DEF LogoutAll, EndSessions, SetSessions, SessionType
  <2> QED
    BY <1>8, <2>1, <2>2 DEF LogoutAll, EndSessions, ExcuseType, SessionType
<1>9. ASSUME NEW j \in Jtis, PurgeSession(j) \/ EvictJTI(j) PROVE Typed'
  BY <1>9 DEF PurgeSession, EvictJTI
<1>10. CASE UNCHANGED accessVars
  BY <1>10 DEF accessVars
<1> QED
  BY <1>1, <1>2, <1>3, <1>4, <1>5, <1>6, <1>7, <1>8, <1>9, <1>10 DEF AccessNext

-----------------------------------------------------------------------------
(* Two facts about every step: what is settled stays settled, and rows,     *)
(* blocked jtis and promises are of tokens that were handed out.            *)

\* Blocked jtis, expiry and excuses are for good.
LEMMA StaysSettled ==
  ASSUME Typed, [AccessNext]_accessVars, NEW j \in Jtis, Settled(j)
  PROVE  Settled(j)'
<1> USE DEF Typed, Settled
<1>1. ASSUME NEW i \in Jtis, SignToken(i) \/ IssueUntracked(i) \/ ExpireToken(i) PROVE Settled(j)'
  BY <1>1 DEF SignToken, IssueUntracked, ExpireToken
<1>2. ASSUME NEW i \in Jtis, InsertSession(i) PROVE Settled(j)'
  <2>1. excuse' = excuse \/ excuse' = Excuse({i}, "login overlapped")
    BY <1>2 DEF InsertSession
  <2> QED
    BY <1>2, <2>1 DEF InsertSession, Excuse
<1>3. ASSUME NEW r \in Revokers, ListActiveJTI(r) PROVE Settled(j)'
  BY <1>3 DEF ListActiveJTI, Excuse
<1>4. ASSUME NEW r \in Revokers, NEW i \in Jtis, BlockJTI(r, i) PROVE Settled(j)'
  BY <1>4 DEF BlockJTI, Excuse
<1>5. ASSUME NEW r \in Revokers, RevokeSessions(r) \/ AbandonRevoke(r) PROVE Settled(j)'
  BY <1>5 DEF RevokeSessions, AbandonRevoke
<1>6. ASSUME NEW i \in Jtis, BlockAccess(i) \/ MarkRevoked(i) PROVE Settled(j)'
  BY <1>6 DEF BlockAccess, MarkRevoked, Excuse
<1>7. ASSUME NEW i \in Jtis, RevokeSession(i) \/ SweepSession(i) PROVE Settled(j)'
  BY <1>7 DEF RevokeSession, SweepSession, EndSessions, Excuse
<1>8. CASE LogoutAll
  BY <1>8 DEF LogoutAll, EndSessions, Excuse
<1>9. ASSUME NEW i \in Jtis, PurgeSession(i) \/ EvictJTI(i) PROVE Settled(j)'
  BY <1>9 DEF PurgeSession, EvictJTI
<1>10. CASE UNCHANGED accessVars
  BY <1>10 DEF accessVars
<1> QED
  BY <1>1, <1>2, <1>3, <1>4, <1>5, <1>6, <1>7, <1>8, <1>9, <1>10 DEF AccessNext

\* Handed is kept: InsertSession hands a signed token out, later steps follow it.
LEMMA HandedStep ==
  ASSUME Typed, Handed, CallsCovered, [AccessNext]_accessVars
  PROVE  Handed'
<1> USE DEF Typed, Handed
<1>1. ASSUME NEW i \in Jtis, SignToken(i) \/ IssueUntracked(i) \/ ExpireToken(i) PROVE Handed'
  BY <1>1 DEF SignToken, IssueUntracked, ExpireToken
<1>2. ASSUME NEW i \in Jtis, InsertSession(i) PROVE Handed'
  BY <1>2 DEF InsertSession
<1>3. ASSUME NEW r \in Revokers, ListActiveJTI(r) PROVE Handed'
  BY <1>3 DEF ListActiveJTI
<1>4. ASSUME NEW r \in Revokers, NEW i \in Jtis, BlockJTI(r, i) PROVE Handed'
  <2>1. token[i] \in {"out", "expired"}
    BY <1>4 DEF BlockJTI, CallsCovered, Covered
  <2> QED
    BY <1>4, <2>1 DEF BlockJTI
<1>5. ASSUME NEW r \in Revokers, RevokeSessions(r) \/ AbandonRevoke(r) PROVE Handed'
  BY <1>5 DEF RevokeSessions, AbandonRevoke, SetSessions, ActiveSessions, CallsCovered, Covered
<1>6. ASSUME NEW i \in Jtis, BlockAccess(i) \/ MarkRevoked(i) PROVE Handed'
  BY <1>6 DEF BlockAccess, MarkRevoked, SetSessions, ActiveSessions
<1>7. ASSUME NEW i \in Jtis, RevokeSession(i) \/ SweepSession(i) PROVE Handed'
  BY <1>7 DEF RevokeSession, SweepSession, EndSessions, SetSessions
<1>8. CASE LogoutAll
  BY <1>8 DEF LogoutAll, EndSessions, SetSessions, ActiveSessions
<1>9. ASSUME NEW i \in Jtis, PurgeSession(i) \/ EvictJTI(i) PROVE Handed'
  BY <1>9 DEF PurgeSession, EvictJTI
<1>10. CASE UNCHANGED accessVars
  BY <1>10 DEF accessVars
<1> QED
  BY <1>1, <1>2, <1>3, <1>4, <1>5, <1>6, <1>7, <1>8, <1>9, <1>10 DEF AccessNext

-----------------------------------------------------------------------------
(* Rows, calls under way, and the property. *)

\* RowsSettled is kept: whoever ends a session has blocked its jti or is an excuse.
LEMMA RowsStep ==
  ASSUME Typed, Typed', Handed, RowsSettled, CallsCovered, [AccessNext]_accessVars
  PROVE  RowsSettled'
<1>1. \A j \in Jtis : Settled(j) => Settled(j)'
  BY StaysSettled
<1>2. ASSUME NEW j \in Jtis, j \in marking' PROVE Settled(j)'
  <2>1. CASE j \in marking
    BY <1>1, <2>1 DEF RowsSettled
  <2>2. CASE j \notin marking
    <3>1. BlockAccess(j)
      BY <1>2, <2>2 DEF AccessNext, accessVars, SignToken, InsertSession, IssueUntracked, ExpireToken,
        ListActiveJTI, RevokeSessions, AbandonRevoke, BlockJTI, BlockAccess, MarkRevoked,
        RevokeSession, SweepSession, EndSessions, LogoutAll, PurgeSession, EvictJTI
    <3>2. j \in blocklist' \/ excuse' = Excuse({j}, "call failed")
      BY <3>1 DEF BlockAccess
    <3> QED
      BY <3>2 DEF Settled, Excuse, Typed
  <2> QED
    BY <2>1, <2>2
<1>3. ASSUME NEW j \in Jtis, session'[j] \in {"revoked", "gone"}, ~ Settled(j) PROVE Settled(j)'
  <2> USE DEF Typed
  <2>1. session[j] \notin {"revoked", "gone"}
    BY <1>3 DEF RowsSettled
  <2>2. ASSUME NEW i \in Jtis, SignToken(i) \/ IssueUntracked(i) \/ ExpireToken(i) PROVE FALSE
    BY <1>3, <2>1, <2>2 DEF SignToken, IssueUntracked, ExpireToken
  <2>3. ASSUME NEW i \in Jtis, InsertSession(i) PROVE FALSE
    <3>1. session' = session \/ session' = [session EXCEPT ![i] = "active"]
      BY <2>3 DEF InsertSession
    <3> QED
      BY <1>3, <2>1, <3>1
  <2>4. ASSUME NEW r \in Revokers, ListActiveJTI(r) \/ AbandonRevoke(r) PROVE FALSE
    BY <1>3, <2>1, <2>4 DEF ListActiveJTI, AbandonRevoke
  <2>5. ASSUME NEW r \in Revokers, NEW i \in Jtis, BlockJTI(r, i) PROVE FALSE
    BY <1>3, <2>1, <2>5 DEF BlockJTI
  <2>6. ASSUME NEW r \in Revokers, RevokeSessions(r) PROVE FALSE
    <3>1. session[j] = "active"
      BY <1>3, <2>1, <2>6 DEF RevokeSessions, SetSessions, ActiveSessions
    <3>2. r \in revoking /\ todo[r] = {}
      BY <2>6 DEF RevokeSessions
    <3> QED
      BY <1>3, <3>1, <3>2 DEF CallsCovered, Covered
  <2>7. ASSUME NEW i \in Jtis, BlockAccess(i) \/ EvictJTI(i) PROVE FALSE
    BY <1>3, <2>1, <2>7 DEF BlockAccess, EvictJTI
  <2>8. ASSUME NEW i \in Jtis, MarkRevoked(i) PROVE FALSE
    BY <1>3, <2>1, <2>8 DEF MarkRevoked, SetSessions, RowsSettled
  <2>9. ASSUME NEW i \in Jtis, RevokeSession(i) \/ SweepSession(i) PROVE Settled(j)'
    <3>1. /\ session' = SetSessions({i}, "revoked") \/ session' = SetSessions({i}, "gone")
          /\ excuse' = Excuse({i}, "ended elsewhere")
      BY <2>9 DEF RevokeSession, SweepSession, EndSessions
    <3>2. j = i
      <4>1. CASE session' = SetSessions({i}, "revoked")
        BY <1>3, <2>1, <4>1 DEF SetSessions
      <4>2. CASE session' = SetSessions({i}, "gone")
        BY <1>3, <2>1, <4>2 DEF SetSessions
      <4> QED
        BY <3>1, <4>1, <4>2
    <3>3. excuse'[j] # "none"
      BY <3>1, <3>2 DEF Excuse
    <3> QED
      BY <3>3 DEF Settled
  <2>10. CASE LogoutAll
    BY <1>3, <2>1, <2>10 DEF LogoutAll, EndSessions, SetSessions, Excuse, Settled
  <2>11. ASSUME NEW i \in Jtis, PurgeSession(i) PROVE FALSE
    BY <1>3, <2>1, <2>11 DEF PurgeSession, Settled
  <2>12. CASE UNCHANGED accessVars
    BY <1>3, <2>1, <2>12 DEF accessVars
  <2> QED
    BY <2>2, <2>3, <2>4, <2>5, <2>6, <2>7, <2>8, <2>9, <2>10, <2>11, <2>12 DEF AccessNext
<1> QED
  BY <1>1, <1>2, <1>3 DEF RowsSettled, Typed

\* A token that was handed out stays so, and gets no row later.
LEMMA HandedForGood ==
  ASSUME Typed, [AccessNext]_accessVars, NEW j \in Jtis, token[j] \in {"out", "expired"}
  PROVE  /\ token'[j] \in {"out", "expired"}
         /\ session[j] = "none" => session'[j] = "none"
         /\ session'[j] = "active" => session[j] = "active"
<1> USE DEF Typed
<1>1. ASSUME NEW i \in Jtis, SignToken(i) \/ IssueUntracked(i) \/ ExpireToken(i)
      PROVE  token'[j] \in {"out", "expired"} /\ session' = session
  BY <1>1 DEF SignToken, IssueUntracked, ExpireToken
<1>2. ASSUME NEW i \in Jtis, InsertSession(i)
      PROVE  token'[j] \in {"out", "expired"} /\ session'[j] = session[j]
  BY <1>2 DEF InsertSession
<1>3. ASSUME NEW r \in Revokers, ListActiveJTI(r) \/ AbandonRevoke(r)
      PROVE  token' = token /\ session' = session
  BY <1>3 DEF ListActiveJTI, AbandonRevoke
<1>4. ASSUME NEW r \in Revokers, NEW i \in Jtis, BlockJTI(r, i)
      PROVE  token' = token /\ session' = session
  BY <1>4 DEF BlockJTI
<1>5. ASSUME NEW i \in Jtis, BlockAccess(i) \/ EvictJTI(i)
      PROVE  token' = token /\ session' = session
  BY <1>5 DEF BlockAccess, EvictJTI
<1>6. ASSUME NEW r \in Revokers, RevokeSessions(r)
      PROVE  token' = token /\ (session'[j] = session[j] \/ (session[j] = "active" /\ session'[j] = "revoked"))
  <2>1. token' = token /\ (session' = session \/ session' = SetSessions(ActiveSessions, "revoked"))
    BY <1>6 DEF RevokeSessions
  <2> QED
    BY <2>1 DEF SetSessions, ActiveSessions
<1>7. ASSUME NEW i \in Jtis, MarkRevoked(i)
      PROVE  token' = token /\ (session'[j] = session[j] \/ (session[j] = "active" /\ session'[j] = "revoked"))
  <2>1. token' = token /\ (session' = session \/ session' = SetSessions({i} \cap ActiveSessions, "revoked"))
    BY <1>7 DEF MarkRevoked
  <2> QED
    BY <2>1 DEF SetSessions, ActiveSessions
<1>8. ASSUME NEW i \in Jtis, RevokeSession(i) \/ SweepSession(i)
      PROVE  token' = token /\ (session'[j] = session[j] \/ (session[j] = "active" /\ session'[j] \in {"revoked", "gone"}))
  <2>1. /\ token' = token /\ session[i] = "active"
        /\ session' = SetSessions({i}, "revoked") \/ session' = SetSessions({i}, "gone")
    BY <1>8 DEF RevokeSession, SweepSession, EndSessions
  <2>2. CASE session' = SetSessions({i}, "revoked")
    BY <2>1, <2>2 DEF SetSessions
  <2>3. CASE session' = SetSessions({i}, "gone")
    BY <2>1, <2>3 DEF SetSessions
  <2> QED
    BY <2>1, <2>2, <2>3
<1>9. ASSUME LogoutAll
      PROVE  token' = token /\ (session'[j] = session[j] \/ (session[j] = "active" /\ session'[j] = "revoked"))
  <2>1. token' = token /\ session' = SetSessions(ActiveSessions, "revoked")
    BY <1>9 DEF LogoutAll, EndSessions
  <2> QED
    BY <2>1 DEF SetSessions, ActiveSessions
<1>10. ASSUME NEW i \in Jtis, PurgeSession(i)
      PROVE  token' = token /\ (session'[j] = session[j] \/ (session[j] # "none" /\ session'[j] = "gone"))
  <2>1. /\ token' = token /\ session[i] # "none"
        /\ session' = [session EXCEPT ![i] = "gone"]
    BY <1>10 DEF PurgeSession
  <2> QED
    BY <2>1
<1>11. CASE UNCHANGED accessVars
  BY <1>11 DEF accessVars
<1> QED
  BY <1>1, <1>2, <1>3, <1>4, <1>5, <1>6, <1>7, <1>8, <1>9, <1>10, <1>11 DEF AccessNext

\* A call under way began with this step, or keeps what it holds and gives up
\* only the jti it tries.
LEMMA CallUnderWay ==
  ASSUME Typed, [AccessNext]_accessVars, NEW r \in revoking'
  PROVE  \/ r \notin revoking /\ ListActiveJTI(r)
         \/ /\ r \in revoking /\ held'[r] = held[r]
            /\ todo'[r] = todo[r] \/ \E i \in Jtis : BlockJTI(r, i)
<1> USE DEF Typed
<1>1. ASSUME NEW i \in Jtis, SignToken(i) \/ InsertSession(i) \/ IssueUntracked(i) \/ ExpireToken(i)
      PROVE  revoking' = revoking /\ held' = held /\ todo' = todo
  BY <1>1 DEF SignToken, InsertSession, IssueUntracked, ExpireToken
<1>2. ASSUME NEW i \in Jtis, BlockAccess(i) \/ MarkRevoked(i) \/ PurgeSession(i) \/ EvictJTI(i)
      PROVE  revoking' = revoking /\ held' = held /\ todo' = todo
  BY <1>2 DEF BlockAccess, MarkRevoked, PurgeSession, EvictJTI
<1>3. ASSUME NEW i \in Jtis, RevokeSession(i) \/ SweepSession(i)
      PROVE  revoking' = revoking /\ held' = held /\ todo' = todo
  BY <1>3 DEF RevokeSession, SweepSession, EndSessions
<1>4. ASSUME LogoutAll \/ UNCHANGED accessVars
      PROVE  revoking' = revoking /\ held' = held /\ todo' = todo
  BY <1>4 DEF LogoutAll, EndSessions, accessVars
<1>5. ASSUME NEW q \in Revokers, ListActiveJTI(q)
      PROVE  \/ r \notin revoking /\ ListActiveJTI(r)
             \/ r \in revoking /\ held'[r] = held[r] /\ todo'[r] = todo[r]
  <2>1. CASE r = q
    BY <1>5, <2>1 DEF ListActiveJTI
  <2>2. CASE r # q
    BY <1>5, <2>2 DEF ListActiveJTI
  <2> QED
    BY <2>1, <2>2
<1>6. ASSUME NEW q \in Revokers, RevokeSessions(q) \/ AbandonRevoke(q)
      PROVE  r \in revoking /\ held'[r] = held[r] /\ todo'[r] = todo[r]
  <2>1. ReturnFrom(q)
    BY <1>6 DEF RevokeSessions, AbandonRevoke
  <2> QED
    BY <2>1 DEF ReturnFrom
<1>7. ASSUME NEW q \in Revokers, NEW i \in Jtis, BlockJTI(q, i)
      PROVE  /\ r \in revoking /\ held'[r] = held[r]
             /\ todo'[r] = todo[r] \/ BlockJTI(r, i)
  <2>1. CASE r = q
    BY <1>7, <2>1 DEF BlockJTI
  <2>2. CASE r # q
    BY <1>7, <2>2 DEF BlockJTI
  <2> QED
    BY <2>1, <2>2
<1> QED
  BY <1>1, <1>2, <1>3, <1>4, <1>5, <1>6, <1>7 DEF AccessNext

\* Only a login in the middle of the call adds an active row, and it is excused.
LEMMA RowAdded ==
  ASSUME Typed, [AccessNext]_accessVars, revoking # {},
         NEW j \in Jtis, session[j] = "none", session'[j] = "active"
  PROVE  Settled(j)'
<1> USE DEF Typed
<1>1. ASSUME NEW i \in Jtis, InsertSession(i) PROVE Settled(j)'
  <2>1. CASE session' = session
    BY <2>1
  <2>2. CASE session' = [session EXCEPT ![i] = "active"] /\ excuse' = Excuse({i}, "login overlapped")
    <3>1. j = i
      BY <2>2
    <3> QED
      BY <2>2, <3>1 DEF Excuse, Settled
  <2> QED
    BY <1>1, <2>1, <2>2 DEF InsertSession
<1>2. ASSUME NEW i \in Jtis, SignToken(i) \/ IssueUntracked(i) \/ ExpireToken(i)
               \/ BlockAccess(i) \/ EvictJTI(i)
      PROVE  FALSE
  BY <1>2 DEF SignToken, IssueUntracked, ExpireToken, BlockAccess, EvictJTI
<1>3. ASSUME NEW r \in Revokers, ListActiveJTI(r) \/ AbandonRevoke(r) PROVE FALSE
  BY <1>3 DEF ListActiveJTI, AbandonRevoke
<1>4. ASSUME NEW r \in Revokers, NEW i \in Jtis, BlockJTI(r, i) PROVE FALSE
  BY <1>4 DEF BlockJTI
<1>5. ASSUME NEW r \in Revokers, RevokeSessions(r) PROVE FALSE
  <2>1. session' = session \/ session' = SetSessions(ActiveSessions, "revoked")
    BY <1>5 DEF RevokeSessions
  <2> QED
    BY <2>1 DEF SetSessions
<1>6. ASSUME NEW i \in Jtis, MarkRevoked(i) PROVE FALSE
  <2>1. session' = session \/ session' = SetSessions({i} \cap ActiveSessions, "revoked")
    BY <1>6 DEF MarkRevoked
  <2> QED
    BY <2>1 DEF SetSessions
<1>7. ASSUME NEW i \in Jtis, RevokeSession(i) PROVE FALSE
  BY <1>7 DEF RevokeSession, EndSessions, SetSessions
<1>8. ASSUME NEW i \in Jtis, SweepSession(i) PROVE FALSE
  BY <1>8 DEF SweepSession, EndSessions, SetSessions
<1>9. ASSUME LogoutAll PROVE FALSE
  BY <1>9 DEF LogoutAll, EndSessions, SetSessions
<1>10. ASSUME NEW i \in Jtis, PurgeSession(i) PROVE FALSE
  BY <1>10 DEF PurgeSession
<1>11. ASSUME UNCHANGED accessVars PROVE FALSE
  BY <1>11 DEF accessVars
<1> QED
  BY <1>1, <1>2, <1>3, <1>4, <1>5, <1>6, <1>7, <1>8, <1>9, <1>10, <1>11 DEF AccessNext

\* CallsCovered is kept by RevokeUser's own calls and by all that runs between them.
LEMMA CoveredStep ==
  ASSUME Typed, Typed', Handed, RowsSettled, CallsCovered, [AccessNext]_accessVars
  PROVE  CallsCovered'
<1> SUFFICES ASSUME NEW r \in revoking' PROVE Covered(r)'
  BY DEF CallsCovered
<1>1. \A j \in Jtis : Settled(j) => Settled(j)'
  BY StaysSettled
<1>2. r \in Revokers
  BY DEF Typed
<1>3. CASE ListActiveJTI(r)
  <2>1. /\ token' = token /\ session' = session
        /\ held'[r] = {j \in Jtis : token[j] = "out"}
        /\ \/ todo'[r] = ActiveSessions
           \/ todo'[r] = {} /\ excuse' = Excuse(ActiveSessions, "call failed")
    BY <1>2, <1>3 DEF ListActiveJTI, Typed
  <2>2. \A j \in held'[r] \cup todo'[r] : token'[j] \in {"out", "expired"}
    BY <2>1 DEF ActiveSessions, Handed, Typed
  <2>3. ASSUME NEW j \in Jtis
        PROVE  session'[j] = "none" \/ Settled(j)' \/ j \in todo'[r]
    <3>1. CASE session[j] = "active"
      <4>1. j \in ActiveSessions
        BY <3>1 DEF ActiveSessions
      <4>2. CASE excuse' = Excuse(ActiveSessions, "call failed")
        BY <4>1, <4>2 DEF Excuse, Settled, Typed
      <4> QED
        BY <2>1, <4>1, <4>2
    <3>2. CASE session[j] \in {"revoked", "gone"}
      BY <1>1, <3>2 DEF RowsSettled
    <3> QED
      BY <2>1, <3>1, <3>2 DEF Typed
  <2> QED
    BY <2>2, <2>3 DEF Covered
<1>4. CASE /\ r \in revoking /\ held'[r] = held[r]
           /\ todo'[r] = todo[r] \/ \E i \in Jtis : BlockJTI(r, i)
  <2>1. Covered(r)
    BY <1>4 DEF CallsCovered
  <2>2. held[r] \subseteq Jtis /\ todo[r] \subseteq Jtis
    BY <1>2 DEF Typed
  <2>3. todo'[r] \subseteq todo[r]
    BY <1>2, <1>4 DEF BlockJTI, Typed
  <2>4. ASSUME NEW j \in todo[r], j \notin todo'[r] PROVE Settled(j)'
    <3>1. j \in Jtis
      BY <2>2
    <3>2. PICK i \in Jtis : BlockJTI(r, i)
      BY <1>4, <2>4
    <3>3. j = i
      BY <1>2, <2>4, <3>2 DEF BlockJTI, Typed
    <3>4. j \in blocklist' \/ excuse' = Excuse({j}, "call failed")
      BY <3>2, <3>3 DEF BlockJTI
    <3> QED
      BY <3>1, <3>4 DEF Settled, Excuse, Typed
  <2>5. \A j \in held'[r] \cup todo'[r] : token'[j] \in {"out", "expired"}
    <3> SUFFICES ASSUME NEW j \in held[r] \cup todo[r] PROVE token'[j] \in {"out", "expired"}
      BY <1>4, <2>3
    <3>1. j \in Jtis /\ token[j] \in {"out", "expired"}
      BY <2>1, <2>2 DEF Covered
    <3> QED
      BY <3>1, HandedForGood
  <2>6. ASSUME NEW j \in Jtis, j \in held'[r] \/ session'[j] = "active"
        PROVE  session'[j] = "none" \/ Settled(j)' \/ j \in todo'[r]
    <3>1. CASE token[j] \in {"out", "expired"}
      <4>1. /\ session[j] = "none" => session'[j] = "none"
            /\ session'[j] = "active" => session[j] = "active"
        BY <3>1, HandedForGood
      <4>2. session[j] = "none" \/ Settled(j) \/ j \in todo[r]
        BY <1>4, <2>1, <2>6, <4>1 DEF Covered
      <4> QED
        BY <1>1, <2>4, <4>1, <4>2
    <3>2. CASE token[j] \in {"none", "signed"}
      <4>1. session[j] = "none" /\ j \notin held[r]
        BY <2>1, <3>2 DEF Handed, Covered
      <4>2. session'[j] = "active" /\ revoking # {}
        BY <1>4, <2>6, <4>1
      <4> QED
        BY <4>1, <4>2, RowAdded
    <3> QED
      BY <3>1, <3>2 DEF Typed
  <2> QED
    BY <2>5, <2>6 DEF Covered
<1> QED
  BY <1>3, <1>4, CallUnderWay

\* When RevokeUser returns, its list is empty, so what it held is settled.
LEMMA ExplainedStep ==
  ASSUME Typed, Handed, CallsCovered, RowsSettled, RevocationExplained,
         Typed', [AccessNext]_accessVars
  PROVE  RevocationExplained'
<1> SUFFICES ASSUME NEW j \in promised', Accepted(j)', session'[j] # "none"
             PROVE  excuse'[j] # "none"
  BY DEF RevocationExplained
<1>1. j \in Jtis /\ token'[j] # "expired" /\ j \notin blocklist'
  BY DEF Accepted, Typed
<1>2. token[j] \in {"out", "expired"} /\ (session[j] = "none" \/ Settled(j))
  <2>1. CASE j \in promised
    BY <1>1, <2>1 DEF RevocationExplained, Accepted, Settled, Handed
  <2>2. CASE j \notin promised
    <3>1. PICK r \in Revokers : RevokeSessions(r) /\ j \in held[r]
      BY <2>2 DEF AccessNext, accessVars, SignToken, InsertSession, IssueUntracked, ExpireToken,
        ListActiveJTI, RevokeSessions, AbandonRevoke, BlockJTI, BlockAccess, MarkRevoked,
        RevokeSession, SweepSession, EndSessions, LogoutAll, PurgeSession, EvictJTI
    <3>2. Covered(r) /\ todo[r] = {}
      BY <3>1 DEF RevokeSessions, CallsCovered
    <3> QED
      BY <1>1, <3>1, <3>2 DEF Covered
  <2> QED
    BY <2>1, <2>2
<1>3. Settled(j)
  BY <1>1, <1>2, HandedForGood
<1>4. Settled(j)'
  BY <1>1, <1>3, StaysSettled
<1> QED
  BY <1>1, <1>4 DEF Settled

-----------------------------------------------------------------------------
\* The invariant holds in every reachable state of AccessRevocation, for any
\* set of tokens and any number of overlapping RevokeUser calls.
THEOREM Invariance == AccessSpec => []IInv
<1>1. IInv /\ [AccessNext]_accessVars => IInv'
  <2> SUFFICES ASSUME IInv, [AccessNext]_accessVars PROVE IInv'
    OBVIOUS
  <2>1. Typed'
    BY TypeStep DEF IInv
  <2>2. Handed'
    BY HandedStep DEF IInv
  <2>3. RowsSettled'
    BY <2>1, RowsStep DEF IInv
  <2>4. CallsCovered'
    BY <2>1, CoveredStep DEF IInv
  <2>5. RevocationExplained'
    BY <2>1, ExplainedStep DEF IInv
  <2> QED
    BY <2>1, <2>2, <2>3, <2>4, <2>5 DEF IInv
<1> QED
  BY <1>1, InitInv, PTL DEF AccessSpec

\* Every step of the grants, of RevokeUser, of the other ways to end sessions
\* and of the clean-ups leaves rows, blocklist and calls well formed, with no row
\* for a token that is not out yet.
THEOREM TypeCorrect == AccessSpec => []AccessTypeOK
<1>1. IInv => AccessTypeOK
  BY DEF IInv, Typed, Handed, AccessTypeOK
<1> QED
  BY <1>1, Invariance, PTL

\* RevokeUser keeps its promise except for the tokens RevocationExplained
\* names, whatever logins, other revocations, failing stores and clean-ups
\* run beside it.
THEOREM Explained == AccessSpec => []RevocationExplained
<1>1. IInv => RevocationExplained
  BY DEF IInv
<1> QED
  BY <1>1, Invariance, PTL
=============================================================================
