----------------------- MODULE RefreshRotation_proofs -----------------------
(***************************************************************************)
(* Theorems about RefreshRotation, for all values of its constants.        *)
(* 1. Type correctness.  2. The four kinds of steps, seen from who may     *)
(* still extend a family.  3. The inductive invariant IInv, one lemma per  *)
(* conjunct.  4. The theorems that follow from it.  5. Families that are   *)
(* extinct, and the response to reuse.  6. The user's status.  7. The      *)
(* theft flag of the family registry.                                      *)
(***************************************************************************)
EXTENDS RefreshRotation, TLAPS

\* The rows there from before the migration are usable and well-formed.
LEMMA OldRows ==
  Init => /\ status \in [Tokens -> {"live", "absent"}]
          /\ rec \in [Tokens -> OldRecord \cup {None}]
          /\ \A t \in Tokens : status[t] # "absent" => status[t] = "live" /\ rec[t] \in OldRecord
  <1> SUFFICES ASSUME Init
               PROVE /\ status \in [Tokens -> {"live", "absent"}]
                     /\ rec \in [Tokens -> OldRecord \cup {None}]
                     /\ \A t \in Tokens : status[t] # "absent" =>
                          status[t] = "live" /\ rec[t] \in OldRecord
    OBVIOUS
  <1>1. PICK there \in SUBSET Legacy : \E old \in [there -> OldRecord] :
          /\ rec = [t \in Tokens |-> IF t \in there THEN old[t] ELSE None]
          /\ status = [t \in Tokens |-> IF t \in there THEN "live" ELSE "absent"]
    BY DEF Init
  <1>2. PICK old \in [there -> OldRecord] :
          rec = [t \in Tokens |-> IF t \in there THEN old[t] ELSE None]
    BY <1>1
  <1> QED
    BY <1>1, <1>2

\* Type correctness holds at the start.
LEMMA TypeInit == Init => TypeOK
  <1> SUFFICES ASSUME Init PROVE TypeOK
    OBVIOUS
  <1>1. /\ rec \in [Tokens -> Record \cup {None}]
        /\ \A t \in Tokens : status[t] # "absent" => rec[t] \in Record
    <2>1. OldRecord \subseteq Record
      BY DEF Record, OldRecord
    <2> QED
      BY <2>1, OldRows
  <1> USE ConstantsAssumption DEF Init
  <1>2. registry \in [Tokens -> FamilyData] /\ snap \in [Requests -> FamilyData]
    BY DEF NewFamily, FamilyData
  <1>3. status \in [Tokens -> Status] /\ pc \in [Requests -> Steps]
    BY OldRows DEF Status, RowStates, Steps
  <1>4. faults \in 0..MaxFaults
    OBVIOUS
  <1> QED
    BY <1>1, <1>2, <1>3, <1>4 DEF TypeOK

\* Types survive the start of a request (grant_refresh.go, steps 1 to 3).
LEMMA TypeStart ==
  ASSUME TypeOK, NEW p \in Requests, NEW c \in Clients, NEW t \in Tokens, StartRefresh(p, c, t)
  PROVE TypeOK'
  BY DEF TypeOK, StartRefresh, Goto, Steps, storeVars, worldVars, histVars

\* Types survive every later call of the handler RefreshToken.
LEMMA TypeHandler ==
  ASSUME TypeOK, NEW p \in Requests, Handler(p)
  PROVE TypeOK'
  <1>a. NewFamily \in FamilyData
    BY DEF NewFamily, FamilyData
  <1> USE <1>a DEF TypeOK, Goto, Steps, storeVars, worldVars, histVars, Return, Continue, Tok
  <1>0. FamilyOf(Tok(p)) \in Tokens \/ pc[p] = "idle"
    BY DEF FamilyOf, Record
  <1>1. CASE LookupForeign(p) BY <1>1 DEF LookupForeign
  <1>2. CASE LookupReused(p) BY <1>0, <1>2 DEF LookupReused, ReuseDetected
  <1>3. CASE LookupLive(p) BY <1>3 DEF LookupLive
  <1>4. CASE LookupAuthKey(p)
    <2>1. CASE Continue(p, "authrow") BY <1>4, <2>1 DEF LookupAuthKey
    <2>2. CASE Return(p) BY <1>4, <2>2 DEF LookupAuthKey
    <2> QED BY <1>4, <2>1, <2>2 DEF LookupAuthKey
  <1>5. CASE LookupAuthRow(p)
    <2>1. CASE Continue(p, "user") BY <1>5, <2>1 DEF LookupAuthRow
    <2>2. CASE Return(p) BY <1>5, <2>2 DEF LookupAuthRow
    <2> QED BY <1>5, <2>1, <2>2 DEF LookupAuthRow
  <1>6. CASE CheckUser(p) BY <1>6, ConstantsAssumption DEF CheckUser, Fault, NoFault
  <1>7. CASE RevokeStale(p)
    BY <1>7, ConstantsAssumption DEF RevokeStale, Fault, NoFault, Status, RowStates
  <1>8. CASE ConsumeWins(p) BY <1>8 DEF ConsumeWins, Status, RowStates
  <1>9. CASE ConsumeMisses(p) BY <1>0, <1>9 DEF ConsumeMisses, ReuseDetected
  <1>10. CASE ConsumeFails(p) BY <1>10, ConstantsAssumption DEF ConsumeFails, Fault
  <1>11. ASSUME NEW n \in Tokens, StoreRotated(p, n) PROVE TypeOK'
    BY <1>0, <1>11 DEF StoreRotated, Status, RowStates, Record
  <1>12. CASE StoreFails(p) BY <1>12, ConstantsAssumption DEF StoreFails, Fault
  <1>13. CASE RegisterRotationGet(p)
    BY <1>0, <1>13, ConstantsAssumption DEF RegisterRotationGet, ReadFamily, Fault, NoFault
  <1>b. ASSUME NEW data \in FamilyData
        PROVE  (Tok(p) \in Tokens => Rotated(data, Tok(p)) \in FamilyData) /\ Stolen(data) \in FamilyData
    BY DEF Rotated, Stolen, FamilyData
  <1>14. CASE RegisterRotationPut(p)
    BY <1>0, <1>b, <1>14, ConstantsAssumption
    DEF RegisterRotationPut, WriteFamily, Fault, NoFault
  <1>15. CASE MarkTheftGet(p)
    BY <1>0, <1>15, ConstantsAssumption DEF MarkTheftGet, ReadFamily, Fault, NoFault
  <1>16. CASE MarkTheftPut(p)
    BY <1>0, <1>b, <1>16, ConstantsAssumption DEF MarkTheftPut, WriteFamily, Fault, NoFault
  <1>17. CASE RevokeFamily(p) BY <1>17 DEF RevokeFamily, RevokeRows, Status, RowStates
  <1>18. CASE RevokeClientWide(p)
    BY <1>18, ConstantsAssumption
    DEF RevokeClientWide, RevokeRows, Status, RowStates, Fault, NoFault
  <1>19. CASE RevokeFails(p) BY <1>19, ConstantsAssumption DEF RevokeFails, Fault
  <1>20. CASE LookupFails(p) BY <1>20, ConstantsAssumption DEF LookupFails, Fault
  <1> QED
    BY <1>1, <1>2, <1>3, <1>4, <1>5, <1>6, <1>7, <1>8, <1>9, <1>10, <1>11, <1>12,
       <1>13, <1>14, <1>15, <1>16, <1>17, <1>18, <1>19, <1>20 DEF Handler

\* Types survive the other operations on the stores: grants, logins,
\* revocations, the cleanup and administration.
LEMMA TypeEnvironment ==
  ASSUME TypeOK, Environment
  PROVE TypeOK'
  <1> USE DEF TypeOK, storeVars, worldVars, histVars, localVars, Tok
  <1>1. ASSUME NEW n \in Tokens, NEW u \in Users, AuthLogin(u, n) PROVE TypeOK'
    BY <1>1 DEF AuthLogin, Status, Record
  <1>2. ASSUME NEW n \in Tokens, NEW u \in Users, NEW c \in Clients, IssueRoot(c, u, n)
        PROVE TypeOK'
    BY <1>2 DEF IssueRoot, Status, RowStates, Record
  <1>3. ASSUME NEW t \in Tokens, RevokeToken(t) PROVE TypeOK'
    BY <1>3, ConstantsAssumption DEF RevokeToken, Fault, NoFault, Status, RowStates
  <1>4. ASSUME NEW t \in Tokens, Expire(t) PROVE TypeOK'
    BY <1>4 DEF Expire
  <1>5. ASSUME NEW u \in Users, RevokeUser(u) PROVE TypeOK'
    BY <1>5 DEF RevokeUser, RevokeAuthRows, Status, RowStates
  <1>6. ASSUME NEW u \in Users, DeactivateUser(u) \/ ActivateUser(u) \/ DeleteAccount(u)
        PROVE TypeOK'
    BY <1>6, ConstantsAssumption
    DEF DeactivateUser, RevokeAuthRows, ActivateUser, DeleteAccount, Fault, NoFault, Status
  <1>7. ASSUME NEW c \in Clients, DisableClient(c) \/ EnableClient(c) \/ DeleteClient(c)
        PROVE TypeOK'
    BY <1>7 DEF DisableClient, EnableClient, DeleteClient
  <1>8. ASSUME NEW S, \A t \in S : status[t] \notin {"absent", "deleted"}, DeleteRows(S),
               enabled' \subseteq enabled, activeUsers' \subseteq activeUsers, revokedAt' = revokedAt
        PROVE  TypeOK'
    BY <1>8 DEF DeleteRows, Status
  <1>9. ASSUME CleanupOidcRows \/ CleanupAuthRows \/ \E u \in Users : DeleteUser(u)
        PROVE  TypeOK'
    BY <1>8, <1>9 DEF CleanupOidcRows, CleanupAuthRows, DeleteUser,
                     PastRetention, RowStates
  <1> QED
    BY <1>1, <1>2, <1>3, <1>4, <1>5, <1>6, <1>7, <1>9 DEF Environment

\* Types survive every step.
LEMMA TypeNext == TypeOK /\ [Next]_vars => TypeOK'
  <1> SUFFICES ASSUME TypeOK, [Next]_vars PROVE TypeOK'
    OBVIOUS
  <1>1. CASE UNCHANGED vars
    BY <1>1 DEF vars, TypeOK
  <1> QED
    BY <1>1, TypeStart, TypeHandler, TypeEnvironment DEF Next

\* Type correctness, for every value of the constants.
THEOREM TypeCorrect == Spec => []TypeOK
  BY TypeInit, TypeNext, PTL DEF Spec

-----------------------------------------------------------------------------
(***************************************************************************)
(* Every step is one of four kinds, seen from who holds a family: it adds  *)
(* no holder, it hands a token's family to the request that won the token, *)
(* it hands a request's family to the token it stores, or it roots a       *)
(* family nobody has seen.                                                 *)
(***************************************************************************)
Kept == \A t \in Tokens : status[t] # "absent" => status'[t] # "absent" /\ rec'[t] = rec[t]

NoneDrawn == \A t \in Tokens : status[t] = "absent" => status'[t] = "absent"

OnlyDrawn(n) ==
  /\ status[n] = "absent" /\ status'[n] # "absent"
  /\ \A t \in Tokens : t # n /\ status[t] = "absent" => status'[t] = "absent"

QuietStep ==
  /\ Kept /\ NoneDrawn
  /\ \A t \in Tokens : TokenHolds(t)' => TokenHolds(t)
  /\ \A q \in Requests : RequestHolds(q)' => RequestHolds(q) /\ arg'[q] = arg[q]
  /\ parent' = parent

TakeStep(p) ==
  /\ Kept /\ NoneDrawn
  /\ TokenHolds(Tok(p)) /\ pc[p] # "idle"
  /\ \A t \in Tokens : TokenHolds(t)' => TokenHolds(t) /\ t # Tok(p)
  /\ \A q \in Requests : RequestHolds(q)' => RequestHolds(q) \/ q = p
  /\ arg' = arg
  /\ parent' = parent

GiveStep(p, n) ==
  /\ Kept /\ OnlyDrawn(n)
  /\ RequestHolds(p)
  /\ rec'[n] = [client |-> arg[p].client, user |-> rec[Tok(p)].user,
                family |-> FamilyOf(Tok(p)), stamped |-> FALSE]
  /\ \A t \in Tokens : TokenHolds(t)' => TokenHolds(t) \/ t = n
  /\ \A q \in Requests : RequestHolds(q)' => RequestHolds(q) /\ q # p
  /\ arg' = arg
  /\ parent' = [parent EXCEPT ![n] = Tok(p)]

FreshStep(n) ==
  /\ Kept /\ OnlyDrawn(n)
  /\ FamilyOf(n)' = n
  /\ \A t \in Tokens : TokenHolds(t)' => TokenHolds(t) \/ t = n
  /\ \A q \in Requests : RequestHolds(q)' => RequestHolds(q)
  /\ arg' = arg
  /\ parent' = parent

\* The handler's steps that concern neither a winner nor a new token.
LEMMA QuietHandler ==
  ASSUME IInv, NEW p \in Requests,
         \/ LookupForeign(p) \/ LookupReused(p) \/ LookupLive(p) \/ LookupAuthRow(p)
         \/ LookupFails(p) \/ CheckUser(p) \/ RevokeStale(p) \/ ConsumeMisses(p) \/ ConsumeFails(p)
         \/ StoreFails(p)
         \/ RegisterRotationGet(p) \/ RegisterRotationPut(p)
         \/ MarkTheftGet(p) \/ MarkTheftPut(p)
         \/ RevokeFamily(p) \/ RevokeClientWide(p) \/ RevokeFails(p)
  PROVE QuietStep
  <1> USE DEF IInv, TypeOK, Goto, Return, Continue, storeVars, worldVars, histVars, Tok,
              QuietStep, Kept, NoneDrawn, TokenHolds, RequestHolds, FromAuthStore
  <1>1. CASE LookupForeign(p) BY <1>1 DEF LookupForeign
  <1>2. CASE LookupReused(p) BY <1>2 DEF LookupReused, ReuseDetected
  <1>3. CASE LookupLive(p)
    BY <1>3, ConstantsAssumption DEF LookupLive
  <1>4. CASE LookupAuthRow(p)
    <2>1. CASE Continue(p, "user") BY <1>4, <2>1 DEF LookupAuthRow
    <2>2. CASE Return(p) BY <1>4, <2>2 DEF LookupAuthRow
    <2> QED BY <1>4, <2>1, <2>2 DEF LookupAuthRow
  <1>5. CASE CheckUser(p) BY <1>5 DEF CheckUser
  <1>6. CASE RevokeStale(p) BY <1>6 DEF RevokeStale
  <1>7. CASE ConsumeMisses(p)
    <2>1. CASE FromAuthStore(Tok(p)) BY <1>7, <2>1 DEF ConsumeMisses
    <2>2. CASE ~FromAuthStore(Tok(p)) BY <1>7, <2>2 DEF ConsumeMisses, ReuseDetected
    <2> QED BY <2>1, <2>2
  <1>8. CASE ConsumeFails(p) BY <1>8 DEF ConsumeFails
  <1>9. CASE StoreFails(p) BY <1>9 DEF StoreFails
  <1>10. CASE RegisterRotationGet(p) BY <1>10 DEF RegisterRotationGet, ReadFamily
  <1>11. CASE RegisterRotationPut(p) BY <1>11 DEF RegisterRotationPut
  <1>12. CASE MarkTheftGet(p) BY <1>12 DEF MarkTheftGet, ReadFamily
  <1>13. CASE MarkTheftPut(p) BY <1>13 DEF MarkTheftPut
  <1>14. CASE RevokeFamily(p) BY <1>14 DEF RevokeFamily, RevokeRows
  <1>15. CASE RevokeClientWide(p) BY <1>15 DEF RevokeClientWide, RevokeRows
  <1>16. CASE RevokeFails(p) BY <1>16 DEF RevokeFails
  <1>17. CASE LookupFails(p) BY <1>17 DEF LookupFails
  <1> QED
    BY <1>1, <1>2, <1>3, <1>4, <1>5, <1>6, <1>7, <1>8, <1>9, <1>10, <1>11, <1>12,
       <1>13, <1>14, <1>15, <1>16, <1>17

\* Winning a token: the conditional UPDATE and GETDEL.
LEMMA TakeHandler ==
  ASSUME IInv, NEW p \in Requests, ConsumeWins(p) \/ LookupAuthKey(p)
  PROVE QuietStep \/ TakeStep(p)
  <1> USE DEF IInv, TypeOK, Goto, Return, Continue, storeVars, worldVars, histVars, Tok,
              Kept, NoneDrawn, TokenHolds, RequestHolds, FromAuthStore
  <1>1. CASE ConsumeWins(p)
    BY <1>1, ConstantsAssumption DEF ConsumeWins, TakeStep, StoreShape, RowStates
  <1>2. CASE LookupAuthKey(p) /\ Tok(p) \in authKey
    BY <1>2 DEF LookupAuthKey, TakeStep, StoreShape, RowStates
  <1>3. CASE LookupAuthKey(p) /\ Tok(p) \notin authKey
    BY <1>3 DEF LookupAuthKey, QuietStep
  <1> QED BY <1>1, <1>2, <1>3

\* StoreRefreshToken hands the family from the request to its new token.
LEMMA GiveHandler ==
  ASSUME IInv, NEW p \in Requests, NEW n \in Tokens, StoreRotated(p, n)
  PROVE GiveStep(p, n)
  <1> USE DEF IInv, TypeOK, Goto, Continue, worldVars, histVars, Tok, TokenHolds
  <1>1. Kept /\ OnlyDrawn(n)
    BY DEF StoreRotated, Kept, OnlyDrawn
  <1>2. \A q \in Requests : RequestHolds(q)' => RequestHolds(q) /\ q # p
    BY <1>1 DEF StoreRotated, RequestHolds, FromAuthStore, Kept
  <1> QED
    BY <1>1, <1>2 DEF GiveStep, StoreRotated, RequestHolds

\* The other operations root a family or add no holder.
LEMMA EnvironmentHolders ==
  ASSUME IInv, Environment
  PROVE QuietStep \/ \E n \in Tokens : FreshStep(n)
  <1> USE DEF IInv, TypeOK, storeVars, worldVars, histVars, localVars, Tok,
              TokenHolds, Kept, NoneDrawn
  <1>1. ASSUME NEW n \in Tokens, NEW u \in Users, AuthLogin(u, n) PROVE FreshStep(n)
    BY <1>1 DEF AuthLogin, FreshStep, OnlyDrawn, FamilyOf, RequestHolds, FromAuthStore
  <1>2. ASSUME NEW n \in Tokens, NEW u \in Users, NEW c \in Clients, IssueRoot(c, u, n)
        PROVE FreshStep(n)
    BY <1>2 DEF IssueRoot, FreshStep, OnlyDrawn, FamilyOf, RequestHolds, FromAuthStore
  <1> USE DEF QuietStep, RequestHolds, FromAuthStore
  <1>3. ASSUME NEW t \in Tokens, RevokeToken(t) PROVE QuietStep
    BY <1>3 DEF RevokeToken
  <1>4. ASSUME NEW t \in Tokens, Expire(t) PROVE QuietStep
    BY <1>4 DEF Expire
  <1>5. ASSUME NEW u \in Users, RevokeUser(u) PROVE QuietStep
    BY <1>5 DEF RevokeUser, RevokeAuthRows
  <1>6. ASSUME NEW u \in Users, DeactivateUser(u) \/ ActivateUser(u) \/ DeleteAccount(u)
        PROVE QuietStep
    BY <1>6 DEF DeactivateUser, RevokeAuthRows, ActivateUser, DeleteAccount
  <1>7. ASSUME NEW c \in Clients, DisableClient(c) \/ EnableClient(c) \/ DeleteClient(c)
        PROVE QuietStep
    BY <1>7 DEF DisableClient, EnableClient, DeleteClient
  <1>8. ASSUME NEW S, \A t \in S : status[t] \notin {"absent", "deleted"}, DeleteRows(S),
               enabled' \subseteq enabled, activeUsers' \subseteq activeUsers, revokedAt' = revokedAt
        PROVE  QuietStep
    BY <1>8 DEF DeleteRows
  <1>9. ASSUME CleanupOidcRows \/ CleanupAuthRows \/ \E u \in Users : DeleteUser(u)
        PROVE  QuietStep
    BY <1>8, <1>9 DEF CleanupOidcRows, CleanupAuthRows, DeleteUser,
                     PastRetention, RowStates
  <1> HIDE DEF QuietStep
  <1> QED
    BY <1>1, <1>2, <1>3, <1>4, <1>5, <1>6, <1>7, <1>9 DEF Environment

\* Every step is of one of the four kinds.
LEMMA StepKinds ==
  ASSUME IInv, [Next]_vars
  PROVE \/ QuietStep
        \/ \E p \in Requests : TakeStep(p)
        \/ \E p \in Requests, n \in Tokens : GiveStep(p, n)
        \/ \E n \in Tokens : FreshStep(n)
  <1>1. ASSUME NEW p \in Requests, NEW c \in Clients, NEW t \in Tokens, StartRefresh(p, c, t)
        PROVE QuietStep
    BY <1>1 DEF StartRefresh, IInv, TypeOK, Goto, storeVars, worldVars, histVars, Tok,
                QuietStep, Kept, NoneDrawn, TokenHolds, RequestHolds, FromAuthStore
  <1>2. CASE UNCHANGED vars
    BY <1>2 DEF vars, QuietStep, Kept, NoneDrawn, TokenHolds, RequestHolds, FromAuthStore, Tok
  <1> QED
    BY <1>1, <1>2, QuietHandler, TakeHandler, GiveHandler, EnvironmentHolders DEF Next, Handler

-----------------------------------------------------------------------------
(* What the invariant says of holders, for use below. *)
LEMMA HolderFacts ==
  ASSUME TypeOK, StoreShape
  PROVE /\ \A t \in Tokens : TokenHolds(t) => status[t] # "absent"
        /\ \A t \in Tokens : status[t] # "absent" => FamilyOf(t) \in Tokens
        /\ \A p \in Requests : RequestHolds(p) => Tok(p) \in Tokens /\ status[Tok(p)] # "absent"
  BY DEF TypeOK, StoreShape, TokenHolds, RequestHolds, Tok, FamilyOf, Record

\* Family and origin of a drawn token never change.
LEMMA FamilyKept ==
  ASSUME Kept
  PROVE \A t \in Tokens : status[t] # "absent" =>
          FamilyOf(t)' = FamilyOf(t) /\ FromAuthStore(t)' = FromAuthStore(t)
  BY DEF Kept, FamilyOf, FromAuthStore

\* No step gives a family a second holder.
LEMMA OneHolderNext ==
  ASSUME IInv, [Next]_vars
  PROVE OneHolder'
  <1> USE HolderFacts, FamilyKept DEF IInv
  <1>1. CASE QuietStep
    BY <1>1 DEF QuietStep, OneHolder, Tok
  <1>2. ASSUME NEW p \in Requests, TakeStep(p) PROVE OneHolder'
    BY <1>2 DEF TakeStep, OneHolder, Tok, TypeOK
  <1>3. ASSUME NEW p \in Requests, NEW n \in Tokens, GiveStep(p, n) PROVE OneHolder'
    <2>1. FamilyOf(n)' = FamilyOf(Tok(p))
      BY <1>3, ConstantsAssumption DEF GiveStep, FamilyOf
    <2> QED
      BY <1>3, <2>1 DEF GiveStep, OnlyDrawn, OneHolder, Tok
  <1>4. ASSUME NEW n \in Tokens, FreshStep(n) PROVE OneHolder'
    BY <1>4 DEF FreshStep, OnlyDrawn, OneHolder, Tok, StoreShape
  <1> QED
    BY <1>1, <1>2, <1>3, <1>4, StepKinds

\* No step makes a rotated token exchangeable again.
LEMMA SpentNext ==
  ASSUME IInv, [Next]_vars
  PROVE Spent' /\ SingleRotation'
  <1> USE HolderFacts, FamilyKept DEF IInv, Spent, SingleRotation
  <1>0. \A n \in Tokens : parent[n] # None => parent[n] \in Tokens
    BY DEF TypeOK
  <1>1. CASE QuietStep
    BY <1>0, <1>1 DEF QuietStep, Kept, Tok
  <1>2. ASSUME NEW p \in Requests, TakeStep(p) PROVE Spent' /\ SingleRotation'
    BY <1>0, <1>2 DEF TakeStep, Kept, Tok
  <1>3. ASSUME NEW p \in Requests, NEW n \in Tokens, GiveStep(p, n)
        PROVE  Spent' /\ SingleRotation'
    <2>1. /\ \A t \in Tokens : t = Tok(p) => ~TokenHolds(t)' /\ t # n
          /\ \A q \in Requests : RequestHolds(q)' => Tok(q) # Tok(p)
      BY <1>3 DEF GiveStep, OnlyDrawn, OneHolder
    <2>2. /\ parent'[n] = Tok(p)
          /\ \A m \in Tokens : m # n => parent'[m] = parent[m]
          /\ \A m \in Tokens : parent[m] # None => parent[m] # n /\ parent[m] # Tok(p)
      <3>1. parent \in [Tokens -> Tokens \cup {None}]
        BY DEF TypeOK
      <3> QED
        BY <3>1, <1>3 DEF GiveStep, OnlyDrawn
    <2>3. Tok(p) \in Tokens /\ status'[Tok(p)] # "absent" /\ status'[n] # "absent"
      BY <1>3 DEF GiveStep, OnlyDrawn, Kept
    <2>4. SingleRotation'
      BY <2>2
    <2>5. Spent'
      BY <1>0, <1>3, <2>1, <2>2, <2>3 DEF GiveStep, OnlyDrawn, Kept, Tok
    <2> QED BY <2>4, <2>5
  <1>4. ASSUME NEW n \in Tokens, FreshStep(n) PROVE Spent' /\ SingleRotation'
    BY <1>0, <1>4 DEF FreshStep, OnlyDrawn, Kept, Tok
  <1> QED
    BY <1>1, <1>2, <1>3, <1>4, StepKinds

\* Rows keep to their store: by action, as the status column is what changes.
LEMMA StoreShapeNext ==
  ASSUME IInv, [Next]_vars
  PROVE StoreShape'
  <1> USE DEF IInv, TypeOK, StoreShape, RowStates, FromAuthStore, FamilyOf, Record, Tok, Goto,
              Return, Continue, storeVars, worldVars, histVars, localVars
  <1>1. ASSUME NEW p \in Requests, NEW c \in Clients, NEW t \in Tokens, StartRefresh(p, c, t)
        PROVE StoreShape'
    BY <1>1 DEF StartRefresh
  <1>2. ASSUME NEW p \in Requests, Handler(p) PROVE StoreShape'
    <2>1. CASE LookupForeign(p) BY <2>1 DEF LookupForeign
    <2>2. CASE LookupReused(p) BY <2>2 DEF LookupReused, ReuseDetected
    <2>3. CASE LookupLive(p) BY <2>3 DEF LookupLive
    <2>4. CASE LookupAuthKey(p)
      <3>1. CASE Tok(p) \in authKey BY <2>4, <3>1 DEF LookupAuthKey
      <3>2. CASE Tok(p) \notin authKey BY <2>4, <3>2 DEF LookupAuthKey
      <3> QED BY <3>1, <3>2
    <2>5. CASE LookupAuthRow(p)
      <3>1. CASE Continue(p, "user") BY <2>5, <3>1 DEF LookupAuthRow
      <3>2. CASE Return(p) BY <2>5, <3>2 DEF LookupAuthRow
      <3> QED BY <2>5, <3>1, <3>2 DEF LookupAuthRow
    <2>6. CASE CheckUser(p) BY <2>6 DEF CheckUser
    <2>7. CASE RevokeStale(p) BY <2>7 DEF RevokeStale
    <2>8. CASE ConsumeWins(p) BY <2>8 DEF ConsumeWins
    <2>9. CASE ConsumeMisses(p) BY <2>9 DEF ConsumeMisses, ReuseDetected
    <2>10. CASE ConsumeFails(p) BY <2>10 DEF ConsumeFails
    <2>11. ASSUME NEW n \in Tokens, StoreRotated(p, n) PROVE StoreShape'
      BY <2>11, ConstantsAssumption DEF StoreRotated
    <2>12. CASE StoreFails(p) BY <2>12 DEF StoreFails
    <2>13. CASE RegisterRotationGet(p) BY <2>13 DEF RegisterRotationGet, ReadFamily
    <2>14. CASE RegisterRotationPut(p) BY <2>14 DEF RegisterRotationPut
    <2>15. CASE MarkTheftGet(p) BY <2>15 DEF MarkTheftGet, ReadFamily
    <2>16. CASE MarkTheftPut(p) BY <2>16 DEF MarkTheftPut
    <2>17. CASE RevokeFamily(p) BY <2>17 DEF RevokeFamily, RevokeRows
    <2>18. CASE RevokeClientWide(p) BY <2>18 DEF RevokeClientWide, RevokeRows
    <2>19. CASE RevokeFails(p) BY <2>19 DEF RevokeFails
    <2>20. CASE LookupFails(p) BY <2>20 DEF LookupFails
    <2> QED
      BY <1>2, <2>1, <2>2, <2>3, <2>4, <2>5, <2>6, <2>7, <2>8, <2>9, <2>10, <2>11, <2>12,
         <2>13, <2>14, <2>15, <2>16, <2>17, <2>18, <2>19, <2>20 DEF Handler
  <1>3. CASE Environment
    <2>1. ASSUME NEW n \in Tokens, NEW u \in Users, AuthLogin(u, n) PROVE StoreShape'
      BY <2>1 DEF AuthLogin
    <2>2. ASSUME NEW n \in Tokens, NEW u \in Users, NEW c \in Clients, IssueRoot(c, u, n)
          PROVE StoreShape'
      BY <2>2, ConstantsAssumption DEF IssueRoot
    <2>3. ASSUME NEW t \in Tokens, RevokeToken(t) PROVE StoreShape'
      BY <2>3 DEF RevokeToken
    <2>4. ASSUME NEW t \in Tokens, Expire(t) PROVE StoreShape'
      BY <2>4 DEF Expire
    <2>5. ASSUME NEW u \in Users, RevokeUser(u) PROVE StoreShape'
      BY <2>5 DEF RevokeUser, RevokeAuthRows
    <2>6. ASSUME NEW u \in Users, DeactivateUser(u) \/ ActivateUser(u) \/ DeleteAccount(u)
          PROVE StoreShape'
      BY <2>6 DEF DeactivateUser, RevokeAuthRows, ActivateUser, DeleteAccount
    <2>7. ASSUME NEW c \in Clients, DisableClient(c) \/ EnableClient(c) \/ DeleteClient(c)
          PROVE StoreShape'
      BY <2>7 DEF DisableClient, EnableClient, DeleteClient
    <2>8. ASSUME NEW S, \A t \in S : status[t] \notin {"absent", "deleted"}, DeleteRows(S),
                 enabled' \subseteq enabled, activeUsers' \subseteq activeUsers, revokedAt' = revokedAt
          PROVE  StoreShape'
      BY <2>8 DEF DeleteRows
    <2>9. ASSUME CleanupOidcRows \/ CleanupAuthRows \/ \E u \in Users : DeleteUser(u)
          PROVE  StoreShape'
      BY <2>8, <2>9 DEF CleanupOidcRows, CleanupAuthRows, DeleteUser,
                     PastRetention, RowStates
    <2> QED
      BY <1>3, <2>1, <2>2, <2>3, <2>4, <2>5, <2>6, <2>7, <2>9 DEF Environment
  <1>4. CASE UNCHANGED vars
    BY <1>4 DEF vars
  <1> QED
    BY <1>1, <1>2, <1>3, <1>4 DEF Next

\* A request gets past the lookup only with its own client's token.
LEMMA ClientBoundNext ==
  ASSUME IInv, [Next]_vars
  PROVE ClientBound'
  <1>1. Kept
    BY StepKinds DEF QuietStep, TakeStep, GiveStep, FreshStep
  <1> USE <1>1 DEF IInv, TypeOK, ClientBound, FromAuthStore, Tok, Goto, Kept,
                   Return, Continue, storeVars, worldVars, histVars, localVars
  <1>2. ASSUME NEW p \in Requests, NEW c \in Clients, NEW t \in Tokens, StartRefresh(p, c, t)
        PROVE ClientBound'
    BY <1>2 DEF StartRefresh
  <1>3. ASSUME NEW p \in Requests, Handler(p) PROVE ClientBound'
    <2>1. CASE LookupForeign(p) BY <2>1 DEF LookupForeign
    <2>2. CASE LookupReused(p) BY <2>2 DEF LookupReused, ReuseDetected
    <2>3. CASE LookupLive(p) BY <2>3 DEF LookupLive
    <2>4. CASE LookupAuthKey(p)
      <3>1. CASE Tok(p) \in authKey BY <2>4, <3>1 DEF LookupAuthKey, StoreShape
      <3>2. CASE Tok(p) \notin authKey BY <2>4, <3>2 DEF LookupAuthKey
      <3> QED BY <3>1, <3>2
    <2>5. CASE LookupAuthRow(p)
      <3>1. CASE Continue(p, "user") BY <2>5, <3>1 DEF LookupAuthRow
      <3>2. CASE Return(p) BY <2>5, <3>2 DEF LookupAuthRow
      <3> QED BY <2>5, <3>1, <3>2 DEF LookupAuthRow
    <2>6. CASE CheckUser(p) BY <2>6 DEF CheckUser
    <2>7. CASE RevokeStale(p) BY <2>7 DEF RevokeStale
    <2>8. CASE ConsumeWins(p) BY <2>8 DEF ConsumeWins
    <2>9. CASE ConsumeMisses(p)
      <3>1. CASE FromAuthStore(Tok(p)) BY <2>9, <3>1 DEF ConsumeMisses
      <3>2. CASE ~FromAuthStore(Tok(p)) BY <2>9, <3>2 DEF ConsumeMisses, ReuseDetected
      <3> QED BY <3>1, <3>2
    <2>10. CASE ConsumeFails(p) BY <2>10 DEF ConsumeFails
    <2>11. ASSUME NEW n \in Tokens, StoreRotated(p, n) PROVE ClientBound'
      BY <2>11 DEF StoreRotated
    <2>12. CASE StoreFails(p) BY <2>12 DEF StoreFails
    <2>13. CASE RegisterRotationGet(p) BY <2>13 DEF RegisterRotationGet, ReadFamily
    <2>14. CASE RegisterRotationPut(p) BY <2>14 DEF RegisterRotationPut
    <2>15. CASE MarkTheftGet(p) BY <2>15 DEF MarkTheftGet, ReadFamily
    <2>16. CASE MarkTheftPut(p) BY <2>16 DEF MarkTheftPut
    <2>17. CASE RevokeFamily(p) BY <2>17 DEF RevokeFamily
    <2>18. CASE RevokeClientWide(p) BY <2>18 DEF RevokeClientWide
    <2>19. CASE RevokeFails(p) BY <2>19 DEF RevokeFails
    <2>20. CASE LookupFails(p) BY <2>20 DEF LookupFails
    <2> QED
      BY <1>3, <2>1, <2>2, <2>3, <2>4, <2>5, <2>6, <2>7, <2>8, <2>9, <2>10, <2>11, <2>12,
         <2>13, <2>14, <2>15, <2>16, <2>17, <2>18, <2>19, <2>20 DEF Handler
  <1>4. CASE Environment
    <2>1. UNCHANGED <<pc, arg>>
      BY <1>4 DEF Environment, AuthLogin, IssueRoot, RevokeToken, Expire, RevokeUser,
                  DeactivateUser, ActivateUser, DeleteAccount, DisableClient, EnableClient, DeleteClient,
                  CleanupOidcRows, CleanupAuthRows, DeleteUser, DeleteRows
    <2> QED BY <2>1
  <1>5. CASE UNCHANGED vars
    BY <1>5 DEF vars
  <1> QED
    BY <1>2, <1>3, <1>4, <1>5 DEF Next

\* A first-party token has descendants only once it is spent.
LEMMA AuthUnspentNext ==
  ASSUME IInv, [Next]_vars
  PROVE AuthUnspent'
  <1> USE HolderFacts, FamilyKept DEF IInv
  <1>0. /\ \A t \in Tokens : status[t] # "absent" /\ FromAuthStore(t)
             => (TokenHolds(t) <=> t \in authKey) /\ FamilyOf(t) = t
        /\ \A t \in Tokens : status'[t] # "absent" /\ FromAuthStore(t)'
             => (TokenHolds(t)' <=> t \in authKey')
    BY StoreShapeNext DEF StoreShape, TokenHolds, FamilyOf, RowStates
  <1>1. CASE QuietStep
    BY <1>0, <1>1 DEF QuietStep, NoneDrawn, AuthUnspent, Tok
  <1>2. ASSUME NEW p \in Requests, TakeStep(p) PROVE AuthUnspent'
    <2>1. Tok(p) \in Tokens /\ status[Tok(p)] # "absent"
      BY <1>2 DEF TakeStep, TypeOK, Tok
    <2> QED
      BY <1>0, <1>2, <2>1 DEF TakeStep, NoneDrawn, AuthUnspent, Tok
  <1>3. ASSUME NEW p \in Requests, NEW n \in Tokens, GiveStep(p, n) PROVE AuthUnspent'
    <2>1. FamilyOf(n)' = FamilyOf(Tok(p)) /\ ~FromAuthStore(n)'
      BY <1>3, ConstantsAssumption DEF GiveStep, FamilyOf, FromAuthStore, RequestHolds, TypeOK, Tok
    <2>2. ASSUME NEW t \in Tokens, NEW m \in Tokens,
                 status'[t] # "absent", FromAuthStore(t)',
                 t \in authKey' \/ \E q \in Requests : RequestHolds(q)' /\ Tok(q)' = t,
                 status'[m] # "absent", ~FromAuthStore(m)'
          PROVE  FamilyOf(m)' # t
      <3>1. t # n /\ status[t] # "absent" /\ FromAuthStore(t) /\ FamilyOf(t) = t
        BY <1>0, <1>3, <2>1, <2>2 DEF GiveStep, OnlyDrawn
      <3>2. t \in authKey \/ \E q \in Requests : RequestHolds(q) /\ q # p /\ Tok(q) = t
        BY <1>0, <1>3, <2>2, <3>1 DEF GiveStep, Tok
      <3>3. CASE m = n
        BY <1>3, <2>1, <3>1, <3>2, <3>3 DEF GiveStep, OneHolder, TokenHolds
      <3>4. CASE m # n
        BY <1>3, <2>2, <3>1, <3>2, <3>4 DEF GiveStep, OnlyDrawn, AuthUnspent
      <3> QED BY <3>3, <3>4
    <2> QED
      BY <2>2 DEF AuthUnspent
  <1>4. ASSUME NEW n \in Tokens, FreshStep(n) PROVE AuthUnspent'
    <2>1. \A m \in Tokens : status[m] # "absent" => FamilyOf(m) # n
      BY <1>4 DEF FreshStep, OnlyDrawn, StoreShape
    <2> QED
      BY <1>0, <1>4, <2>1 DEF FreshStep, OnlyDrawn, AuthUnspent, Tok
  <1> QED
    BY <1>1, <1>2, <1>3, <1>4, StepKinds

\* A new row has the client and the user of the rest of its family.
LEMMA FamilyOneClientNext ==
  ASSUME IInv, [Next]_vars
  PROVE FamilyOneClient'
  <1> USE HolderFacts, FamilyKept DEF IInv
  <1>1. CASE NoneDrawn /\ Kept
    BY <1>1 DEF NoneDrawn, Kept, FamilyOneClient
  <1>2. ASSUME NEW p \in Requests, NEW n \in Tokens, GiveStep(p, n) PROVE FamilyOneClient'
    <2>1. /\ FamilyOf(n)' = FamilyOf(Tok(p))
          /\ rec'[n].client = arg[p].client /\ rec'[n].user = rec[Tok(p)].user
      BY <1>2, ConstantsAssumption DEF GiveStep, FamilyOf
    <2>2. ASSUME NEW m \in Tokens, status[m] # "absent", ~FromAuthStore(m),
                 FamilyOf(m) = FamilyOf(Tok(p))
          PROVE  rec[m].client = arg[p].client /\ rec[m].user = rec[Tok(p)].user
      <3>1. CASE FromAuthStore(Tok(p))
        BY <1>2, <2>2, <3>1 DEF AuthUnspent, GiveStep, StoreShape, FamilyOf
      <3>2. CASE ~FromAuthStore(Tok(p))
        BY <1>2, <2>2, <3>2 DEF FamilyOneClient, ClientBound, GiveStep, RequestHolds
      <3> QED BY <3>1, <3>2
    <2>3. \A t \in Tokens : status'[t] # "absent" /\ t # n => status[t] # "absent" /\ rec'[t] = rec[t]
      BY <1>2 DEF GiveStep, OnlyDrawn, Kept
    <2> QED
      BY <1>2, <2>1, <2>2, <2>3 DEF FamilyOneClient, GiveStep
  <1>3. ASSUME NEW n \in Tokens, FreshStep(n) PROVE FamilyOneClient'
    <2>1. \A m \in Tokens : status[m] # "absent" => FamilyOf(m) # n
      BY <1>3 DEF FreshStep, OnlyDrawn, StoreShape
    <2> QED
      BY <1>3, <2>1 DEF FreshStep, OnlyDrawn, Kept, FamilyOneClient
  <1> QED
    BY <1>1, <1>2, <1>3, StepKinds DEF QuietStep, TakeStep

-----------------------------------------------------------------------------
\* The inductive invariant holds at the start.
LEMMA InvInit == Init => IInv
  <1> SUFFICES ASSUME Init PROVE IInv
    OBVIOUS
  <1>1. TypeOK
    BY TypeInit
  <1>2. /\ \A t \in Tokens : status[t] # "absent" =>
             status[t] = "live" /\ rec[t].client \in Clients /\ rec[t].family = None
        /\ authKey = {} /\ parent = [t \in Tokens |-> None] /\ pc = [p \in Requests |-> "idle"]
    BY OldRows DEF Init, OldRecord
  <1>3. \A t \in Tokens : status[t] # "absent" => FamilyOf(t) = t /\ ~FromAuthStore(t)
    BY <1>2, ConstantsAssumption DEF FamilyOf, FromAuthStore
  <1>4. \A p \in Requests : ~RequestHolds(p)
    BY <1>2 DEF RequestHolds
  <1>5. \A t \in Tokens : TokenHolds(t) => status[t] # "absent"
    BY <1>2 DEF TokenHolds
  <1>6. StoreShape /\ ClientBound
    BY <1>2, <1>3 DEF StoreShape, ClientBound, RowStates
  <1>7. OneHolder /\ AuthUnspent /\ FamilyOneClient
    BY <1>2, <1>3, <1>4, <1>5 DEF OneHolder, AuthUnspent, FamilyOneClient
  <1>8. Spent /\ SingleRotation
    BY <1>2 DEF Spent, SingleRotation
  <1> QED
    BY <1>1, <1>6, <1>7, <1>8 DEF IInv

\* The inductive invariant: each family has at most one holder.
THEOREM Invariance == Spec => []IInv
  <1>1. IInv /\ [Next]_vars => IInv'
    <2> SUFFICES ASSUME IInv, [Next]_vars PROVE IInv'
      OBVIOUS
    <2>1. TypeOK'
      BY TypeNext DEF IInv
    <2> QED
      BY <2>1, StoreShapeNext, OneHolderNext, SpentNext, ClientBoundNext, AuthUnspentNext,
         FamilyOneClientNext DEF IInv
  <1> QED
    BY <1>1, InvInit, PTL DEF Spec

\* For any number of concurrent requests, tokens and failures, a rotation
\* family never has two usable refresh tokens.
THEOREM LinearFamilies == Spec => []AtMostOneLive
  <1>1. IInv => AtMostOneLive
    BY DEF IInv, OneHolder, TokenHolds, AtMostOneLive
  <1> QED
    BY <1>1, Invariance, PTL

\* For any number of concurrent requests, no refresh token, of either store,
\* is exchanged for two new ones.
THEOREM RotatedOnce == Spec => []SingleRotation
  <1>1. IInv => SingleRotation
    BY DEF IInv
  <1> QED
    BY <1>1, Invariance, PTL

\* A family stays with the client and the user it was issued to.
THEOREM FamilyOwnership == Spec => []FamilyOneClient
  <1>1. IInv => FamilyOneClient
    BY DEF IInv
  <1> QED
    BY <1>1, Invariance, PTL

\* Only the request's own handler moves its program counter on.
LEMMA OwnStep ==
  ASSUME IInv, [Next]_vars, NEW p \in Requests, pc[p] # "idle", pc'[p] # pc[p]
  PROVE Handler(p)
  <1>0. pc \in [Requests -> Steps]
    BY DEF IInv, TypeOK
  <1>1. ASSUME NEW q \in Requests, NEW c \in Clients, NEW t \in Tokens, StartRefresh(q, c, t)
        PROVE FALSE
    BY <1>0, <1>1 DEF StartRefresh, Goto
  <1>2. ASSUME NEW q \in Requests, Handler(q) PROVE q = p
    BY <1>0, <1>2
    DEF Handler, LookupForeign, LookupReused, ReuseDetected, LookupLive, LookupAuthKey,
        LookupAuthRow, LookupFails, CheckUser, RevokeStale, ConsumeWins, ConsumeMisses, ConsumeFails,
        StoreRotated, StoreFails, RegisterRotationGet, RegisterRotationPut, MarkTheftGet,
        MarkTheftPut, ReadFamily, RevokeFamily, RevokeClientWide, RevokeFails,
        Goto, Return, Continue
  <1>3. Environment \/ UNCHANGED vars => FALSE
    BY DEF vars, Environment, AuthLogin, IssueRoot, RevokeToken, Expire, RevokeUser,
           DeactivateUser, ActivateUser, DeleteAccount, DisableClient, EnableClient, DeleteClient,
           CleanupOidcRows, CleanupAuthRows, DeleteUser, DeleteRows, localVars
  <1> QED
    BY <1>1, <1>2, <1>3 DEF Next

\* A request changes no row of another client.
THEOREM ClientIsolation == Spec => ForeignRowsUntouched
  <1>1. ASSUME IInv, [Next]_vars, NEW p \in Requests, NEW t \in Tokens,
               pc[p] # "idle", pc'[p] # pc[p],
               status[t] \in RowStates, status'[t] # status[t]
        PROVE  rec[t].client = arg[p].client
    <2> USE DEF IInv, TypeOK, RowStates
    <2>1. Handler(p)
      BY <1>1, OwnStep
    <2>2. ~FromAuthStore(t)
      BY <1>1 DEF StoreShape
    <2>3. CASE RevokeStale(p) \/ ConsumeWins(p)
      <3>1. t = Tok(p) /\ pc[p] \notin {"idle", "lookup"}
        BY <1>1, <2>3 DEF RevokeStale, ConsumeWins, Tok
      <3> QED
        BY <1>1, <2>2, <3>1 DEF ClientBound
    <2>4. CASE RevokeFamily(p)
      <3>1. t \in FamilyRows(rec[Tok(p)].family, arg[p].client)
        BY <1>1, <2>4 DEF RevokeFamily, RevokeRows
      <3>2. FamilyOf(t) = FamilyOf(Tok(p)) /\ rec[Tok(p)].family # None
        BY <2>4, <3>1 DEF FamilyRows, FamilyOf, RevokeFamily
      <3>3. Tok(p) \in Tokens /\ status[Tok(p)] # "absent" /\ ~FromAuthStore(Tok(p))
        BY <1>1, <3>2 DEF StoreShape, Tok
      <3>4. rec[Tok(p)].client = arg[p].client
        BY <1>1, <2>4, <3>3 DEF ClientBound, RevokeFamily
      <3> QED
        BY <1>1, <2>2, <3>2, <3>3, <3>4 DEF FamilyOneClient
    <2>5. CASE RevokeClientWide(p)
      BY <1>1, <2>5 DEF RevokeClientWide, RevokeRows, ClientRows
    <2>6. ASSUME NEW n \in Tokens, StoreRotated(p, n) PROVE FALSE
      BY <1>1, <2>6 DEF StoreRotated
    <2> QED
      BY <1>1, <2>1, <2>3, <2>4, <2>5, <2>6
      DEF Handler, LookupForeign, LookupReused, LookupLive, LookupAuthKey,
          LookupAuthRow, LookupFails, CheckUser, ConsumeMisses, ConsumeFails,
          StoreFails, RegisterRotationGet, RegisterRotationPut, MarkTheftGet,
          MarkTheftPut, ReadFamily, RevokeFails, storeVars
  <1>2. IInv /\ [Next]_vars =>
          [\A p \in Requests, t \in Tokens :
             /\ pc[p] # "idle" /\ pc'[p] # pc[p]
             /\ status[t] \in RowStates /\ status'[t] # status[t]
             => rec[t].client = arg[p].client]_vars
    BY <1>1
  <1> QED
    BY <1>2, Invariance, PTL DEF Spec, ForeignRowsUntouched

\* No step revives a family that nobody holds: a winner takes a token that is
\* held, a new token comes from a request that holds its family, and a root
\* opens a family of its own.
LEMMA ExtinctKept ==
  ASSUME IInv, [Next]_vars, NEW f \in Tokens, Extinct(f)
  PROVE  Extinct(f)'
  <1> USE HolderFacts, FamilyKept DEF IInv, Extinct
  <1>1. CASE QuietStep
    BY <1>1 DEF QuietStep, Kept, Tok
  <1>2. ASSUME NEW p \in Requests, TakeStep(p) PROVE Extinct(f)'
    BY <1>2 DEF TakeStep, Kept, Tok, TypeOK
  <1>3. ASSUME NEW p \in Requests, NEW n \in Tokens, GiveStep(p, n) PROVE Extinct(f)'
    <2>1. FamilyOf(n)' = FamilyOf(Tok(p))
      BY <1>3, ConstantsAssumption DEF GiveStep, FamilyOf
    <2> QED
      BY <1>3, <2>1 DEF GiveStep, OnlyDrawn, Kept, Tok
  <1>4. ASSUME NEW n \in Tokens, FreshStep(n) PROVE Extinct(f)'
    BY <1>4 DEF FreshStep, OnlyDrawn, Kept, Tok
  <1> QED
    BY <1>1, <1>2, <1>3, <1>4, StepKinds

\* A family that has lost its last token, key and rotation in flight stays
\* without a usable token for ever.
THEOREM ExtinctionFinal == Spec => ExtinctForGood
  <1>1. IInv /\ [Next]_vars => [\A f \in Tokens : Extinct(f) => Extinct(f)']_vars
    BY ExtinctKept
  <1> QED
    BY <1>1, Invariance, PTL DEF Spec, ExtinctForGood

-----------------------------------------------------------------------------
(***************************************************************************)
(* The response to reuse.  Its UPDATE selects by tenant and family, so it  *)
(* reaches every usable token of the family if client and user of a row    *)
(* are of one tenant.  A first-party token has no client; its tenant is    *)
(* compared with the requester's by lookupAuthRefreshToken.                *)
(***************************************************************************)
OneTenant ==
  /\ \A t \in Tokens : status[t] # "absent" /\ ~FromAuthStore(t) =>
       TenantOf[rec[t].user] = TenantOf[rec[t].client]
  /\ \A p \in Requests : pc[p] \in {"user", "consume", "store"} /\ FromAuthStore(Tok(p)) =>
       TenantOf[rec[Tok(p)].user] = TenantOf[arg[p].client]

\* A row whose token is stored by a rotation has the requester for client.
LEMMA OneTenantRows ==
  ASSUME IInv, OneTenant, [Next]_vars, NEW t \in Tokens, status'[t] # "absent", ~FromAuthStore(t)'
  PROVE  TenantOf[rec'[t].user] = TenantOf[rec'[t].client]
  <1> USE DEF IInv
  <1>1. CASE status[t] # "absent"
    BY <1>1, StepKinds, FamilyKept
       DEF OneTenant, QuietStep, TakeStep, GiveStep, FreshStep, Kept
  <1>2. CASE status[t] = "absent"
    <2>1. ASSUME NEW p \in Requests, StoreRotated(p, t)
          PROVE  TenantOf[rec'[t].user] = TenantOf[rec'[t].client]
      <3>1. rec'[t].client = arg[p].client /\ rec'[t].user = rec[Tok(p)].user /\ pc[p] = "store"
        BY <2>1 DEF StoreRotated, TypeOK
      <3>2. Tok(p) \in Tokens /\ status[Tok(p)] # "absent"
        BY <3>1 DEF TypeOK, Tok
      <3>3. CASE FromAuthStore(Tok(p))
        BY <3>1, <3>3 DEF OneTenant
      <3>4. CASE ~FromAuthStore(Tok(p))
        BY <3>1, <3>2, <3>4 DEF OneTenant, ClientBound
      <3> QED BY <3>3, <3>4
    <2>2. ASSUME NEW c \in Clients, NEW u \in Users, IssueRoot(c, u, t)
          PROVE  TenantOf[rec'[t].user] = TenantOf[rec'[t].client]
      BY <2>2 DEF IssueRoot, TypeOK
    <2>3. ASSUME NEW u \in Users, AuthLogin(u, t) PROVE FALSE
      BY <2>3 DEF AuthLogin, FromAuthStore, TypeOK
    <2>4. ASSUME NEW n \in Tokens, n # t,
                 \/ \E p \in Requests : StoreRotated(p, n)
                 \/ \E c \in Clients, u \in Users : IssueRoot(c, u, n)
                 \/ \E u \in Users : AuthLogin(u, n)
          PROVE  FALSE
      BY <1>2, <2>4 DEF StoreRotated, IssueRoot, AuthLogin, TypeOK
    <2>5. CASE QuietStep \/ \E p \in Requests : TakeStep(p)
      BY <1>2, <2>5 DEF QuietStep, TakeStep, NoneDrawn
    <2>6. ASSUME NEW p \in Requests, Handler(p), \A n \in Tokens : ~StoreRotated(p, n)
          PROVE  QuietStep \/ \E q \in Requests : TakeStep(q)
      BY <2>6, QuietHandler, TakeHandler DEF Handler
    <2>7. CASE UNCHANGED vars
      BY <1>2, <2>7 DEF vars
    <2>8. CASE \E p \in Requests, c \in Clients, u \in Tokens : StartRefresh(p, c, u)
      BY <1>2, <2>8 DEF StartRefresh, storeVars
    <2>9. CASE Environment
      <3>1. ASSUME ~ \E n \in Tokens, u \in Users : AuthLogin(u, n) \/ \E c \in Clients : IssueRoot(c, u, n)
            PROVE  status'[t] = "absent"
        BY <1>2, <2>9, <3>1 DEF Environment, RevokeToken, Expire, RevokeUser, DeactivateUser,
           RevokeAuthRows, ActivateUser, DeleteAccount, DisableClient, EnableClient, DeleteClient,
           CleanupOidcRows, CleanupAuthRows, DeleteUser, DeleteRows, PastRetention, RowStates,
           storeVars, TypeOK
      <3> QED BY <2>2, <2>3, <2>4, <3>1
    <2> QED
      BY <2>1, <2>2, <2>3, <2>4, <2>5, <2>6, <2>7, <2>8, <2>9 DEF Next
  <1> QED BY <1>1, <1>2

\* A request gets past the lookup of a first-party token only in its tenant.
LEMMA OneTenantNext ==
  ASSUME IInv, OneTenant, [Next]_vars
  PROVE  OneTenant'
  <1> DEFINE Passed(q) == pc[q] \in {"user", "consume", "store"}
             Fits(q) == TenantOf[rec[Tok(q)].user] = TenantOf[arg[q].client]
             InTenant == \A q \in Requests : Passed(q) /\ FromAuthStore(Tok(q)) => Fits(q)
  <1>1. Kept /\ InTenant
    BY StepKinds DEF QuietStep, TakeStep, GiveStep, FreshStep, OneTenant
  <1> USE <1>1 DEF IInv, TypeOK, FromAuthStore, Tok, Goto, Kept,
                   Return, Continue, storeVars, worldVars, histVars, localVars
  <1>2. ASSUME NEW p \in Requests, NEW c \in Clients, NEW t \in Tokens, StartRefresh(p, c, t)
        PROVE InTenant'
    BY <1>2 DEF StartRefresh
  <1>3. ASSUME NEW p \in Requests, Handler(p) PROVE InTenant'
    <2>1. CASE LookupForeign(p) BY <2>1 DEF LookupForeign
    <2>2. CASE LookupReused(p) BY <2>2 DEF LookupReused, ReuseDetected
    <2>3. CASE LookupLive(p) BY <2>3, ConstantsAssumption DEF LookupLive
    <2>4. CASE LookupAuthKey(p)
      <3>1. CASE Tok(p) \in authKey BY <2>4, <3>1 DEF LookupAuthKey
      <3>2. CASE Tok(p) \notin authKey BY <2>4, <3>2 DEF LookupAuthKey
      <3> QED BY <3>1, <3>2
    <2>5. CASE LookupAuthRow(p)
      <3>1. CASE Continue(p, "user") /\ Fits(p) BY <2>5, <3>1 DEF LookupAuthRow
      <3>2. CASE Return(p) BY <2>5, <3>2 DEF LookupAuthRow
      <3> QED BY <2>5, <3>1, <3>2 DEF LookupAuthRow
    <2>6. CASE CheckUser(p) BY <2>6 DEF CheckUser
    <2>7. CASE RevokeStale(p) BY <2>7 DEF RevokeStale
    <2>8. CASE ConsumeWins(p) BY <2>8 DEF ConsumeWins
    <2>9. CASE ConsumeMisses(p)
      <3>1. CASE FromAuthStore(Tok(p)) BY <2>9, <3>1 DEF ConsumeMisses
      <3>2. CASE ~FromAuthStore(Tok(p)) BY <2>9, <3>2 DEF ConsumeMisses, ReuseDetected
      <3> QED BY <3>1, <3>2
    <2>10. CASE ConsumeFails(p) BY <2>10 DEF ConsumeFails
    <2>11. ASSUME NEW n \in Tokens, StoreRotated(p, n) PROVE InTenant'
      BY <2>11 DEF StoreRotated
    <2>12. CASE StoreFails(p) BY <2>12 DEF StoreFails
    <2>13. CASE RegisterRotationGet(p) BY <2>13 DEF RegisterRotationGet, ReadFamily
    <2>14. CASE RegisterRotationPut(p) BY <2>14 DEF RegisterRotationPut
    <2>15. CASE MarkTheftGet(p) BY <2>15 DEF MarkTheftGet, ReadFamily
    <2>16. CASE MarkTheftPut(p) BY <2>16 DEF MarkTheftPut
    <2>17. CASE RevokeFamily(p) BY <2>17 DEF RevokeFamily
    <2>18. CASE RevokeClientWide(p) BY <2>18 DEF RevokeClientWide
    <2>19. CASE RevokeFails(p) BY <2>19 DEF RevokeFails
    <2>20. CASE LookupFails(p) BY <2>20 DEF LookupFails
    <2> QED
      BY <1>3, <2>1, <2>2, <2>3, <2>4, <2>5, <2>6, <2>7, <2>8, <2>9, <2>10, <2>11, <2>12,
         <2>13, <2>14, <2>15, <2>16, <2>17, <2>18, <2>19, <2>20 DEF Handler
  <1>4. ASSUME Environment PROVE InTenant'
    <2>1. UNCHANGED <<pc, arg>>
      BY <1>4 DEF Environment, AuthLogin, IssueRoot, RevokeToken, Expire, RevokeUser,
                  DeactivateUser, ActivateUser, DeleteAccount, DisableClient, EnableClient, DeleteClient,
                  CleanupOidcRows, CleanupAuthRows, DeleteUser, DeleteRows
    <2> QED BY <2>1
  <1>5. ASSUME UNCHANGED vars PROVE InTenant'
    BY <1>5 DEF vars
  <1>6. InTenant'
    BY <1>2, <1>3, <1>4, <1>5 DEF Next
  <1> QED
    BY <1>6, OneTenantRows DEF OneTenant

\* revokeFamily takes every usable token and key of the family, as an action.
TakesFamily ==
  \A p \in Requests : RevokeFamily(p) =>
    \A t \in Tokens : TokenHolds(t)' => FamilyOf(t)' # rec[Tok(p)].family

\* The UPDATE also has to miss the root of a family from before migration 044,
\* whose own family_id is NULL: once it has descendants it is not usable.
RootSpent ==
  \A t, n \in Tokens : status[n] # "absent" /\ n # t /\ FamilyOf(n) = t => ~TokenHolds(t)

\* A family gets its second member only from the request that won the root.
LEMMA RootSpentNext ==
  ASSUME IInv, RootSpent, [Next]_vars
  PROVE  RootSpent'
  <1> USE HolderFacts, FamilyKept DEF IInv, RootSpent
  <1>1. CASE QuietStep
    BY <1>1 DEF QuietStep, NoneDrawn
  <1>2. ASSUME NEW p \in Requests, TakeStep(p) PROVE RootSpent'
    BY <1>2 DEF TakeStep, NoneDrawn
  <1>3. ASSUME NEW p \in Requests, NEW n \in Tokens, GiveStep(p, n) PROVE RootSpent'
    <2>1. FamilyOf(n)' = FamilyOf(Tok(p)) /\ ~TokenHolds(FamilyOf(Tok(p))) /\ FamilyOf(Tok(p)) # n
      BY <1>3, ConstantsAssumption DEF GiveStep, OnlyDrawn, FamilyOf, OneHolder, StoreShape
    <2> QED
      BY <1>3, <2>1 DEF GiveStep, OnlyDrawn, StoreShape
  <1>4. ASSUME NEW n \in Tokens, FreshStep(n) PROVE RootSpent'
    BY <1>4 DEF FreshStep, OnlyDrawn, StoreShape
  <1> QED
    BY <1>1, <1>2, <1>3, <1>4, StepKinds

\* The UPDATE of revokeFamily leaves no usable token of the family behind.
LEMMA TakesFamilyStep == IInv /\ OneTenant /\ RootSpent /\ [Next]_vars => [TakesFamily]_vars
  <1> SUFFICES ASSUME IInv, OneTenant, RootSpent, Next, NEW p \in Requests, RevokeFamily(p),
                      NEW t \in Tokens, TokenHolds(t)', FamilyOf(t)' = rec[Tok(p)].family
               PROVE  FALSE
    BY DEF TakesFamily
  <1> DEFINE f == rec[Tok(p)].family
  <1> USE DEF IInv
  <1>1. /\ f # None /\ rec' = rec /\ authKey' = authKey /\ pc[p] = "revokefam"
        /\ RevokeRows(FamilyRows(f, arg[p].client))
    BY DEF RevokeFamily
  <1>2. /\ Tok(p) \in Tokens /\ status[Tok(p)] # "absent" /\ FamilyOf(Tok(p)) = f
        /\ ~FromAuthStore(Tok(p)) /\ rec[Tok(p)].client = arg[p].client
    BY <1>1 DEF TypeOK, StoreShape, Tok, FamilyOf, ClientBound
  <1>3. FamilyOf(t) = f /\ TokenHolds(t) /\ status[t] # "absent"
    BY <1>1, HolderFacts DEF TokenHolds, FamilyOf, RevokeRows
  <1>4. rec[t].family = f
    <2>1. CASE rec[t].family = None
      BY <1>2, <1>3, <2>1 DEF RootSpent, FamilyOf
    <2> QED BY <1>3, <2>1 DEF FamilyOf
  <1>5. status[t] = "live" /\ status'[t] = "live" /\ ~FromAuthStore(t)
    BY <1>1, <1>3, <1>4 DEF TokenHolds, StoreShape
  <1>6. rec[t].client = arg[p].client
    BY <1>2, <1>3, <1>5 DEF FamilyOneClient
  <1>7. TenantOf[rec[t].user] = TenantOf[arg[p].client]
    BY <1>3, <1>5, <1>6 DEF OneTenant
  <1> QED
    BY <1>1, <1>4, <1>5, <1>7 DEF RevokeRows, FamilyRows, RowStates

\* revokeFamily, when its UPDATE succeeds, leaves no usable token and no key of
\* the family; at most a rotation in flight can still extend it, and without
\* one it is extinct for good (ExtinctionFinal).
THEOREM FamilyTaken == Spec => [][TakesFamily]_vars
  <1>1. Init => OneTenant /\ RootSpent
    <2> SUFFICES ASSUME Init PROVE OneTenant /\ RootSpent
      OBVIOUS
    <2>1. \A t \in Tokens : status[t] # "absent" =>
            TenantOf[rec[t].client] = TenantOf[rec[t].user] /\ rec[t].family = None
      BY OldRows DEF OldRecord
    <2>2. \A p \in Requests : pc[p] = "idle"
      BY DEF Init
    <2> QED
      BY <2>1, <2>2 DEF OneTenant, RootSpent, FamilyOf
  <1>2. IInv /\ OneTenant /\ RootSpent /\ [Next]_vars => OneTenant' /\ RootSpent'
    BY OneTenantNext, RootSpentNext
  <1> QED
    BY <1>1, <1>2, TakesFamilyStep, Invariance, PTL DEF Spec
-----------------------------------------------------------------------------
(***************************************************************************)
(* A user who is inactive all along.  userDown forgets a request when it   *)
(* returns and when its user becomes active, so such a request has a user  *)
(* who is inactive now and has not got past the status check.              *)
(***************************************************************************)
UserGate ==
  \A p \in userDown : /\ pc[p] \notin {"idle", "consume", "store", "regget", "regput"}
                      /\ rec[Tok(p)].user \notin activeUsers

\* Only the check of the user's status leads to the consuming UPDATE.
LEMMA UserGateNext ==
  ASSUME IInv, UserGate, [Next]_vars
  PROVE UserGate'
  <1>1. Kept
    BY StepKinds DEF QuietStep, TakeStep, GiveStep, FreshStep
  <1> USE <1>1 DEF IInv, TypeOK, UserGate, Tok, Goto, Kept,
                   Return, Continue, storeVars, worldVars, histVars, localVars
  <1>2. ASSUME NEW p \in Requests, NEW c \in Clients, NEW t \in Tokens, StartRefresh(p, c, t)
        PROVE UserGate'
    BY <1>2 DEF StartRefresh
  <1>3. ASSUME NEW p \in Requests, Handler(p) PROVE UserGate'
    <2>1. CASE LookupForeign(p) BY <2>1 DEF LookupForeign
    <2>2. CASE LookupReused(p) BY <2>2 DEF LookupReused, ReuseDetected
    <2>3. CASE LookupLive(p) BY <2>3 DEF LookupLive
    <2>4. CASE LookupAuthKey(p)
      <3>1. CASE Tok(p) \in authKey BY <2>4, <3>1 DEF LookupAuthKey
      <3>2. CASE Tok(p) \notin authKey BY <2>4, <3>2 DEF LookupAuthKey
      <3> QED BY <3>1, <3>2
    <2>5. CASE LookupAuthRow(p)
      <3>1. CASE Continue(p, "user") BY <2>5, <3>1 DEF LookupAuthRow
      <3>2. CASE Return(p) BY <2>5, <3>2 DEF LookupAuthRow
      <3> QED BY <2>5, <3>1, <3>2 DEF LookupAuthRow
    <2>6. CASE CheckUser(p) BY <2>6 DEF CheckUser
    <2>7. CASE RevokeStale(p) BY <2>7 DEF RevokeStale
    <2>8. CASE ConsumeWins(p) BY <2>8 DEF ConsumeWins
    <2>9. CASE ConsumeMisses(p)
      <3>1. CASE FromAuthStore(Tok(p)) BY <2>9, <3>1 DEF ConsumeMisses
      <3>2. CASE ~FromAuthStore(Tok(p)) BY <2>9, <3>2 DEF ConsumeMisses, ReuseDetected
      <3> QED BY <3>1, <3>2
    <2>10. CASE ConsumeFails(p) BY <2>10 DEF ConsumeFails
    <2>11. ASSUME NEW n \in Tokens, StoreRotated(p, n) PROVE UserGate'
      BY <2>11 DEF StoreRotated
    <2>12. CASE StoreFails(p) BY <2>12 DEF StoreFails
    <2>13. CASE RegisterRotationGet(p) BY <2>13 DEF RegisterRotationGet, ReadFamily
    <2>14. CASE RegisterRotationPut(p) BY <2>14 DEF RegisterRotationPut
    <2>15. CASE MarkTheftGet(p) BY <2>15 DEF MarkTheftGet, ReadFamily
    <2>16. CASE MarkTheftPut(p) BY <2>16 DEF MarkTheftPut
    <2>17. CASE RevokeFamily(p) BY <2>17 DEF RevokeFamily
    <2>18. CASE RevokeClientWide(p) BY <2>18 DEF RevokeClientWide
    <2>19. CASE RevokeFails(p) BY <2>19 DEF RevokeFails
    <2>20. CASE LookupFails(p) BY <2>20 DEF LookupFails
    <2> QED
      BY <1>3, <2>1, <2>2, <2>3, <2>4, <2>5, <2>6, <2>7, <2>8, <2>9, <2>10, <2>11, <2>12,
         <2>13, <2>14, <2>15, <2>16, <2>17, <2>18, <2>19, <2>20 DEF Handler
  <1>4. CASE Environment
    <2>1. UNCHANGED <<pc, arg>>
      BY <1>4 DEF Environment, AuthLogin, IssueRoot, RevokeToken, Expire, RevokeUser,
                  DeactivateUser, ActivateUser, DeleteAccount, DisableClient, EnableClient, DeleteClient,
                  CleanupOidcRows, CleanupAuthRows, DeleteUser, DeleteRows
    <2>2. ASSUME NEW u \in Users, ActivateUser(u) PROVE UserGate'
      BY <2>2 DEF ActivateUser
    <2>3. (\E u \in Users : ActivateUser(u)) \/ (userDown' = userDown /\ activeUsers' \subseteq activeUsers)
      BY <1>4 DEF Environment, AuthLogin, IssueRoot, RevokeToken, Expire, RevokeUser,
                  DeactivateUser, DeleteAccount, DisableClient, EnableClient, DeleteClient,
                  CleanupOidcRows, CleanupAuthRows, DeleteUser, DeleteRows
    <2> QED BY <2>1, <2>2, <2>3
  <1>5. CASE UNCHANGED vars
    BY <1>5 DEF vars
  <1> QED
    BY <1>2, <1>3, <1>4, <1>5 DEF Next

\* Whatever else happens to the token and its family meanwhile, a user who is
\* inactive during the whole request gets no new token from it.
THEOREM InactiveRefused == Spec => []InactiveUserGetsNothing
  <1>1. Init => UserGate
    BY DEF Init, UserGate
  <1>2. UserGate => InactiveUserGetsNothing
    BY DEF UserGate, InactiveUserGetsNothing
  <1> QED
    BY <1>1, <1>2, UserGateNext, Invariance, PTL DEF Spec

-----------------------------------------------------------------------------
(***************************************************************************)
(* The registry.  RegisterRotation raises the theft flag when the token it *)
(* is to add is rotated already.  It never finds that: a token is put into *)
(* a record only by the request that exchanged it, once, so no record, and *)
(* no copy of one held by a request, has the token of a registration that  *)
(* is still under way, however stale the copy is.  All flags then come     *)
(* from MarkTheft, which follows the detection of a reuse.                 *)
(***************************************************************************)
Registering(p) == pc[p] \in {"regget", "regput"}

Marked(t) == \/ \E f \in Tokens : t \in registry[f].rotated
             \/ \E q \in Requests : t \in snap[q].rotated

RegistryInv ==
  /\ TheftFlagSound
  /\ \A p \in Requests : pc[p] = "regput" /\ snap[p].theft => FamilyOf(Tok(p)) \in reused
  /\ \A p \in Requests : pc[p] \in {"theftget", "theftput"} => FamilyOf(Tok(p)) \in reused
  /\ \A t \in Tokens : Marked(t) => \E n \in Tokens : parent[n] = t
  /\ \A p \in Requests : Registering(p) => ~Marked(Tok(p)) /\ \E n \in Tokens : parent[n] = Tok(p)
  /\ \A p, q \in Requests : Registering(p) /\ Registering(q) /\ Tok(p) = Tok(q) => p = q

\* A step that leaves the registry alone and starts no registration.
Unregistered ==
  /\ registry' = registry /\ reused \subseteq reused' /\ parent' = parent
  /\ \A q \in Requests : snap'[q] = snap[q] \/ snap'[q] = NewFamily
  /\ \A q \in Requests : pc'[q] \in {"regget", "regput"} =>
       pc'[q] = pc[q] /\ arg'[q] = arg[q] /\ snap'[q] = snap[q]
  /\ \A q \in Requests : pc'[q] \in {"theftget", "theftput"} =>
       (pc'[q] = pc[q] /\ arg'[q] = arg[q]) \/ FamilyOf(Tok(q))' \in reused'

\* Every step but the registry's own calls and the INSERT is such a step.
LEMMA OtherSteps ==
  ASSUME IInv, [Next]_vars
  PROVE \/ Unregistered
        \/ \E p \in Requests : \/ RegisterRotationGet(p) \/ RegisterRotationPut(p)
                               \/ MarkTheftGet(p) \/ MarkTheftPut(p)
                               \/ \E n \in Tokens : StoreRotated(p, n)
  <1> USE DEF IInv, TypeOK, Unregistered, FamilyOf, Tok, Goto,
              Return, Continue, storeVars, worldVars, histVars, localVars
  <1>1. ASSUME NEW p \in Requests, NEW c \in Clients, NEW t \in Tokens, StartRefresh(p, c, t)
        PROVE Unregistered
    BY <1>1 DEF StartRefresh
  <1>2. ASSUME NEW p \in Requests, Handler(p),
               ~(\/ RegisterRotationGet(p) \/ RegisterRotationPut(p)
                 \/ MarkTheftGet(p) \/ MarkTheftPut(p)
                 \/ \E n \in Tokens : StoreRotated(p, n))
        PROVE Unregistered
    <2>1. CASE LookupForeign(p) BY <2>1 DEF LookupForeign
    <2>2. CASE LookupReused(p) BY <2>2 DEF LookupReused, ReuseDetected
    <2>3. CASE LookupLive(p) BY <2>3 DEF LookupLive
    <2>4. CASE LookupAuthKey(p)
      <3>1. CASE Tok(p) \in authKey BY <2>4, <3>1 DEF LookupAuthKey
      <3>2. CASE Tok(p) \notin authKey BY <2>4, <3>2 DEF LookupAuthKey
      <3> QED BY <3>1, <3>2
    <2>5. CASE LookupAuthRow(p)
      <3>1. CASE Continue(p, "user") BY <2>5, <3>1 DEF LookupAuthRow
      <3>2. CASE Return(p) BY <2>5, <3>2 DEF LookupAuthRow
      <3> QED BY <2>5, <3>1, <3>2 DEF LookupAuthRow
    <2>6. CASE CheckUser(p) BY <2>6 DEF CheckUser
    <2>7. CASE RevokeStale(p) BY <2>7 DEF RevokeStale
    <2>8. CASE ConsumeWins(p) BY <2>8 DEF ConsumeWins
    <2>9. CASE ConsumeMisses(p)
      <3>1. CASE FromAuthStore(Tok(p)) BY <2>9, <3>1 DEF ConsumeMisses
      <3>2. CASE ~FromAuthStore(Tok(p)) BY <2>9, <3>2 DEF ConsumeMisses, ReuseDetected
      <3> QED BY <3>1, <3>2
    <2>10. CASE ConsumeFails(p) BY <2>10 DEF ConsumeFails
    <2>12. CASE StoreFails(p) BY <2>12 DEF StoreFails
    <2>17. CASE RevokeFamily(p) BY <2>17 DEF RevokeFamily
    <2>18. CASE RevokeClientWide(p) BY <2>18 DEF RevokeClientWide
    <2>19. CASE RevokeFails(p) BY <2>19 DEF RevokeFails
    <2>20. CASE LookupFails(p) BY <2>20 DEF LookupFails
    <2> QED
      BY <1>2, <2>1, <2>2, <2>3, <2>4, <2>5, <2>6, <2>7, <2>8, <2>9, <2>10, <2>12,
         <2>17, <2>18, <2>19, <2>20 DEF Handler
  <1>3. CASE Environment
    <2>1. UNCHANGED <<registry, pc, arg, snap, parent, reused>>
      BY <1>3 DEF Environment, AuthLogin, IssueRoot, RevokeToken, Expire, RevokeUser,
                  DeactivateUser, ActivateUser, DeleteAccount, DisableClient, EnableClient, DeleteClient,
                  CleanupOidcRows, CleanupAuthRows, DeleteUser, DeleteRows
    <2> QED BY <2>1
  <1>4. CASE UNCHANGED vars
    BY <1>4 DEF vars
  <1> QED
    BY <1>1, <1>2, <1>3, <1>4 DEF Next

\* What a request knows about its token does not change under it.
LEMMA RequestKept ==
  ASSUME IInv, [Next]_vars, NEW q \in Requests, pc[q] # "idle", arg'[q] = arg[q]
  PROVE /\ Tok(q) \in Tokens /\ FamilyOf(Tok(q)) \in Tokens
        /\ Tok(q)' = Tok(q) /\ FamilyOf(Tok(q))' = FamilyOf(Tok(q))
  <1>1. Kept
    BY StepKinds DEF QuietStep, TakeStep, GiveStep, FreshStep
  <1>2. Tok(q) \in Tokens /\ status[Tok(q)] # "absent" /\ Tok(q)' = Tok(q)
    BY DEF IInv, TypeOK, Tok
  <1> QED
    BY <1>1, <1>2, FamilyKept, HolderFacts DEF IInv

\* The registry's own calls, and the INSERT that a registration follows.
LEMMA RegistryInvNext ==
  ASSUME IInv, RegistryInv, [Next]_vars
  PROVE RegistryInv'
  <1>0. /\ registry \in [Tokens -> FamilyData] /\ snap \in [Requests -> FamilyData]
        /\ pc \in [Requests -> Steps]
        /\ registry' \in [Tokens -> FamilyData] /\ snap' \in [Requests -> FamilyData]
    BY TypeNext DEF IInv, TypeOK
  <1>n. NewFamily.rotated = {} /\ NewFamily.theft = FALSE
    BY DEF NewFamily
  <1>1. CASE Unregistered
    <2>1. \A t \in Tokens : Marked(t)' => Marked(t)
      BY <1>1, <1>n DEF Unregistered, Marked
    <2>2. \A q \in Requests : Registering(q)' => Registering(q) /\ arg'[q] = arg[q] /\ pc[q] # "idle"
      BY <1>1 DEF Unregistered, Registering
    <2>3. TheftFlagSound'
      BY <1>1 DEF Unregistered, RegistryInv, TheftFlagSound
    <2>4. \A q \in Requests : (pc[q] = "regput" /\ snap[q].theft)' => (FamilyOf(Tok(q)) \in reused)'
      BY <1>1, <2>2, RequestKept DEF Unregistered, RegistryInv, Registering
    <2>5. \A q \in Requests : pc'[q] \in {"theftget", "theftput"} => (FamilyOf(Tok(q)) \in reused)'
      BY <1>1, RequestKept DEF Unregistered, RegistryInv
    <2>6. \A t \in Tokens : Marked(t)' => \E n \in Tokens : parent'[n] = t
      BY <1>1, <2>1 DEF Unregistered, RegistryInv
    <2>7. \A q \in Requests : Registering(q)' => ~Marked(Tok(q))' /\ \E n \in Tokens : parent'[n] = Tok(q)'
      <3> SUFFICES ASSUME NEW q \in Requests, Registering(q)'
                   PROVE  ~Marked(Tok(q))' /\ \E n \in Tokens : parent'[n] = Tok(q)'
        OBVIOUS
      <3>1. Registering(q) /\ Tok(q) \in Tokens /\ Tok(q)' = Tok(q)
        BY <2>2, RequestKept
      <3>2. ~Marked(Tok(q)) /\ \E n \in Tokens : parent[n] = Tok(q)
        BY <3>1 DEF RegistryInv
      <3>3. ~Marked(Tok(q))'
        BY <1>1, <1>n, <3>1, <3>2 DEF Unregistered, Marked
      <3> QED BY <1>1, <3>1, <3>2, <3>3 DEF Unregistered
    <2>8. \A q, r \in Requests : Registering(q)' /\ Registering(r)' /\ Tok(q)' = Tok(r)' => q = r
      BY <2>2, RequestKept DEF RegistryInv
    <2> QED
      BY <2>3, <2>4, <2>5, <2>6, <2>7, <2>8 DEF RegistryInv
  <1>2. ASSUME NEW p \in Requests, NEW n \in Tokens, StoreRotated(p, n) PROVE RegistryInv'
    <2>1. /\ UNCHANGED <<registry, arg, snap, reused>> /\ pc[p] = "store"
          /\ pc' = [pc EXCEPT ![p] = "regget"]
          /\ parent' = [parent EXCEPT ![n] = Tok(p)] /\ status[n] = "absent"
      BY <1>2 DEF StoreRotated, Continue, Goto
    <2>2. /\ \A m \in Tokens : parent[m] # Tok(p)
          /\ \A m \in Tokens : parent[m] \in Tokens => parent'[m] = parent[m]
          /\ parent'[n] = Tok(p)
      BY <2>1, HolderFacts, ConstantsAssumption DEF IInv, TypeOK, Spent, RequestHolds
    <2>3. \A t \in Tokens : Marked(t)' <=> Marked(t)
      BY <2>1 DEF Marked
    <2>4. Tok(p) \in Tokens /\ ~Marked(Tok(p)) /\ \A q \in Requests : Registering(q) => Tok(q) # Tok(p)
      BY <2>1, <2>2, RequestKept DEF RegistryInv
    <2>5. \A q \in Requests : Registering(q)' => q = p \/ (Registering(q) /\ pc[q] # "idle")
      BY <1>0, <2>1 DEF Registering
    <2>6. \A q \in Requests : Tok(q)' = Tok(q)
      BY <2>1 DEF Tok
    <2>7. TheftFlagSound'
      BY <2>1 DEF RegistryInv, TheftFlagSound
    <2>8. \A q \in Requests : /\ (pc[q] = "regput" /\ snap[q].theft)' => (FamilyOf(Tok(q)) \in reused)'
                              /\ pc'[q] \in {"theftget", "theftput"} => (FamilyOf(Tok(q)) \in reused)'
      <3> SUFFICES ASSUME NEW q \in Requests, pc'[q] \in {"regput", "theftget", "theftput"}
                   PROVE  /\ (pc[q] = "regput" /\ snap[q].theft)' => (FamilyOf(Tok(q)) \in reused)'
                          /\ pc'[q] \in {"theftget", "theftput"} => (FamilyOf(Tok(q)) \in reused)'
        OBVIOUS
      <3>1. q # p /\ pc'[q] = pc[q] /\ arg'[q] = arg[q] /\ snap'[q] = snap[q] /\ pc[q] # "idle"
        BY <1>0, <2>1
      <3>2. FamilyOf(Tok(q))' = FamilyOf(Tok(q))
        BY <3>1, RequestKept
      <3> QED BY <2>1, <3>1, <3>2 DEF RegistryInv
    <2>9. \A t \in Tokens : Marked(t)' => \E m \in Tokens : parent'[m] = t
      BY <2>2, <2>3 DEF RegistryInv
    <2>10. \A q \in Requests : Registering(q)' => ~Marked(Tok(q))' /\ \E m \in Tokens : parent'[m] = Tok(q)'
      <3> SUFFICES ASSUME NEW q \in Requests, Registering(q)'
                   PROVE  ~Marked(Tok(q))' /\ \E m \in Tokens : parent'[m] = Tok(q)'
        OBVIOUS
      <3>1. Tok(q) \in Tokens /\ ~Marked(Tok(q)) /\ \E m \in Tokens : parent'[m] = Tok(q)
        BY <2>1, <2>2, <2>4, <2>5, RequestKept DEF RegistryInv
      <3>2. ~Marked(Tok(q))'
        BY <2>1, <2>6, <3>1 DEF Marked
      <3> QED BY <2>6, <3>1, <3>2
    <2>11. \A q, r \in Requests : Registering(q)' /\ Registering(r)' /\ Tok(q)' = Tok(r)' => q = r
      BY <2>4, <2>5, <2>6 DEF RegistryInv
    <2> QED
      BY <2>7, <2>8, <2>9, <2>10, <2>11 DEF RegistryInv
  <1>3. ASSUME NEW p \in Requests, RegisterRotationGet(p) \/ MarkTheftGet(p) PROVE RegistryInv'
    <2>1. /\ UNCHANGED <<registry, arg, reused, parent>> /\ pc[p] \in {"regget", "theftget"}
          /\ pc' = [pc EXCEPT ![p] = IF pc[p] = "regget" THEN "regput" ELSE "theftput"]
          /\ \/ snap' = [snap EXCEPT ![p] = registry[FamilyOf(Tok(p))]]
             \/ snap' = [snap EXCEPT ![p] = NewFamily]
      BY <1>3 DEF RegisterRotationGet, MarkTheftGet, ReadFamily, Goto, histVars
    <2>2. /\ \A q \in Requests : q # p => snap'[q] = snap[q] /\ pc'[q] = pc[q]
          /\ snap'[p] = registry[FamilyOf(Tok(p))] \/ snap'[p] = NewFamily
          /\ pc[p] = "regget" => pc'[p] = "regput"
          /\ pc[p] = "theftget" => pc'[p] = "theftput"
      BY <1>0, <2>1
    <2>3. \A q \in Requests : pc[q] # "idle" =>
            Tok(q)' = Tok(q) /\ FamilyOf(Tok(q))' = FamilyOf(Tok(q)) /\ Tok(q) \in Tokens
            /\ FamilyOf(Tok(q)) \in Tokens
      BY <2>1, RequestKept
    <2>4. \A t \in Tokens : Marked(t)' => Marked(t)
      BY <1>n, <2>1, <2>2, <2>3 DEF Marked
    <2>5. \A q \in Requests : Registering(q)' => Registering(q) /\ pc[q] # "idle"
      BY <2>1, <2>2 DEF Registering
    <2>6. snap'[p].theft => registry[FamilyOf(Tok(p))].theft
      BY <1>n, <2>2
    <2>7. TheftFlagSound'
      BY <2>1 DEF RegistryInv, TheftFlagSound
    <2>8. \A q \in Requests : (pc[q] = "regput" /\ snap[q].theft)' => (FamilyOf(Tok(q)) \in reused)'
      BY <2>1, <2>2, <2>3, <2>6 DEF RegistryInv, TheftFlagSound
    <2>9. \A q \in Requests : pc'[q] \in {"theftget", "theftput"} => (FamilyOf(Tok(q)) \in reused)'
      BY <2>1, <2>2, <2>3 DEF RegistryInv
    <2>10. \A q \in Requests : Registering(q)' => ~Marked(Tok(q))' /\ \E m \in Tokens : parent'[m] = Tok(q)'
      <3> SUFFICES ASSUME NEW q \in Requests, Registering(q)'
                   PROVE  ~Marked(Tok(q))' /\ \E m \in Tokens : parent'[m] = Tok(q)'
        OBVIOUS
      <3>1. Tok(q) \in Tokens /\ ~Marked(Tok(q)) /\ Tok(q)' = Tok(q)
        BY <2>3, <2>5 DEF RegistryInv
      <3>2. ~Marked(Tok(q))'
        BY <1>n, <2>1, <2>2, <2>3, <3>1 DEF Marked
      <3> QED BY <2>1, <2>5, <3>1, <3>2 DEF RegistryInv
    <2>11. \A q, r \in Requests : Registering(q)' /\ Registering(r)' /\ Tok(q)' = Tok(r)' => q = r
      BY <2>3, <2>5 DEF RegistryInv
    <2> QED
      BY <2>1, <2>4, <2>7, <2>8, <2>9, <2>10, <2>11 DEF RegistryInv
  <1>4. ASSUME NEW p \in Requests, RegisterRotationPut(p) \/ MarkTheftPut(p) PROVE RegistryInv'
    <2>1. /\ UNCHANGED <<reused, parent>>
          /\ \A q \in Requests : q # p => arg'[q] = arg[q] /\ pc'[q] = pc[q]
          /\ \A q \in Requests : snap'[q] = snap[q] \/ snap'[q] = NewFamily
          /\ \A q \in Requests : q # p => snap'[q] = snap[q]
          /\ pc'[p] \in {"idle", "revokefam"} /\ pc[p] \in {"regput", "theftput"}
      BY <1>0, <1>4 DEF IInv, TypeOK, RegisterRotationPut, MarkTheftPut, Return, Goto, histVars
    <2>2. \A q \in Requests : q # p /\ pc[q] # "idle" =>
            Tok(q)' = Tok(q) /\ FamilyOf(Tok(q))' = FamilyOf(Tok(q)) /\ Tok(q) \in Tokens
      BY <2>1, RequestKept
    <2>3. Tok(p) \in Tokens /\ FamilyOf(Tok(p)) \in Tokens
      BY <2>1, HolderFacts DEF IInv, TypeOK, Tok
    <2>4. /\ \A f \in Tokens : registry'[f].theft =>
               registry[f].theft \/ (f = FamilyOf(Tok(p)) /\ f \in reused)
          /\ \A f \in Tokens, t \in Tokens : t \in registry'[f].rotated =>
               Marked(t) \/ (t = Tok(p) /\ pc[p] = "regput")
      <3>1. CASE RegisterRotationPut(p)
        <4>1. Tok(p) \notin snap[p].rotated /\ (snap[p].theft => FamilyOf(Tok(p)) \in reused)
          BY <3>1 DEF RegisterRotationPut, RegistryInv, Registering, Marked
        <4>2. registry' = registry
                \/ registry' = [registry EXCEPT ![FamilyOf(Tok(p))] = Rotated(snap[p], Tok(p))]
          BY <3>1 DEF RegisterRotationPut, WriteFamily
        <4>3. Rotated(snap[p], Tok(p)).theft = snap[p].theft
              /\ Rotated(snap[p], Tok(p)).rotated = snap[p].rotated \cup {Tok(p)}
          BY <4>1, <1>0 DEF Rotated, FamilyData
        <4>4. pc[p] = "regput"
          BY <3>1 DEF RegisterRotationPut
        <4> QED BY <1>0, <2>3, <4>1, <4>2, <4>3, <4>4 DEF Marked
      <3>2. CASE MarkTheftPut(p)
        <4>1. FamilyOf(Tok(p)) \in reused
          BY <3>2 DEF MarkTheftPut, RegistryInv
        <4>2. registry' = registry
                \/ registry' = [registry EXCEPT ![FamilyOf(Tok(p))] = Stolen(snap[p])]
          BY <3>2 DEF MarkTheftPut, WriteFamily
        <4>3. Stolen(snap[p]).rotated = {}
          BY DEF Stolen
        <4> QED BY <1>0, <2>3, <4>1, <4>2, <4>3 DEF Marked
      <3> QED BY <1>4, <3>1, <3>2
    <2>5. \A t \in Tokens : Marked(t)' => Marked(t) \/ (t = Tok(p) /\ pc[p] = "regput")
      BY <1>n, <2>1, <2>4 DEF Marked
    <2>6. \A q \in Requests : Registering(q)' => q # p /\ Registering(q) /\ pc[q] # "idle"
      BY <2>1 DEF Registering
    <2>7. TheftFlagSound'
      BY <2>1, <2>4 DEF RegistryInv, TheftFlagSound
    <2>8. \A q \in Requests : /\ (pc[q] = "regput" /\ snap[q].theft)' => (FamilyOf(Tok(q)) \in reused)'
                              /\ pc'[q] \in {"theftget", "theftput"} => (FamilyOf(Tok(q)) \in reused)'
      BY <2>1, <2>2 DEF RegistryInv
    <2>9. \A t \in Tokens : Marked(t)' => \E m \in Tokens : parent'[m] = t
      BY <2>1, <2>5 DEF RegistryInv, Registering
    <2>10. \A q \in Requests : Registering(q)' => ~Marked(Tok(q))' /\ \E m \in Tokens : parent'[m] = Tok(q)'
      <3> SUFFICES ASSUME NEW q \in Requests, Registering(q)'
                   PROVE  ~Marked(Tok(q))' /\ \E m \in Tokens : parent'[m] = Tok(q)'
        OBVIOUS
      <3>1. /\ q # p /\ Registering(q) /\ Tok(q) \in Tokens /\ Tok(q)' = Tok(q)
            /\ ~Marked(Tok(q)) /\ (pc[p] = "regput" => Tok(q) # Tok(p))
        BY <2>2, <2>6 DEF RegistryInv, Registering
      <3>2. ~Marked(Tok(q))'
        BY <1>n, <2>1, <2>4, <3>1 DEF Marked
      <3> QED BY <2>1, <3>1, <3>2 DEF RegistryInv
    <2>11. \A q, r \in Requests : Registering(q)' /\ Registering(r)' /\ Tok(q)' = Tok(r)' => q = r
      BY <2>2, <2>6 DEF RegistryInv
    <2> QED
      BY <2>7, <2>8, <2>9, <2>10, <2>11 DEF RegistryInv
  <1> QED
    BY <1>1, <1>2, <1>3, <1>4, OtherSteps

\* For any number of requests that read, change and write back the family
\* records without a lock, and whatever calls fail, a theft flag is never a
\* false alarm.
THEOREM NoFalseAccusation == Spec => []TheftFlagSound
  <1>1. Init => RegistryInv
    BY DEF Init, RegistryInv, TheftFlagSound, Registering, Marked, NewFamily
  <1>2. RegistryInv => TheftFlagSound
    BY DEF RegistryInv
  <1> QED
    BY <1>1, <1>2, RegistryInvNext, Invariance, PTL DEF Spec

=============================================================================
