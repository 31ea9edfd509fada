-------------------------- MODULE TokenClient_proofs --------------------------
(***************************************************************************)
(* What TokenClient promises, for any number of callers, logins and        *)
(* rotations.  The argument is about the tokens that can still be met: the *)
(* stored one, those of exchanges under way, those of requests left        *)
(* behind.  None of them is ahead of the server, and while the answer to a *)
(* refresh is on its way none of them is newer than the token it was asked *)
(* with; so nothing can be redeemed before that answer is saved or lost.   *)
(***************************************************************************)
EXTENDS TokenClient, TLAPS

Granted(c) == exch[c].st = "granted"
Sent(c) == exch[c].st = "sent"
FamOf(c) == exch[c].tok.fam

\* The tokens that somebody holds.
Seen == ({stored} \cup orphans \cup {exch[c].tok : c \in Callers}) \ {NoToken}

\* No token is ahead of the server, and families come from logins.
Known == \A t \in Seen : t.fam \in issued /\ t.n =< gen[t.fam]
Unused == \A f \in Families : f \notin issued => gen[f] = 0

\* An answer on its way carries the server's token, and nobody holds it yet.
Newest ==
  \A c \in Callers : Granted(c) =>
    /\ gen[FamOf(c)] = exch[c].tok.n + 1
    /\ \A t \in Seen : t.fam = FamOf(c) => t.n =< exch[c].tok.n
    /\ \A d \in Callers : Granted(d) /\ FamOf(d) = FamOf(c) => d = c

\* Unless something was lost or raced, what is presented is the server's token.
Current ==
  \A c \in Callers : Sent(c) /\ FamOf(c) \notin lost \cup raced => exch[c].tok.n = gen[FamOf(c)]

\* One token in two callers' hands is a race.
Shared ==
  \A c, d \in Callers : c # d /\ InUse(c, exch[d].tok) /\ InUse(d, exch[d].tok) => FamOf(d) \in raced

OrphansLost == \A t \in orphans : t.fam \in lost

IInv ==
  /\ TypeOK /\ Known /\ Unused /\ Newest /\ Current /\ Shared /\ OrphansLost
  /\ StoredTokenLive /\ ReuseHasCause

-----------------------------------------------------------------------------
\* The idle exchange holds no token.
LEMMA Idle ==
  /\ NoExchange.st = "idle" /\ NoExchange.tok = NoToken
  /\ NoToken \notin Token
  BY EndpointAssumption DEF NoExchange, Token

\* A caller that waits for an answer has presented a token, which is held.
LEMMA Busy ==
  ASSUME TypeOK, NEW c \in Callers, exch[c].st # "idle"
  PROVE  /\ exch[c] \in [st: {"sent", "granted", "refused"}, tok: Token]
         /\ exch[c].tok \in Token /\ exch[c].tok \in Seen
         /\ FamOf(c) \in Families /\ exch[c].tok.n \in Nat
  <1>1. exch[c] \in [st: {"sent", "granted", "refused"}, tok: Token]
    BY Idle DEF TypeOK, EndpointTypeOK, Exchange
  <1>2. exch[c].tok \in Token
    BY <1>1
  <1>3. exch[c].tok \in Seen
    BY <1>2, Idle DEF Seen
  <1>4. FamOf(c) \in Families /\ exch[c].tok.n \in Nat
    BY <1>2 DEF Token, FamOf
  <1> QED BY <1>1, <1>2, <1>3, <1>4

\* What is held is a token.
LEMMA SeenTokens ==
  ASSUME TypeOK, NEW t \in Seen
  PROVE  t \in Token /\ t.fam \in Families /\ t.n \in Nat
  <1>1. t \in Token
    <2>1. CASE t = stored BY <2>1 DEF TypeOK, Seen
    <2>2. CASE t \in orphans BY <2>2 DEF TypeOK, EndpointTypeOK
    <2>3. ASSUME NEW c \in Callers, t = exch[c].tok PROVE t \in Token
      BY <2>3, Busy, Idle DEF Seen, TypeOK, EndpointTypeOK, Exchange
    <2> QED BY <2>1, <2>2, <2>3 DEF Seen
  <1> QED BY <1>1 DEF Token

\* Two tokens of one family and one number are the same token.
LEMMA TokenEq ==
  ASSUME NEW s \in Token, NEW t \in Token, s.fam = t.fam, s.n = t.n
  PROVE  s = t
  BY DEF Token

\* The first token of a login and the one that follows a token are tokens.
LEMMA TokenForms ==
  /\ \A f \in Families : First(f) \in Token /\ First(f).fam = f /\ First(f).n = 0
  /\ \A t \in Token : Succ(t) \in Token /\ Succ(t).fam = t.fam /\ Succ(t).n = t.n + 1
  BY DEF Token, First, Succ

-----------------------------------------------------------------------------
(* Types. *)

\* An answer keeps the token the caller has presented.
LEMMA AnswerForm ==
  ASSUME TypeOK, NEW c \in Callers, Sent(c), NEW what \in {"granted", "refused"},
         exch' = [exch EXCEPT ![c].st = what]
  PROVE  /\ exch' \in [Callers -> Exchange]
         /\ exch'[c] = [st |-> what, tok |-> exch[c].tok]
         /\ \A d \in Callers : d # c => exch'[d] = exch[d]
         /\ \A d \in Callers : exch'[d].tok = exch[d].tok
  <1>1. exch[c] \in [st: {"sent", "granted", "refused"}, tok: Token]
    BY Busy DEF Sent
  <1>2. exch'[c] = [st |-> what, tok |-> exch[c].tok]
    BY <1>1 DEF TypeOK, EndpointTypeOK
  <1>3. \A d \in Callers : d # c => exch'[d] = exch[d]
    BY DEF TypeOK, EndpointTypeOK
  <1>4. exch'[c] \in Exchange
    BY <1>1, <1>2 DEF Exchange
  <1>5. exch' \in [Callers -> Exchange]
    BY <1>3, <1>4 DEF TypeOK, EndpointTypeOK
  <1> QED BY <1>2, <1>3, <1>5

\* Redeeming a token of a known family keeps the server's types.
LEMMA RedeemForm ==
  ASSUME TypeOK, NEW t \in Token, Redeem(t)
  PROVE  /\ gen' \in [Families -> Nat] /\ revoked' = revoked
         /\ t.fam \in Families /\ t.n = gen[t.fam] /\ gen'[t.fam] = gen[t.fam] + 1
         /\ \A f \in Families : f # t.fam => gen'[f] = gen[f]
  BY DEF TypeOK, EndpointTypeOK, Token, Redeem

\* Types survive the server's steps.
LEMMA TypeServer == TypeOK /\ ServerStep /\ UNCHANGED stored => TypeOK'
  <1> SUFFICES ASSUME TypeOK, UNCHANGED stored, ServerStep PROVE TypeOK'
    OBVIOUS
  <1>1. ASSUME NEW c \in Callers, Serve(c) PROVE TypeOK'
    <2>1. Sent(c) /\ exch[c].tok \in Token /\ FamOf(c) \in Families
      BY <1>1, Busy DEF Serve, Sent
    <2>2. exch' \in [Callers -> Exchange]
      BY <1>1, <2>1, AnswerForm DEF Serve
    <2>3. gen' \in [Families -> Nat] /\ revoked' \subseteq Families /\ lost' \subseteq Families
      BY <1>1, <2>1, RedeemForm DEF Serve, Reject, FamOf, TypeOK, EndpointTypeOK
    <2> QED
      BY <1>1, <2>2, <2>3 DEF Serve, TypeOK, EndpointTypeOK
  <1>2. ASSUME NEW t \in orphans, ServeOrphan(t) PROVE TypeOK'
    <2>1. t \in Token /\ t.fam \in Families
      BY DEF TypeOK, EndpointTypeOK, Token
    <2> QED
      BY <1>2, <2>1, RedeemForm DEF ServeOrphan, Reject, TypeOK, EndpointTypeOK
  <1> QED
    BY <1>1, <1>2 DEF ServerStep

\* Types survive the callers' steps.
LEMMA TypeClient ==
  ASSUME TypeOK,
         \/ \E f \in Families : SignIn(f)
         \/ \E c \in Callers : Present(c) \/ Save(c)
         \/ \E C \in SUBSET Callers : GiveUp(C)
  PROVE  TypeOK'
  <1>1. ASSUME NEW f \in Families, SignIn(f) PROVE TypeOK'
    BY <1>1, TokenForms DEF SignIn, Grant, TypeOK, EndpointTypeOK
  <1>2. ASSUME NEW c \in Callers, Present(c) PROVE TypeOK'
    <2>1. stored \in Token /\ stored.fam \in Families
      BY <1>2 DEF Present, TypeOK, Token
    <2>2. [st |-> "sent", tok |-> stored] \in Exchange
      BY <2>1 DEF Exchange
    <2> QED
      BY <1>2, <2>1, <2>2 DEF Present, Ask, TypeOK, EndpointTypeOK
  <1>3. ASSUME NEW c \in Callers, Save(c) PROVE TypeOK'
    <2>1. exch[c].tok \in Token
      BY <1>3, Busy DEF Save, Take
    <2>2. Succ(exch[c].tok) \in Token /\ NoExchange \in Exchange
      BY <2>1, TokenForms DEF Exchange
    <2> QED
      BY <1>3, <2>2 DEF Save, Take, TypeOK, EndpointTypeOK
  <1>4. ASSUME NEW C \in SUBSET Callers, GiveUp(C) PROVE TypeOK'
    <2>1. \A c \in C : exch[c].st \in {"sent", "granted"} =>
            exch[c].tok \in Token /\ exch[c].tok.fam \in Families
      BY Busy DEF FamOf
    <2>2. orphans' \subseteq Token /\ lost' \subseteq Families
      BY <1>4, <2>1 DEF GiveUp, Drop, TypeOK, EndpointTypeOK
    <2>3. exch' \in [Callers -> Exchange]
      BY <1>4 DEF GiveUp, Drop, TypeOK, EndpointTypeOK, Exchange
    <2> QED
      BY <1>4, <2>2, <2>3 DEF GiveUp, Drop, TypeOK, EndpointTypeOK
  <1> QED
    BY <1>1, <1>2, <1>3, <1>4

\* Types survive every step.
LEMMA TypeNext == TypeOK /\ [Next]_vars => TypeOK'
  <1>1. CASE UNCHANGED vars
    BY <1>1 DEF vars, endpointVars, TypeOK, EndpointTypeOK
  <1> QED
    BY <1>1, TypeServer, TypeClient DEF Next

\* Every state is of the declared types.
THEOREM TypeCorrect == Spec => []TypeOK
  <1>1. Init => TypeOK
    BY DEF Init, EndpointInit, TypeOK, EndpointTypeOK, Exchange
  <1> QED
    BY <1>1, TypeNext, PTL DEF Spec

-----------------------------------------------------------------------------
(* The inductive invariant, one lemma per action. *)

\* The server accepts a token only when no answer of its family is on its way.
LEMMA NoGrantPending ==
  ASSUME IInv, NEW t \in Seen, Redeem(t), NEW c \in Callers, Granted(c)
  PROVE  FamOf(c) # t.fam
  <1>1. t \in Token /\ t.n \in Nat /\ t.fam \in Families
    BY SeenTokens DEF IInv
  <1>2. exch[c].tok.n \in Nat
    BY Busy DEF IInv, Granted
  <1>3. t.n = gen[t.fam]
    BY DEF Redeem
  <1> QED
    BY <1>1, <1>2, <1>3 DEF IInv, Newest

\* As long as nobody presents a token, nobody comes to share one.
LEMMA SharedKept ==
  ASSUME Shared, raced \subseteq raced',
         \A d \in Callers : exch'[d].st \in {"sent", "granted"} =>
           exch[d].st \in {"sent", "granted"} /\ exch'[d].tok = exch[d].tok
  PROVE  Shared'
  <1> SUFFICES ASSUME NEW c \in Callers, NEW d \in Callers, c # d,
                      InUse(c, exch[d].tok)', InUse(d, exch[d].tok)'
               PROVE  exch'[d].tok.fam \in raced'
    BY DEF Shared, FamOf
  <1>1. /\ exch[c].st \in {"sent", "granted"} /\ exch[d].st \in {"sent", "granted"}
        /\ exch[c].tok = exch[d].tok /\ exch'[d].tok = exch[d].tok
    BY DEF InUse
  <1> QED
    BY <1>1 DEF Shared, InUse, FamOf

\* A grant hands the family's next token to the caller that presented the
\* current one; whoever else presented it raced, and the storage now waits for
\* the answer.
LEMMA ServeGranted ==
  ASSUME IInv, NEW c \in Callers, Sent(c), Redeem(exch[c].tok),
         exch' = [exch EXCEPT ![c].st = "granted"],
         UNCHANGED <<issued, orphans, lost, raced, stored>>
  PROVE  IInv'
  <1> DEFINE t == exch[c].tok
  <1> USE DEF IInv
  <1>1. /\ exch[c] \in [st: {"sent", "granted", "refused"}, tok: Token]
        /\ t \in Token /\ t \in Seen /\ t.fam \in Families /\ t.n \in Nat
    BY Busy DEF Sent, FamOf
  <1>2. /\ exch'[c] = [st |-> "granted", tok |-> t]
        /\ \A d \in Callers : d # c => exch'[d] = exch[d]
        /\ \A d \in Callers : exch'[d].tok = exch[d].tok
        /\ exch' \in [Callers -> Exchange]
    BY AnswerForm
  <1>3. /\ gen' \in [Families -> Nat] /\ revoked' = revoked
        /\ t.n = gen[t.fam] /\ gen'[t.fam] = gen[t.fam] + 1
        /\ \A f \in Families : f # t.fam => gen'[f] = gen[f]
    BY <1>1, RedeemForm
  <1>4. TypeOK'
    BY <1>2, <1>3 DEF TypeOK, EndpointTypeOK
  <1>5. Seen' = Seen
    BY <1>2 DEF Seen
  <1>6. \A s \in Seen : s \in Token /\ s.fam \in Families /\ s.n \in Nat
    BY SeenTokens
  <1>7. Known'
    BY <1>3, <1>5, <1>6 DEF Known, TypeOK, EndpointTypeOK
  <1>8. Unused'
    BY <1>1, <1>3 DEF Unused, Known
  <1>9. Newest'
    <2> SUFFICES ASSUME NEW d \in Callers, Granted(d)'
                 PROVE  /\ gen'[exch'[d].tok.fam] = exch'[d].tok.n + 1
                        /\ \A s \in Seen : s.fam = exch'[d].tok.fam => s.n =< exch'[d].tok.n
                        /\ \A e \in Callers : Granted(e)' /\ exch'[e].tok.fam = exch'[d].tok.fam => e = d
      BY <1>5 DEF Newest, FamOf
    <2>1. \A e \in Callers : e # c /\ Granted(e)' => Granted(e) /\ FamOf(e) # t.fam
      BY <1>1, <1>2, NoGrantPending DEF Granted
    <2>2. CASE d = c
      BY <2>1, <2>2, <1>1, <1>2, <1>3, <1>6 DEF Known, FamOf
    <2>3. CASE d # c
      <3>1. Granted(d) /\ FamOf(d) # t.fam /\ FamOf(d) \in Families
        BY <2>1, <2>3, Busy DEF Granted
      <3>2. \A e \in Callers : Granted(e)' /\ exch'[e].tok.fam = exch'[d].tok.fam => Granted(e)
        BY <2>1, <3>1, <1>2 DEF FamOf
      <3> QED
        BY <3>1, <3>2, <1>2, <1>3 DEF Newest, FamOf
    <2> QED BY <2>2, <2>3
  <1>10. Current'
    <2> SUFFICES ASSUME NEW d \in Callers, Sent(d)', exch'[d].tok.fam \notin lost \cup raced
                 PROVE  exch'[d].tok.n = gen'[exch'[d].tok.fam]
      BY DEF Current, FamOf
    <2>1. d # c /\ Sent(d) /\ exch'[d].tok = exch[d].tok
      BY <1>2 DEF Sent
    <2>2. exch[d].tok \in Token /\ FamOf(d) \in Families /\ exch[d].tok.n = gen[FamOf(d)]
      BY <2>1, Busy DEF Current, Sent, FamOf
    <2>3. CASE FamOf(d) = t.fam
      <3>1. exch[d].tok = t
        BY <2>2, <2>3, <1>1, <1>3, TokenEq DEF FamOf
      <3> QED
        BY <3>1, <2>1 DEF Shared, InUse, FamOf, Sent
    <2>4. CASE FamOf(d) # t.fam
      BY <2>1, <2>2, <2>4, <1>3 DEF FamOf
    <2> QED BY <2>3, <2>4
  <1>11. Shared'
    BY <1>2, SharedKept DEF Sent
  <1>12. OrphansLost'
    BY DEF OrphansLost
  <1>13. StoredTokenLive'
    <2> SUFFICES ASSUME stored # NoToken, stored.fam \notin lost
                 PROVE  \/ stored.n = gen'[stored.fam]
                        \/ \E d \in Callers : exch'[d].st = "granted" /\ exch'[d].tok = stored
      BY DEF StoredTokenLive
    <2>1. stored \in Token /\ stored.fam \in Families
      BY DEF TypeOK, Token
    <2>2. CASE stored.n = gen[stored.fam] /\ stored.fam = t.fam
      BY <2>1, <2>2, <1>1, <1>2, <1>3, TokenEq
    <2>3. CASE stored.n = gen[stored.fam] /\ stored.fam # t.fam
      BY <2>1, <2>3, <1>3
    <2>4. ASSUME NEW d \in Callers, exch[d].st = "granted", exch[d].tok = stored
          PROVE  \E e \in Callers : exch'[e].st = "granted" /\ exch'[e].tok = stored
      BY <2>4, <1>2 DEF Sent
    <2> QED
      BY <2>2, <2>3, <2>4 DEF StoredTokenLive
  <1>14. ReuseHasCause'
    BY <1>3 DEF ReuseHasCause
  <1> QED
    BY <1>4, <1>7, <1>8, <1>9, <1>10, <1>11, <1>12, <1>13, <1>14

\* A step that hands out no token keeps the invariant: exchanges at most end,
\* and a token that is consumed, or an answer that is dropped, counts as lost.
LEMMA NothingNew ==
  ASSUME IInv, TypeOK', Seen' \subseteq Seen, OrphansLost', ReuseHasCause',
         issued' = issued, raced' = raced, lost \subseteq lost',
         stored' \in {stored, NoToken},
         \A d \in Callers : exch'[d].st \in {"sent", "granted"} => exch'[d] = exch[d],
         \A d \in Callers : Granted(d) => exch'[d] = exch[d] \/ FamOf(d) \in lost',
         \/ gen' = gen
         \/ \E t \in Seen : Redeem(t) /\ t.fam \in lost'
  PROVE  IInv'
  <1> USE DEF IInv
  <1>1. \A s \in Seen : s \in Token /\ s.fam \in Families /\ s.n \in Nat
    BY SeenTokens
  <1>2. /\ gen \in [Families -> Nat] /\ gen' \in [Families -> Nat]
        /\ \A f \in Families : gen[f] =< gen'[f] /\ (f \notin lost' => gen'[f] = gen[f])
        /\ \A f \in Families : gen'[f] # gen[f] =>
             f \in issued /\ \A d \in Callers : Granted(d) => FamOf(d) # f
    <2>1. gen \in [Families -> Nat] /\ gen' \in [Families -> Nat]
      BY DEF TypeOK, EndpointTypeOK
    <2>2. CASE gen' = gen
      BY <2>1, <2>2
    <2>3. ASSUME NEW t \in Seen, Redeem(t), t.fam \in lost' PROVE <1>2
      <3>1. /\ t.fam \in Families /\ gen'[t.fam] = gen[t.fam] + 1
            /\ \A f \in Families : f # t.fam => gen'[f] = gen[f]
        BY <1>1, <2>3, RedeemForm
      <3>2. t.fam \in issued /\ \A d \in Callers : Granted(d) => FamOf(d) # t.fam
        BY <2>3, NoGrantPending DEF Known
      <3> QED BY <2>1, <2>3, <3>1, <3>2
    <2> QED BY <2>2, <2>3
  <1>3. Known'
    <2> SUFFICES ASSUME NEW s \in Seen' PROVE s.fam \in issued /\ s.n =< gen'[s.fam]
      BY DEF Known
    <2>1. s.fam \in Families /\ s.n \in Nat /\ s.fam \in issued /\ s.n =< gen[s.fam]
      BY <1>1 DEF Known
    <2> QED BY <2>1, <1>2
  <1>4. Unused'
    BY <1>2 DEF Unused
  <1>5. Newest'
    <2>1. \A d \in Callers : Granted(d)' => Granted(d) /\ exch'[d] = exch[d]
      BY DEF Granted
    <2>2. \A d \in Callers : Granted(d) => FamOf(d) \in Families
      BY Busy DEF Granted
    <2>3. \A d \in Callers : Granted(d)' => gen'[FamOf(d)] = gen[FamOf(d)]
      BY <2>1, <2>2, <1>2
    <2> QED
      BY <2>1, <2>3 DEF Newest, FamOf
  <1>6. Current'
    <2>1. \A d \in Callers : Sent(d)' => Sent(d) /\ exch'[d] = exch[d] /\ FamOf(d) \in Families
      BY Busy DEF Sent
    <2> QED
      BY <2>1, <1>2 DEF Current, FamOf
  <1>7. Shared'
    BY SharedKept
  <1>8. StoredTokenLive'
    <2> SUFFICES ASSUME stored' # NoToken, stored'.fam \notin lost'
                 PROVE  \/ stored'.n = gen'[stored'.fam]
                        \/ \E d \in Callers : exch'[d].st = "granted" /\ exch'[d].tok = stored'
      BY DEF StoredTokenLive
    <2>1. stored' = stored /\ stored \in Token /\ stored.fam \in Families
      BY DEF TypeOK, Token
    <2>2. CASE stored.n = gen[stored.fam]
      BY <2>1, <2>2, <1>2
    <2>3. ASSUME NEW d \in Callers, exch[d].st = "granted", exch[d].tok = stored
          PROVE  \E e \in Callers : exch'[e].st = "granted" /\ exch'[e].tok = stored
      BY <2>1, <2>3 DEF Granted, FamOf
    <2> QED
      BY <2>1, <2>2, <2>3 DEF StoredTokenLive
  <1> QED
    BY <1>3, <1>4, <1>5, <1>6, <1>7, <1>8

\* Serving a request keeps the invariant.
LEMMA ServeInv ==
  ASSUME IInv, TypeOK', NEW c \in Callers, Serve(c), UNCHANGED stored
  PROVE  IInv'
  <1> DEFINE t == exch[c].tok
  <1> USE DEF IInv
  <1>1. Sent(c) /\ t \in Token /\ t \in Seen /\ t.fam \in Families /\ t.n \in Nat
    BY Busy DEF Serve, Sent, FamOf
  <1>2. CASE Redeem(t) /\ exch' = [exch EXCEPT ![c].st = "granted"] /\ UNCHANGED lost
    BY <1>1, <1>2, ServeGranted DEF Serve
  <1>3. CASE exch' = [exch EXCEPT ![c].st = "refused"]
    <2>1. /\ exch'[c] = [st |-> "refused", tok |-> t]
          /\ \A d \in Callers : d # c => exch'[d] = exch[d]
          /\ \A d \in Callers : exch'[d].tok = exch[d].tok
      BY <1>1, <1>3, AnswerForm
    <2>2. Seen' = Seen
      BY <2>1 DEF Seen, Serve
    <2>3. /\ \A d \in Callers : exch'[d].st \in {"sent", "granted"} => exch'[d] = exch[d]
          /\ \A d \in Callers : Granted(d) => exch'[d] = exch[d]
      BY <2>1, <1>1 DEF Sent, Granted
    <2>4. issued' = issued /\ orphans' = orphans /\ raced' = raced /\ lost \subseteq lost'
      BY DEF Serve
    <2>5. OrphansLost'
      BY <2>4 DEF OrphansLost
    <2>6. CASE Reject(t) /\ UNCHANGED lost
      <3>1. t.n < gen[t.fam] => t.fam \in lost \cup raced
        BY <1>1 DEF Current, FamOf, TypeOK, EndpointTypeOK
      <3>2. ReuseHasCause'
        BY <2>4, <2>6, <3>1 DEF Reject, ReuseHasCause
      <3> QED
        BY <2>2, <2>3, <2>4, <2>5, <2>6, <3>2, NothingNew DEF Reject
    <2>7. CASE Redeem(t) /\ lost' = lost \cup {t.fam}
      <3>1. ReuseHasCause'
        BY <2>4, <2>7 DEF Redeem, ReuseHasCause
      <3>2. \E s \in Seen : Redeem(s) /\ s.fam \in lost'
        BY <1>1, <2>7
      <3> QED
        BY <2>2, <2>3, <2>4, <2>5, <3>1, <3>2, NothingNew
    <2> QED
      BY <2>6, <2>7, <1>1, <2>1, <1>3 DEF Serve
  <1> QED
    BY <1>2, <1>3 DEF Serve

\* So does serving a request that nobody waits for, whose family counts as lost.
LEMMA OrphanInv ==
  ASSUME IInv, TypeOK', NEW t \in orphans, ServeOrphan(t), UNCHANGED stored
  PROVE  IInv'
  <1> USE DEF IInv
  <1>1. t \in Token /\ t \in Seen /\ t.fam \in lost
    BY Idle DEF Seen, OrphansLost, TypeOK, EndpointTypeOK
  <1>2. Seen' \subseteq Seen /\ OrphansLost'
    BY DEF ServeOrphan, Seen, OrphansLost
  <1>3. ReuseHasCause'
    BY <1>1 DEF ServeOrphan, Redeem, Reject, ReuseHasCause
  <1>4. gen' = gen \/ \E s \in Seen : Redeem(s) /\ s.fam \in lost'
    BY <1>1 DEF ServeOrphan, Reject
  <1> QED
    BY <1>2, <1>3, <1>4, NothingNew DEF ServeOrphan

\* So does giving up, which turns requests under way into orphans.
LEMMA GiveUpInv ==
  ASSUME IInv, TypeOK', NEW C \in SUBSET Callers, GiveUp(C)
  PROVE  IInv'
  <1> USE DEF IInv
  <1>1. \A d \in Callers : exch'[d] = IF d \in C THEN NoExchange ELSE exch[d]
    BY DEF GiveUp, Drop
  <1>2. Seen' \subseteq Seen
    <2>1. \A d \in Callers : exch'[d].tok \in {NoToken, exch[d].tok}
      BY <1>1, Idle
    <2>2. orphans' \subseteq orphans \cup {exch[d].tok : d \in Callers}
      BY DEF GiveUp, Drop
    <2> QED
      BY <2>1, <2>2 DEF Seen, GiveUp
  <1>3. OrphansLost'
    BY DEF OrphansLost, GiveUp, Drop
  <1>4. \A d \in Callers : exch'[d].st \in {"sent", "granted"} => exch'[d] = exch[d]
    BY <1>1, Idle
  <1>5. \A d \in Callers : Granted(d) => exch'[d] = exch[d] \/ FamOf(d) \in lost'
    BY <1>1 DEF GiveUp, Drop, Granted, FamOf
  <1>6. ReuseHasCause'
    BY DEF GiveUp, Drop, ReuseHasCause
  <1> QED
    BY <1>2, <1>3, <1>4, <1>5, <1>6, NothingNew DEF GiveUp, Drop

\* A login opens a family of which no token was held.
LEMMA SignInInv ==
  ASSUME IInv, TypeOK', NEW f \in Families, SignIn(f)
  PROVE  IInv'
  <1> USE DEF IInv
  <1>1. /\ f \notin issued /\ issued' = issued \cup {f} /\ stored' = First(f)
        /\ UNCHANGED <<gen, revoked, orphans, exch, lost, raced>>
    BY DEF SignIn, Grant
  <1>2. First(f) \in Token /\ First(f).fam = f /\ First(f).n = 0 /\ gen[f] = 0
    BY <1>1, TokenForms DEF Unused
  <1>3. Seen' \subseteq Seen \cup {First(f)}
    BY <1>1 DEF Seen
  <1>4. Known'
    BY <1>1, <1>2, <1>3 DEF Known
  <1>5. Unused'
    BY <1>1 DEF Unused
  <1>6. Newest'
    <2>1. \A c \in Callers : Granted(c) => FamOf(c) # f
      BY <1>1, Busy DEF Granted, Known, FamOf
    <2> QED
      BY <2>1, <1>1, <1>2, <1>3 DEF Newest, Granted, FamOf
  <1>7. Current' /\ OrphansLost' /\ ReuseHasCause'
    BY <1>1 DEF Current, Sent, FamOf, OrphansLost, ReuseHasCause
  <1>8. Shared'
    BY <1>1, SharedKept
  <1>9. StoredTokenLive'
    BY <1>1, <1>2 DEF StoredTokenLive
  <1> QED
    BY <1>4, <1>5, <1>6, <1>7, <1>8, <1>9

\* Who presents the stored token presents the server's, or the answer that
\* replaces it is on its way to another caller: then the two raced.
LEMMA PresentInv ==
  ASSUME IInv, TypeOK', NEW c \in Callers, Present(c)
  PROVE  IInv'
  <1> USE DEF IInv
  <1>1. /\ stored # NoToken /\ stored \in Token /\ stored.fam \in Families
        /\ exch[c] = NoExchange /\ exch[c].st = "idle"
        /\ exch'[c] = [st |-> "sent", tok |-> stored]
        /\ \A d \in Callers : d # c => exch'[d] = exch[d]
        /\ raced' = IF \E d \in Callers \ {c} : InUse(d, stored) THEN raced \cup {stored.fam} ELSE raced
        /\ UNCHANGED <<issued, gen, revoked, orphans, lost, stored>>
    BY Idle DEF Present, Ask, TypeOK, EndpointTypeOK, Token
  <1>2. Seen' \subseteq Seen
    BY <1>1 DEF Seen
  <1>3. Known' /\ Unused' /\ OrphansLost'
    BY <1>1, <1>2 DEF Known, Unused, OrphansLost
  <1>4. Newest'
    <2>1. \A d \in Callers : Granted(d)' => d # c /\ Granted(d) /\ exch'[d] = exch[d]
      BY <1>1 DEF Granted
    <2> QED
      BY <2>1, <1>1, <1>2 DEF Newest, FamOf
  <1>5. Current'
    <2> SUFFICES ASSUME NEW d \in Callers, Sent(d)', exch'[d].tok.fam \notin lost \cup raced'
                 PROVE  exch'[d].tok.n = gen[exch'[d].tok.fam]
      BY <1>1 DEF Current, FamOf
    <2>1. CASE d = c
      <3>1. ~ \E e \in Callers : exch[e].st = "granted" /\ exch[e].tok = stored
        BY <2>1, <1>1 DEF InUse
      <3> QED
        BY <3>1, <2>1, <1>1 DEF StoredTokenLive
    <2>2. CASE d # c
      BY <2>2, <1>1 DEF Current, Sent, FamOf
    <2> QED BY <2>1, <2>2
  <1>6. Shared'
    <2> SUFFICES ASSUME NEW d \in Callers, NEW e \in Callers, d # e,
                        exch'[d].st \in {"sent", "granted"}, exch'[e].st \in {"sent", "granted"},
                        exch'[d].tok = exch'[e].tok
                 PROVE  exch'[e].tok.fam \in raced'
      BY DEF Shared, InUse, FamOf
    <2>1. CASE d = c
      BY <2>1, <1>1 DEF InUse
    <2>2. CASE e = c
      BY <2>2, <1>1 DEF InUse
    <2>3. CASE d # c /\ e # c
      BY <2>3, <1>1 DEF Shared, InUse, FamOf
    <2> QED BY <2>1, <2>2, <2>3
  <1>7. StoredTokenLive'
    <2>1. \A d \in Callers : exch[d].st = "granted" => exch'[d] = exch[d]
      BY <1>1
    <2> QED
      BY <2>1, <1>1 DEF StoredTokenLive
  <1>8. ReuseHasCause'
    BY <1>1 DEF ReuseHasCause
  <1> QED
    BY <1>3, <1>4, <1>5, <1>6, <1>7, <1>8

\* An answer that is saved brings the server's token into the storage.
LEMMA SaveInv ==
  ASSUME IInv, TypeOK', NEW c \in Callers, Save(c)
  PROVE  IInv'
  <1> DEFINE t == exch[c].tok
  <1> USE DEF IInv
  <1>1. /\ Granted(c) /\ exch'[c] = NoExchange /\ stored' = Succ(t)
        /\ \A d \in Callers : d # c => exch'[d] = exch[d]
        /\ UNCHANGED <<issued, gen, revoked, orphans, lost, raced>>
    BY DEF Save, Take, Granted, TypeOK, EndpointTypeOK
  <1>2. t \in Token /\ t \in Seen /\ t.fam \in Families /\ t.n \in Nat
    BY <1>1, Busy DEF Granted, FamOf
  <1>3. Succ(t) \in Token /\ Succ(t).fam = t.fam /\ Succ(t).n = t.n + 1 /\ gen[t.fam] = t.n + 1
    BY <1>1, <1>2, TokenForms DEF Newest, FamOf
  <1>4. Seen' \subseteq Seen \cup {Succ(t)}
    BY <1>1, Idle DEF Seen
  <1>5. Known'
    BY <1>1, <1>2, <1>3, <1>4 DEF Known
  <1>6. Unused' /\ OrphansLost' /\ ReuseHasCause'
    BY <1>1 DEF Unused, OrphansLost, ReuseHasCause
  <1>7. \A d \in Callers : exch'[d].st \in {"sent", "granted"} => d # c /\ exch'[d] = exch[d]
    BY <1>1, Idle
  <1>8. Newest'
    <2>1. \A d \in Callers : Granted(d)' => Granted(d) /\ exch'[d] = exch[d] /\ FamOf(d) # t.fam
      BY <1>1, <1>7 DEF Newest, Granted, FamOf
    <2> QED
      BY <2>1, <1>1, <1>3, <1>4 DEF Newest, FamOf
  <1>9. Current'
    BY <1>1, <1>7 DEF Current, Sent, FamOf
  <1>10. Shared'
    BY <1>1, <1>7, SharedKept
  <1>11. StoredTokenLive'
    BY <1>1, <1>3 DEF StoredTokenLive
  <1> QED
    BY <1>5, <1>6, <1>8, <1>9, <1>10, <1>11

-----------------------------------------------------------------------------
\* The invariant survives every step.
LEMMA InvNext == IInv /\ [Next]_vars => IInv'
  <1> SUFFICES ASSUME IInv, [Next]_vars PROVE IInv'
    OBVIOUS
  <1>1. TypeOK'
    BY TypeNext DEF IInv
  <1>2. CASE UNCHANGED vars
    BY <1>2 DEF vars, endpointVars, IInv, TypeOK, EndpointTypeOK, Known, Seen, Unused, Newest,
                Current, Shared, InUse, OrphansLost, StoredTokenLive, ReuseHasCause,
                Granted, Sent, FamOf
  <1>3. CASE ServerStep /\ UNCHANGED stored
    BY <1>1, <1>3, ServeInv, OrphanInv DEF ServerStep
  <1> QED
    BY <1>1, <1>2, <1>3, SignInInv, PresentInv, SaveInv, GiveUpInv DEF Next

\* The invariant holds before the first login.
LEMMA InvInit == Init => IInv
  <1> SUFFICES ASSUME Init PROVE IInv
    OBVIOUS
  <1>1. TypeOK
    BY DEF Init, EndpointInit, TypeOK, EndpointTypeOK, Exchange
  <1>2. Seen = {}
    BY Idle DEF Init, EndpointInit, Seen
  <1>3. \A c \in Callers : exch[c].st = "idle"
    BY Idle DEF Init, EndpointInit
  <1>4. Known /\ Unused /\ OrphansLost /\ StoredTokenLive /\ ReuseHasCause
    BY <1>2 DEF Known, Unused, OrphansLost, StoredTokenLive, ReuseHasCause, Init, EndpointInit
  <1>5. \A c \in Callers : ~ Granted(c) /\ ~ Sent(c) /\ exch[c].st \notin {"sent", "granted"}
    BY <1>3 DEF Granted, Sent
  <1>6. Newest /\ Current
    BY <1>5 DEF Newest, Current
  <1>7. Shared
    BY <1>5 DEF Shared, InUse
  <1> QED BY <1>1, <1>4, <1>6, <1>7 DEF IInv

\* The invariant holds before the first login and after every step.
THEOREM Invariance == Spec => []IInv
  BY InvInit, InvNext, PTL DEF Spec

\* A stored token that the server has replaced is explained by an answer on its
\* way or by something lost.
THEOREM StoredLive == Spec => []StoredTokenLive
  BY Invariance, PTL DEF IInv

\* Reuse detection only hits a family with a race or a loss.
THEOREM CausedReuse == Spec => []ReuseHasCause
  BY Invariance, PTL DEF IInv

\* The storage does not go back to an older token of the same login.
Forward ==
  (stored # NoToken /\ stored' # NoToken /\ stored'.fam = stored.fam) => stored'.n >= stored.n

\* No step makes it go back: an answer that is saved is newer than what is held.
LEMMA ForwardStep == IInv /\ [Next]_vars => [Forward]_vars
  <1> SUFFICES ASSUME IInv, Next, stored # NoToken, stored' # NoToken, stored'.fam = stored.fam
               PROVE  stored'.n >= stored.n
    BY DEF Forward
  <1>1. stored \in Seen /\ stored.n \in Nat
    BY SeenTokens DEF Seen, IInv
  <1>2. CASE stored' = stored
    BY <1>1, <1>2
  <1>3. ASSUME NEW f \in Families, SignIn(f) PROVE FALSE
    BY <1>1, <1>3, TokenForms DEF SignIn, Grant, IInv, Known
  <1>4. ASSUME NEW c \in Callers, Save(c) PROVE stored'.n >= stored.n
    <2>1. Granted(c) /\ exch[c].tok \in Token /\ exch[c].tok.n \in Nat
      BY <1>4, Busy DEF Save, Take, Granted, IInv
    <2>2. stored'.fam = FamOf(c) /\ stored'.n = exch[c].tok.n + 1
      BY <2>1, <1>4, TokenForms DEF Save, FamOf
    <2>3. stored.n =< exch[c].tok.n
      BY <2>1, <2>2, <1>1 DEF IInv, Newest
    <2> QED
      BY <2>1, <2>2, <2>3, <1>1
  <1> QED
    BY <1>2, <1>3, <1>4 DEF Next, Present, GiveUp

\* The storage never falls back within a login, in whatever order the answers
\* are saved.
THEOREM Monotone == Spec => NoRollback
  BY ForwardStep, Invariance, PTL DEF Spec, NoRollback, Forward
=============================================================================
