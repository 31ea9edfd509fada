---------------------------- MODULE TokenEndpoint ----------------------------
(***************************************************************************)
(* The token endpoint as its clients meet it, and the refresh exchanges    *)
(* that are under way.  RefreshRotation models the same endpoint from the  *)
(* inside, one store call at a time; here a refresh request is served in   *)
(* one step, and what is kept is what a client can observe of it:          *)
(*   - a login opens a family; every accepted refresh hands out the next   *)
(*     member of the family and makes the previous one unusable;           *)
(*   - a member that is presented again is refused, and the family may be  *)
(*     revoked (the revocation of RefreshRotation can fail);               *)
(*   - any request may be refused for another reason: the token expired,   *)
(*     an administrator revoked it, the response to a reuse elsewhere fell *)
(*     back to every token of the client, the database said no.            *)
(* [fam |-> f, n |-> n] stands for the n-th refresh token of the family f  *)
(* and for the access token issued with it.                                *)
(*                                                                         *)
(* exch[c] is the refresh exchange of caller c: "sent" until the server    *)
(* answers, then "granted" or "refused" until the answer reaches the       *)
(* caller's code.  A caller that is gone, or whose fetch rejects, leaves   *)
(* its request behind in orphans: it may reach the server later or never.  *)
(***************************************************************************)
EXTENDS Naturals

CONSTANTS
  Families,  \* logins: one family of tokens each
  Callers,   \* console: API calls; React: mounted providers; native: operations
  Tabs,      \* browser tabs of the console
  TabOf,     \* the tab each console call runs in
  MaxGen,    \* bound: rotations of each family
  NoToken    \* nothing stored, nothing presented

ASSUME EndpointAssumption ==
  /\ TabOf \in [Callers -> Tabs]
  /\ MaxGen \in [Families -> Nat]
  /\ NoToken \notin [fam: Families, n: Nat]

VARIABLES
  issued,   \* families handed out by a login
  gen,      \* the member of each family that can still be used
  revoked,  \* families that reuse detection has revoked
  orphans,  \* tokens of requests nobody waits for any more
  exch,     \* the refresh exchange of each caller
  lost,     \* history: families with a request, an answer or a token nobody received
  raced     \* history: families with one token presented by two callers at once

endpointVars == <<issued, gen, revoked, orphans, exch, lost, raced>>

Token == [fam: Families, n: Nat]
First(f) == [fam |-> f, n |-> 0]
Succ(t) == [fam |-> t.fam, n |-> t.n + 1]

NoExchange == [st |-> "idle", tok |-> NoToken]
Exchange ==
  [st: {"sent", "granted", "refused"}, tok: Token] \cup {NoExchange}

EndpointTypeOK ==
  /\ issued \subseteq Families
  /\ gen \in [Families -> Nat]
  /\ revoked \subseteq Families
  /\ orphans \subseteq Token
  /\ exch \in [Callers -> Exchange]
  /\ lost \subseteq Families /\ raced \subseteq Families

EndpointInit ==
  /\ issued = {}
  /\ gen = [f \in Families |-> 0]
  /\ revoked = {} /\ orphans = {}
  /\ exch = [c \in Callers |-> NoExchange]
  /\ lost = {} /\ raced = {}

-----------------------------------------------------------------------------
(* The server's side. *)

\* Faulty variant: the UPDATE does not ask for used = false, and a superseded
\* token is rotated once more.
Redeem_AcceptsOld(t) ==
  /\ t.fam \notin revoked
  /\ gen[t.fam] < MaxGen[t.fam]
  /\ gen' = [gen EXCEPT ![t.fam] = t.n + 1]
  /\ UNCHANGED revoked

\* The presented token is the live one: it is consumed, its successor issued.
Redeem(t) ==
  /\ t.fam \notin revoked /\ t.n = gen[t.fam]
  /\ gen[t.fam] < MaxGen[t.fam]
  /\ gen' = [gen EXCEPT ![t.fam] = @ + 1]
  /\ UNCHANGED revoked

\* Refused: reuse of an old member, which may revoke the family, or any other
\* reason, which changes nothing.
Reject(t) ==
  /\ \/ UNCHANGED revoked
     \/ t.n < gen[t.fam] /\ revoked' = revoked \cup {t.fam}
  /\ UNCHANGED gen

\* The last case: the token was consumed and storing its successor failed, so
\* the family's next token is lost on the server's side.
Serve(c) ==
  LET t == exch[c].tok
      Answer(what) == exch' = [exch EXCEPT ![c].st = what]
  IN /\ exch[c].st = "sent"
     /\ \/ Redeem(t) /\ Answer("granted") /\ UNCHANGED lost
        \/ Reject(t) /\ Answer("refused") /\ UNCHANGED lost
        \/ Redeem(t) /\ Answer("refused") /\ lost' = lost \cup {t.fam}
     /\ UNCHANGED <<issued, orphans, raced>>

ServeOrphan(t) ==
  /\ t \in orphans
  /\ Redeem(t) \/ Reject(t)
  /\ orphans' = orphans \ {t}
  /\ UNCHANGED <<issued, exch, lost, raced>>

ServerStep ==
  \/ \E c \in Callers : Serve(c)
  \/ \E t \in orphans : ServeOrphan(t)

-----------------------------------------------------------------------------
(* The client's side of an exchange: parts of the clients' actions. *)

\* A login answer with a token of a new family.
Grant(f) ==
  /\ f \notin issued
  /\ issued' = issued \cup {f}
  /\ UNCHANGED <<gen, revoked, orphans, exch, lost, raced>>

InUse(d, t) == exch[d].st \in {"sent", "granted"} /\ exch[d].tok = t

\* POST grant_type=refresh_token with token t.
Ask(c, t) ==
  /\ exch[c] = NoExchange
  /\ exch' = [exch EXCEPT ![c] = [st |-> "sent", tok |-> t]]
  /\ raced' = IF \E d \in Callers \ {c} : InUse(d, t) THEN raced \cup {t.fam} ELSE raced
  /\ UNCHANGED <<issued, gen, revoked, orphans, lost>>

\* The answer's tokens are in the caller's hands.
Take(c) ==
  /\ exch[c].st = "granted"
  /\ exch' = [exch EXCEPT ![c] = NoExchange]
  /\ UNCHANGED <<issued, gen, revoked, orphans, lost, raced>>

\* The callers in C stop waiting: a refusal was read, the fetch rejected, or
\* the page or the application is gone.
Drop(C) ==
  /\ exch' = [c \in Callers |-> IF c \in C THEN NoExchange ELSE exch[c]]
  /\ orphans' = orphans \cup {exch[c].tok : c \in {d \in C : exch[d].st = "sent"}}
  /\ lost' = lost \cup {exch[c].tok.fam : c \in {d \in C : exch[d].st \in {"sent", "granted"}}}
  /\ UNCHANGED <<issued, gen, revoked, raced>>
=============================================================================
