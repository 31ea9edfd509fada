----------------------- MODULE AuthorizationCode_proofs -----------------------
(***************************************************************************)
(* Proofs about AuthorizationCode for every set of requests, codes,        *)
(* clients, URIs, verifiers and states and every number of failures: its   *)
(* types, the inductive invariant, what tokens are bound to, and that a    *)
(* code is a one-time grant.                                               *)
(***************************************************************************)
EXTENDS AuthorizationCode, TLAPS

\* Types survive every step of a token request.
LEMMA TypeHandler ==
  ASSUME TypeOK, NEW p \in Requests, Handler(p)
  PROVE TypeOK'
  <1> USE CodeAssumption
      DEF TypeOK, Goto, Refuse, Code, StateOf, codeVars, stateVars, histVars, Steps
  <1>1. CASE StateFound(p) BY <1>1 DEF StateFound, StateKey, Params
  <1>2. CASE StateMissing(p) BY <1>2 DEF StateMissing, Fault
  <1>3. CASE LoadState(p) BY <1>3 DEF LoadState
  <1>4. CASE DeleteState(p) BY <1>4 DEF DeleteState, StateKey, Params
  <1>5. CASE CheckClient(p) BY <1>5 DEF CheckClient
  <1>6. CASE ConsumeCode(p) BY <1>6 DEF ConsumeCode, Consumable, Params
  <1>7. CASE ConsumeMisses(p) BY <1>7 DEF ConsumeMisses
  <1>8. CASE ConsumeFails(p) BY <1>8 DEF ConsumeFails, Consumable, Fault, Params
  <1>9. CASE IssueTokens(p) BY <1>9 DEF IssueTokens, Answer, Params
  <1>10. CASE StoreRoot(p) BY <1>10 DEF StoreRoot, Answer, Params
  <1>11. CASE IssueFails(p) BY <1>11 DEF IssueFails, Fault
  <1> QED
    BY <1>1, <1>2, <1>3, <1>4, <1>5, <1>6, <1>7, <1>8, <1>9, <1>10, <1>11 DEF Handler

\* Types survive an authorization, the start of a request, the clock, the
\* cleanup and administration.
LEMMA TypeOther ==
  ASSUME TypeOK,
         \/ \E g \in Codes, r \in Grant : Authorize(g, r)
         \/ \E p \in Requests, a \in Params : StartExchange(p, a)
         \/ Environment
  PROVE TypeOK'
  <1> USE CodeAssumption
      DEF TypeOK, Goto, codeVars, stateVars, histVars, requestVars, Steps
  <1>1. ASSUME NEW g \in Codes, NEW r \in Grant, Authorize(g, r) PROVE TypeOK'
    BY <1>1 DEF Authorize, Fault, Grant, StateKey
  <1>2. ASSUME NEW p \in Requests, NEW a \in Params, StartExchange(p, a) PROVE TypeOK'
    BY <1>2 DEF StartExchange, Params
  <1>3. ASSUME NEW g \in Codes, Expire(g) PROVE TypeOK'
    BY <1>3 DEF Expire
  <1>4. ASSUME NEW k \in StateKey, ExpireState(k) PROVE TypeOK'
    BY <1>4 DEF ExpireState
  <1>5. ASSUME NEW c \in Clients, DeleteClient(c) PROVE TypeOK'
    BY <1>5 DEF DeleteClient, Remove, Params
  <1>6. ASSUME NEW c \in Clients, DisableClient(c) \/ EnableClient(c) PROVE TypeOK'
    BY <1>6 DEF DisableClient, EnableClient
  <1>7. ASSUME NEW S \in SUBSET Codes, DeleteUser(S) PROVE TypeOK'
    BY <1>7 DEF DeleteUser, Remove, Params
  <1>8. CASE Cleanup
    BY <1>8 DEF Cleanup, Remove, Params
  <1> QED
    BY <1>1, <1>2, <1>3, <1>4, <1>5, <1>6, <1>7, <1>8 DEF Environment

\* Types survive every step.
LEMMA TypeNext == TypeOK /\ [Next]_vars => TypeOK'
  <1>1. CASE UNCHANGED vars
    BY <1>1 DEF vars, TypeOK
  <1> QED
    BY <1>1, TypeHandler, TypeOther DEF Next

\* Every state is of the declared types.
THEOREM TypeCorrect == Spec => []TypeOK
  <1>1. Init => TypeOK
    BY CodeAssumption DEF Init, TypeOK, Steps
  <1> QED
    BY <1>1, TypeNext, PTL DEF Spec

-----------------------------------------------------------------------------
(* The inductive invariant. *)

\* What was authorized, and what an answered request asked for, never change.
Settled ==
  /\ \A g \in Codes : status[g] # "absent" => rec'[g] = rec[g] /\ status'[g] # "absent"
  /\ \A p \in Requests : pc[p] = "done" => pc'[p] = "done" /\ arg'[p] = arg[p]
  /\ \A p \in Requests : pc[p] # "idle" /\ pc'[p] # "done" => pc'[p] # "idle" /\ arg'[p] = arg[p]
  /\ accepted \subseteq accepted'
  /\ \A g \in Codes : status'[g] = "absent" /\ g \in expired' => status[g] = "absent" /\ g \in expired

\* A step that neither spends a code nor answers a request.
QuietStep ==
  /\ \A p \in Requests, g \in Codes : Spender(p, g)' => Spender(p, g)
  /\ \A g \in Codes : status[g] \in {"used", "gone"} => status'[g] \in {"used", "gone"}
  /\ got' = got

\* The UPDATE of ConsumeCode elects p.
SpendStep(p) ==
  /\ Consumable(Code(p)) /\ Matches(Code(p), arg[p])
  /\ pc[p] = "consume" /\ pc' = [pc EXCEPT ![p] = "issue"]
  /\ status' = [status EXCEPT ![Code(p)] = "used"]
  /\ UNCHANGED <<rec, expired, arg, accepted, got>>

\* p is answered with tokens.
AnswerStep(p) ==
  /\ Spender(p, Code(p))
  /\ pc' = [pc EXCEPT ![p] = "done"]
  /\ got' = [got EXCEPT ![Code(p)] = @ \cup {p}]
  /\ UNCHANGED <<status, rec, expired, arg, accepted>>

\* Every step of a request is of one of the three kinds.
LEMMA HandlerKinds ==
  ASSUME TypeOK, NEW p \in Requests, Handler(p)
  PROVE Settled /\ (QuietStep \/ SpendStep(p) \/ AnswerStep(p))
  <1> USE DEF TypeOK, Goto, Refuse, Code, codeVars, stateVars, histVars, Settled, QuietStep, Spender
  <1>1. CASE StateFound(p) BY <1>1 DEF StateFound
  <1>2. CASE StateMissing(p) BY <1>2 DEF StateMissing
  <1>3. CASE LoadState(p)
    <2>1. CASE Goto(p, "memdel") /\ UNCHANGED arg BY <1>3, <2>1 DEF LoadState
    <2>2. CASE Refuse(p) BY <1>3, <2>2 DEF LoadState
    <2> QED BY <1>3, <2>1, <2>2 DEF LoadState
  <1>4. CASE DeleteState(p) BY <1>4 DEF DeleteState
  <1>5. CASE CheckClient(p)
    <2>1. CASE Goto(p, "consume") /\ UNCHANGED arg BY <1>5, <2>1 DEF CheckClient
    <2>2. CASE Refuse(p) BY <1>5, <2>2 DEF CheckClient
    <2> QED BY <1>5, <2>1, <2>2 DEF CheckClient
  <1>6. CASE ConsumeCode(p)
    <2>1. CASE Matches(Code(p), arg[p]) BY <1>6, <2>1 DEF ConsumeCode, SpendStep, Params
    <2>2. CASE ~Matches(Code(p), arg[p]) BY <1>6, <2>2 DEF ConsumeCode, Consumable, Params
    <2> QED BY <2>1, <2>2
  <1>7. CASE ConsumeMisses(p) BY <1>7 DEF ConsumeMisses
  <1>8. CASE ConsumeFails(p) BY <1>8 DEF ConsumeFails, Consumable, Params
  <1>9. CASE IssueTokens(p)
    <2>1. CASE rec[Code(p)].offline BY <1>9, <2>1 DEF IssueTokens
    <2>2. CASE ~rec[Code(p)].offline BY <1>9, <2>2 DEF IssueTokens, Answer, AnswerStep
    <2> QED BY <2>1, <2>2
  <1>10. CASE StoreRoot(p) BY <1>10 DEF StoreRoot, Answer, AnswerStep
  <1>11. CASE IssueFails(p) BY <1>11 DEF IssueFails
  <1> QED
    BY <1>1, <1>2, <1>3, <1>4, <1>5, <1>6, <1>7, <1>8, <1>9, <1>10, <1>11 DEF Handler

\* The other steps are quiet.
LEMMA OtherKinds ==
  ASSUME TypeOK,
         \/ \E g \in Codes, r \in Grant : Authorize(g, r)
         \/ \E p \in Requests, a \in Params : StartExchange(p, a)
         \/ Environment
         \/ UNCHANGED vars
  PROVE Settled /\ QuietStep
  <1> USE DEF TypeOK, Goto, Code, codeVars, stateVars, histVars, requestVars, Settled, QuietStep,
              Spender
  <1>1. ASSUME NEW g \in Codes, NEW r \in Grant, Authorize(g, r) PROVE Settled /\ QuietStep
    BY <1>1 DEF Authorize
  <1>2. ASSUME NEW p \in Requests, NEW a \in Params, StartExchange(p, a)
        PROVE Settled /\ QuietStep
    BY <1>2 DEF StartExchange
  <1>3. ASSUME NEW g \in Codes, Expire(g) PROVE Settled /\ QuietStep
    BY <1>3 DEF Expire
  <1>4. ASSUME NEW k \in StateKey, ExpireState(k) PROVE Settled /\ QuietStep
    BY <1>4 DEF ExpireState
  <1>5. ASSUME NEW c \in Clients, DeleteClient(c) PROVE Settled /\ QuietStep
    BY <1>5 DEF DeleteClient, Remove
  <1>6. ASSUME NEW c \in Clients, DisableClient(c) \/ EnableClient(c) PROVE Settled /\ QuietStep
    BY <1>6 DEF DisableClient, EnableClient
  <1>7. ASSUME NEW S \in SUBSET Codes, DeleteUser(S) PROVE Settled /\ QuietStep
    BY <1>7 DEF DeleteUser, Remove
  <1>8. CASE Cleanup BY <1>8 DEF Cleanup, Remove
  <1>9. CASE UNCHANGED vars BY <1>9 DEF vars
  <1> HIDE DEF Settled, QuietStep
  <1> QED
    BY <1>1, <1>2, <1>3, <1>4, <1>5, <1>6, <1>7, <1>8, <1>9 DEF Environment

\* Every step is of one of the three kinds.
LEMMA StepKinds ==
  ASSUME TypeOK, [Next]_vars
  PROVE Settled /\ (QuietStep \/ \E p \in Requests : SpendStep(p) \/ AnswerStep(p))
  BY HandlerKinds, OtherKinds DEF Next

\* At most one request is past the UPDATE for a code, and it comes first.
LEMMA OneSpenderNext ==
  ASSUME IInv, [Next]_vars
  PROVE OneSpender'
  <1> USE DEF IInv, TypeOK
  <1>1. CASE QuietStep
    <2>1. \A g \in Codes : status'[g] = "absent" => g \notin expired'
      BY StepKinds DEF Settled, OneSpender
    <2> QED
      BY <1>1, <2>1, TypeNext DEF QuietStep, OneSpender
  <1>2. ASSUME NEW p \in Requests, SpendStep(p) PROVE OneSpender'
    BY <1>2 DEF SpendStep, OneSpender, Spender, Code, Consumable, Params
  <1>3. ASSUME NEW p \in Requests, AnswerStep(p) PROVE OneSpender'
    BY <1>3 DEF AnswerStep, OneSpender, Spender, Code, Params
  <1> QED
    BY <1>1, <1>2, <1>3, StepKinds

\* A request past ValidateState had its state accepted.
LEMMA AcceptedNext ==
  ASSUME TypeOK, Checked, [Next]_vars, NEW q \in Requests,
         pc'[q] \in {"client", "consume", "issue", "refresh"}
  PROVE (<<q, StateOf(q)>> \in accepted)'
  <1> USE DEF TypeOK, Goto, Refuse, StateOf, codeVars, stateVars, histVars
  <1>1. CASE pc[q] \in {"client", "consume", "issue", "refresh"}
    BY <1>1, StepKinds DEF Settled, Checked
  <1>2. ASSUME pc[q] \notin {"client", "consume", "issue", "refresh"}
        PROVE (<<q, StateOf(q)>> \in accepted)'
    <2>1. ASSUME NEW p \in Requests, Handler(p) PROVE p = q /\ (StateFound(p) \/ DeleteState(p))
      <3>1. CASE StateFound(p) \/ DeleteState(p)
        BY <1>2, <3>1 DEF StateFound, DeleteState
      <3>2. CASE ~(StateFound(p) \/ DeleteState(p))
        BY <1>2, <2>1, <3>2
        DEF Handler, StateFound, StateMissing, LoadState, DeleteState, CheckClient, ConsumeCode,
            ConsumeMisses, ConsumeFails, IssueTokens, StoreRoot, IssueFails, Answer
      <3> QED BY <3>1, <3>2
    <2>2. ASSUME NEW p \in Requests, NEW a \in Params, StartExchange(p, a) PROVE FALSE
      BY <1>2, <2>2 DEF StartExchange
    <2>3. (\E g \in Codes, r \in Grant : Authorize(g, r)) \/ Environment \/ UNCHANGED vars => FALSE
      BY <1>2 DEF Authorize, Environment, Expire, ExpireState, DeleteClient, DisableClient,
                  EnableClient, DeleteUser, Cleanup, requestVars, vars
    <2>4. StateFound(q) \/ DeleteState(q)
      BY <2>1, <2>2, <2>3 DEF Next
    <2> QED
      BY <2>4 DEF StateFound, DeleteState
  <1> QED
    BY <1>1, <1>2

\* Only an authorization draws a code, and it enforces PKCE.
LEMMA ChallengeNext ==
  ASSUME TypeOK, Checked, [Next]_vars, NEW g \in Codes, status'[g] # "absent",
         rec'[g].client \in Public
  PROVE rec'[g].challenge # None
  <1>1. CASE status[g] # "absent"
    BY <1>1, StepKinds DEF Settled, Checked
  <1>2. CASE status[g] = "absent"
    <2> USE DEF TypeOK, codeVars
    <2>1. ASSUME NEW p \in Requests, Handler(p) PROVE FALSE
      BY <1>2, <2>1 DEF Handler, StateFound, StateMissing, LoadState, DeleteState, CheckClient,
            ConsumeCode, ConsumeMisses, ConsumeFails, Consumable, IssueTokens, StoreRoot, IssueFails
    <2>2. ASSUME NEW p \in Requests, NEW a \in Params, StartExchange(p, a) PROVE FALSE
      BY <1>2, <2>2 DEF StartExchange
    <2>3. Environment \/ UNCHANGED vars => FALSE
      BY <1>2 DEF Environment, Expire, ExpireState, DeleteClient, DisableClient,
                  EnableClient, DeleteUser, Cleanup, Remove, vars
    <2>4. PICK h \in Codes, r \in Grant : Authorize(h, r)
      BY <2>1, <2>2, <2>3 DEF Next
    <2> QED
      BY <1>2, <2>4 DEF Authorize
  <1> QED
    BY <1>1, <1>2

\* A request keeps what it was checked for.
LEMMA CheckedNext ==
  ASSUME IInv, [Next]_vars
  PROVE Checked'
  <1> USE DEF IInv, TypeOK
  <1>1. ASSUME NEW p \in Requests, NEW g \in Codes, Spender(p, g)' PROVE Matches(g, arg[p])'
    <2>1. CASE Spender(p, g)
      <3>1. rec'[g] = rec[g] /\ arg'[p] = arg[p]
        BY <1>1, <2>1, StepKinds DEF Settled, OneSpender, Spender
      <3> QED
        BY <2>1, <3>1 DEF Checked, Matches
    <2>2. CASE ~Spender(p, g)
      BY <1>1, <2>2, StepKinds DEF QuietStep, SpendStep, AnswerStep, Spender, Code, Matches
    <2> QED BY <2>1, <2>2
  <1>2. ASSUME NEW g \in Codes, NEW p \in got'[g] PROVE pc'[p] = "done"
    <2>1. CASE p \in got[g]
      BY <2>1, StepKinds DEF Settled, Checked
    <2>2. CASE p \notin got[g]
      BY <1>2, <2>2, StepKinds DEF QuietStep, SpendStep, AnswerStep, Code, Params
    <2> QED BY <2>1, <2>2
  <1> QED
    BY <1>1, <1>2, AcceptedNext, ChallengeNext DEF Checked

\* Whoever is answered passed every check.
LEMMA TokensBoundNext ==
  ASSUME IInv, [Next]_vars
  PROVE TokensBound'
  <1> USE DEF IInv, TypeOK
  <1>1. SUFFICES ASSUME NEW g \in Codes, NEW p \in got'[g]
                 PROVE /\ arg'[p] \in Params /\ Code(p)' = g /\ Matches(g, arg[p])'
                       /\ arg'[p].client \in Public => arg'[p].verifier # None
                       /\ (<<p, StateOf(p)>> \in accepted)'
    BY DEF TokensBound
  <1>2. CASE p \in got[g]
    <2>1. pc[p] = "done" /\ status[g] # "absent" /\ p \in Requests
      BY <1>2 DEF Checked, OneSpender
    <2>2. arg'[p] = arg[p] /\ rec'[g] = rec[g] /\ accepted \subseteq accepted'
      BY <2>1, StepKinds DEF Settled
    <2> QED
      BY <1>2, <2>2 DEF TokensBound, Code, StateOf, Matches
  <1>3. CASE p \notin got[g]
    <2>1. p \in Requests /\ AnswerStep(p) /\ Code(p) = g
      BY <1>1, <1>3, StepKinds DEF QuietStep, SpendStep, AnswerStep, Spender, Code, Params
    <2>2. Spender(p, g) /\ UNCHANGED <<rec, arg, accepted>> /\ status[g] # "absent"
      BY <2>1 DEF AnswerStep, Spender, Code
    <2>3. arg[p] \in Params /\ Matches(g, arg[p]) /\ <<p, StateOf(p)>> \in accepted
      BY <2>1, <2>2 DEF Checked, Spender
    <2>4. arg[p].client \in Public => arg[p].verifier # None
      BY <2>2, <2>3 DEF Checked, Matches
    <2> QED
      BY <2>1, <2>2, <2>3, <2>4 DEF Code, StateOf, Matches
  <1> QED
    BY <1>2, <1>3

\* The inductive invariant holds in every state.
THEOREM Invariance == Spec => []IInv
  <1>1. Init => IInv
    BY CodeAssumption DEF Init, IInv, TypeOK, Steps, OneSpender, Checked, TokensBound, Spender
  <1>2. IInv /\ [Next]_vars => IInv'
    BY TypeNext, OneSpenderNext, CheckedNext, TokensBoundNext DEF IInv
  <1> QED
    BY <1>1, <1>2, PTL DEF Spec

\* Tokens are only given to the client, URI, verifier and state of the code.
THEOREM Binding == Spec => []TokensBound
  <1>1. IInv => TokensBound
    BY DEF IInv
  <1> QED
    BY <1>1, Invariance, PTL

-----------------------------------------------------------------------------
(* A code is a one-time grant.  Each kind of step is a step of OneTimeGrant *)
(* or leaves its variables alone.                                           *)

\* Where a code is depends on its row, its expiry and who is issuing for it.
LEMMA PhaseFrame ==
  ASSUME NEW g \in Codes, status'[g] = status[g], g \in expired' <=> g \in expired,
         \A p \in Requests : Spender(p, g)' <=> Spender(p, g)
  PROVE Phase(g)' = Phase(g)
  <1>1. Consumable(g)' <=> Consumable(g)
    BY DEF Consumable
  <1>2. (\E p \in Requests : Spender(p, g))' <=> \E p \in Requests : Spender(p, g)
    OBVIOUS
  <1> QED
    BY <1>1, <1>2 DEF Phase

\* The election of p spends its code.
LEMMA SpendRefines ==
  ASSUME IInv, NEW p \in Requests, SpendStep(p), NEW g, g = Code(p)
  PROVE Abstract!Spend(g)
  <1> USE DEF IInv, TypeOK
  <1>1. g \in Codes /\ arg[p] \in Params
    BY DEF SpendStep, Code, Params
  <1>2. Phase(g) = "open" /\ Phase(g)' = "spent"
    <2>1. Phase(g) = "open"
      BY DEF SpendStep, Phase, Consumable
    <2>2. status'[g] = "used" /\ Spender(p, g)'
      BY <1>1 DEF SpendStep, Spender, Code
    <2> QED
      BY <2>1, <2>2 DEF Phase, Consumable
  <1>3. ASSUME NEW h \in Codes, h # g PROVE Phase(h)' = Phase(h)
    BY <1>3, PhaseFrame DEF SpendStep, Spender, Code
  <1> QED
    BY <1>1, <1>2, <1>3 DEF SpendStep, Abstract!Spend, Abstract!Move

\* The answer to p closes its code.
LEMMA AnswerRefines ==
  ASSUME IInv, NEW p \in Requests, AnswerStep(p), NEW g, g = Code(p)
  PROVE Abstract!Deliver(g, p)
  <1> USE DEF IInv, TypeOK
  <1>1. g \in Codes /\ arg[p] \in Params /\ Spender(p, g)
    BY DEF AnswerStep, Spender, Code, Params
  <1>2. status[g] \in {"used", "gone"}
    BY <1>1 DEF OneSpender
  <1>3. Phase(g) = "spent"
    BY <1>1, <1>2 DEF Phase, Consumable
  <1>4. ASSUME NEW q \in Requests, Spender(q, g)' PROVE FALSE
    <2>1. q # p /\ Spender(q, g)
      BY <1>4 DEF AnswerStep, Spender, Code
    <2> QED
      BY <1>1, <2>1 DEF OneSpender
  <1>5. Phase(g)' = "closed"
    BY <1>1, <1>2, <1>4 DEF AnswerStep, Phase, Consumable
  <1>6. ASSUME NEW h \in Codes, h # g PROVE Phase(h)' = Phase(h)
    BY <1>6, PhaseFrame DEF AnswerStep, Spender, Code
  <1> QED
    BY <1>1, <1>3, <1>5, <1>6 DEF AnswerStep, Abstract!Deliver, Abstract!Move

\* Nothing about the codes changes: a stutter.
LEMMA StutterRefines ==
  ASSUME \A g \in Codes : status'[g] = status[g] /\ (g \in expired' <=> g \in expired),
         \A p \in Requests, g \in Codes : Spender(p, g)' <=> Spender(p, g),
         got' = got
  PROVE UNCHANGED Abstract!vars
  BY PhaseFrame DEF Abstract!vars

\* A code is closed without an answer.
LEMMA VoidRefines ==
  ASSUME NEW g \in Codes, got' = got,
         Phase(g) \in {"open", "spent"}, Phase(g)' = "closed",
         \A h \in Codes : h # g => Phase(h)' = Phase(h)
  PROVE Abstract!Next
  BY DEF Abstract!Next, Abstract!Void, Abstract!Move

\* Rows are deleted: whoever was issuing goes on, whoever was not is late.
LEMMA RemoveRefines ==
  ASSUME IInv, NEW S \in SUBSET Codes, Remove(S),
         \A g \in S : status[g] # "absent",
         UNCHANGED <<expired, pc, arg, got>>
  PROVE Abstract!Next
  <1> DEFINE T == {g \in S : Phase(g) = "open"}
  <1> USE DEF IInv, TypeOK
  <1>1. \A p \in Requests, g \in Codes : Spender(p, g)' <=> Spender(p, g)
    BY DEF Spender, Code
  <1>2. ASSUME NEW g \in Codes, g \notin S PROVE Phase(g)' = Phase(g)
    BY <1>1, <1>2, PhaseFrame DEF Remove
  <1>3. ASSUME NEW g \in S PROVE Phase(g)' = IF g \in T THEN "closed" ELSE Phase(g)
    <2>1. status'[g] = "gone" /\ ~Consumable(g)'
      BY DEF Remove, Consumable
    <2>2. CASE \E p \in Requests : Spender(p, g)
      BY <1>1, <2>1, <2>2 DEF Phase, OneSpender, Consumable
    <2>3. CASE ~\E p \in Requests : Spender(p, g)
      BY <1>1, <2>1, <2>3 DEF Phase
    <2> QED BY <2>2, <2>3
  <1>4. Abstract!VoidAll(T)
    BY <1>2, <1>3 DEF Abstract!VoidAll
  <1> QED
    BY <1>4 DEF Abstract!Next

\* Every step of a request is a step of the abstract grant.
LEMMA HandlerRefines ==
  ASSUME IInv, NEW p \in Requests, Handler(p)
  PROVE Abstract!Next \/ UNCHANGED Abstract!vars
  <1> USE DEF IInv, TypeOK
  <1>1. CASE SpendStep(p)
    <2>1. PICK g \in Codes : g = Code(p)
      BY <1>1 DEF SpendStep, Code, Params
    <2> QED BY <1>1, <2>1, SpendRefines DEF Abstract!Next
  <1>2. CASE AnswerStep(p)
    <2>1. PICK g \in Codes : g = Code(p)
      BY <1>2 DEF AnswerStep, Spender, Code, Params
    <2> QED BY <1>2, <2>1, AnswerRefines DEF Abstract!Next
  <1>3. ASSUME ~SpendStep(p), ~AnswerStep(p), IssueFails(p)
        PROVE Abstract!Next
    <2>1. PICK g \in Codes : Spender(p, g)
      BY <1>3 DEF IssueFails, Spender, Code, Params
    <2>2. status[g] \in {"used", "gone"} /\ UNCHANGED <<status, expired, got>>
      BY <1>3, <2>1 DEF OneSpender, IssueFails, codeVars, histVars
    <2>3. Phase(g) = "spent"
      BY <2>1, <2>2 DEF Phase, Consumable
    <2>4. ASSUME NEW q \in Requests, NEW h \in Codes
          PROVE Spender(q, h)' <=> Spender(q, h) /\ q # p
      BY <1>3 DEF IssueFails, Refuse, Goto, Spender, Code
    <2>5. \A q \in Requests : ~Spender(q, g)'
      BY <2>1, <2>4 DEF OneSpender
    <2>6. Phase(g)' = "closed"
      BY <2>1, <2>2, <2>5 DEF Phase, Consumable
    <2>7. ASSUME NEW h \in Codes, h # g PROVE Phase(h)' = Phase(h)
      <3>1. \A q \in Requests : Spender(q, h)' <=> Spender(q, h)
        BY <2>1, <2>4, <2>7 DEF Spender
      <3> QED BY <2>2, <3>1, PhaseFrame
    <2> QED BY <2>1, <2>2, <2>3, <2>6, <2>7, VoidRefines
  <1>4. ASSUME ~SpendStep(p), ~AnswerStep(p), ConsumeCode(p) \/ ConsumeFails(p)
        PROVE Abstract!Next \/ UNCHANGED Abstract!vars
    <2>1. PICK g \in Codes : g = Code(p) /\ pc[p] = "consume" /\ UNCHANGED <<rec, expired, got>>
      BY <1>4 DEF ConsumeCode, ConsumeFails, Code, Params, histVars
    <2>2. Refuse(p)
      BY <1>4, <2>1 DEF ConsumeCode, ConsumeFails, SpendStep, Goto, histVars
    <2>3. \A q \in Requests, h \in Codes : Spender(q, h)' <=> Spender(q, h)
      BY <2>1, <2>2 DEF Refuse, Goto, Spender, Code
    <2>4. CASE UNCHANGED status
      BY <2>1, <2>3, <2>4, StutterRefines
    <2>5. CASE ~UNCHANGED status
      <3>1. Consumable(g) /\ status' = [status EXCEPT ![g] = "used"]
        <4>1. CASE ConsumeCode(p) BY <2>1, <4>1 DEF ConsumeCode
        <4>2. CASE ConsumeFails(p) BY <2>1, <2>5, <4>2 DEF ConsumeFails
        <4> QED BY <1>4, <4>1, <4>2
      <3>2. \A q \in Requests : ~Spender(q, g)
        BY <2>1, <3>1 DEF OneSpender, Consumable
      <3>3. Phase(g) = "open"
        BY <3>1 DEF Phase, Consumable
      <3>4. Phase(g)' = "closed"
        BY <2>1, <2>3, <3>1, <3>2 DEF Phase, Consumable
      <3>5. ASSUME NEW h \in Codes, h # g PROVE Phase(h)' = Phase(h)
        BY <2>1, <2>3, <3>1, <3>5, PhaseFrame
      <3> QED BY <2>1, <3>3, <3>4, <3>5, VoidRefines
    <2> QED BY <2>4, <2>5
  <1>5. ASSUME ~SpendStep(p), ~AnswerStep(p), ~IssueFails(p), ~ConsumeCode(p), ~ConsumeFails(p)
        PROVE UNCHANGED Abstract!vars
    <2>1. UNCHANGED <<status, expired, got>>
      BY <1>5, HandlerKinds
      DEF QuietStep, Handler, StateFound, StateMissing, LoadState, DeleteState, CheckClient,
          ConsumeMisses, IssueTokens, StoreRoot, codeVars
    <2>2. pc' = [pc EXCEPT ![p] = pc'[p]] /\ (pc[p] \in {"issue", "refresh"} => pc'[p] = "refresh")
      <3>1. CASE IssueTokens(p) \/ StoreRoot(p)
        BY <1>5, <2>1, <3>1
        DEF IssueTokens, StoreRoot, Answer, AnswerStep, Goto, Spender, codeVars
      <3>2. CASE ~(IssueTokens(p) \/ StoreRoot(p))
        BY <1>5, <3>2 DEF Handler, StateFound, StateMissing, LoadState, DeleteState, CheckClient,
             ConsumeMisses, Goto, Refuse
      <3> QED BY <3>1, <3>2
    <2>3. \A q \in Requests : q # p => arg'[q] = arg[q]
      BY <1>5 DEF Handler, StateFound, StateMissing, LoadState, DeleteState, CheckClient,
           ConsumeMisses, IssueTokens, StoreRoot, Refuse
    <2>4. QuietStep /\ Settled
      BY <1>5, HandlerKinds
    <2>5. \A q \in Requests, h \in Codes : Spender(q, h)' <=> Spender(q, h)
      BY <2>2, <2>3, <2>4 DEF QuietStep, Settled, Spender, Code
    <2> QED BY <2>1, <2>5, StutterRefines
  <1> QED
    BY <1>1, <1>2, <1>3, <1>4, <1>5

\* So is every other step.
LEMMA OtherRefines ==
  ASSUME IInv,
         \/ \E g \in Codes, r \in Grant : Authorize(g, r)
         \/ \E p \in Requests, a \in Params : StartExchange(p, a)
         \/ Environment
         \/ UNCHANGED vars
  PROVE Abstract!Next \/ UNCHANGED Abstract!vars
  <1> USE DEF IInv, TypeOK, codeVars, stateVars, histVars, requestVars
  <1>1. ASSUME NEW g \in Codes, NEW r \in Grant, Authorize(g, r)
        PROVE Abstract!Next \/ UNCHANGED Abstract!vars
    <2>1. \A q \in Requests, h \in Codes : Spender(q, h)' <=> Spender(q, h)
      BY <1>1 DEF Authorize, Spender, Code
    <2>2. ASSUME NEW h \in Codes, h # g PROVE Phase(h)' = Phase(h)
      BY <1>1, <2>1, <2>2, PhaseFrame DEF Authorize
    <2>3. \A q \in Requests : ~Spender(q, g)
      BY <1>1 DEF Authorize, OneSpender
    <2>4. Phase(g) = "none" /\ status'[g] = "open"
      BY <1>1 DEF Authorize, Phase
    <2>5. Phase(g)' = "open" /\ got' = got
      BY <1>1, <2>4 DEF Authorize, Phase, Consumable, OneSpender
    <2>6. Abstract!Open(g)
      BY <2>2, <2>4, <2>5 DEF Abstract!Open, Abstract!Move
    <2> QED BY <2>6 DEF Abstract!Next
  <1>2. ASSUME NEW p \in Requests, NEW a \in Params, StartExchange(p, a)
        PROVE UNCHANGED Abstract!vars
    <2>1. \A q \in Requests, h \in Codes : Spender(q, h)' <=> Spender(q, h)
      BY <1>2 DEF StartExchange, Goto, Spender, Code
    <2> QED BY <1>2, <2>1, StutterRefines DEF StartExchange
  <1>3. ASSUME NEW g \in Codes, Expire(g)
        PROVE Abstract!Next \/ UNCHANGED Abstract!vars
    <2>1. \A q \in Requests, h \in Codes : Spender(q, h)' <=> Spender(q, h)
      BY <1>3 DEF Expire, Spender, Code
    <2>2. ASSUME NEW h \in Codes, h # g PROVE Phase(h)' = Phase(h)
      BY <1>3, <2>1, <2>2, PhaseFrame DEF Expire
    <2>3. CASE status[g] = "open"
      <3>1. \A q \in Requests : ~Spender(q, g)
        BY <2>3 DEF OneSpender
      <3>2. Phase(g) = "open" /\ Phase(g)' = "closed"
        BY <1>3, <2>1, <2>3, <3>1 DEF Expire, Phase, Consumable
      <3> QED BY <1>3, <2>2, <3>2, VoidRefines DEF Expire
    <2>4. CASE status[g] = "used"
      <3>1. Phase(g)' = Phase(g)
        BY <1>3, <2>1, <2>4 DEF Expire, Phase, Consumable
      <3> QED BY <1>3, <2>2, <3>1 DEF Expire, Abstract!vars
    <2> QED BY <1>3, <2>3, <2>4 DEF Expire
  <1>4. ASSUME \/ \E k \in StateKey : ExpireState(k)
               \/ \E c \in Clients : DisableClient(c) \/ EnableClient(c)
               \/ UNCHANGED vars
        PROVE UNCHANGED Abstract!vars
    <2>1. UNCHANGED <<status, expired, pc, arg, got>>
      BY <1>4 DEF ExpireState, DisableClient, EnableClient, vars
    <2>2. \A q \in Requests, h \in Codes : Spender(q, h)' <=> Spender(q, h)
      BY <2>1 DEF Spender, Code
    <2> QED BY <2>1, <2>2, StutterRefines
  <1>5. ASSUME NEW c \in Clients, DeleteClient(c) PROVE Abstract!Next
    BY <1>5, RemoveRefines DEF DeleteClient
  <1>6. ASSUME NEW S \in SUBSET Codes, DeleteUser(S) PROVE Abstract!Next
    BY <1>6, RemoveRefines DEF DeleteUser
  <1>7. CASE Cleanup
    BY <1>7, RemoveRefines DEF Cleanup
  <1> QED
    BY <1>1, <1>2, <1>3, <1>4, <1>5, <1>6, <1>7 DEF Environment

\* The authorization-code grant implements the one-time grant: the row's
\* conditional UPDATE, and not the requests' timing, decides who is answered.
THEOREM Implements == Spec => IsOneTimeGrant
  <1>1. Init => Abstract!Init
    BY DEF Init, Abstract!Init, Phase
  <1>2. IInv /\ [Next]_vars => [Abstract!Next]_(Abstract!vars)
    BY HandlerRefines, OtherRefines DEF Next
  <1> QED
    BY <1>1, <1>2, Invariance, PTL DEF Spec, IsOneTimeGrant, Abstract!Spec
=============================================================================
