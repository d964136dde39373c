-------------------------- MODULE EgressGateProofs --------------------------
(***************************************************************************)
(* Proofs about EgressGate, for any gates, kinds of request, policies,     *)
(* edits and budgets, and any number of turns and requests at once.  A     *)
(* token is read long before the database is, so what is proved of it is   *)
(* relative: it is what a policy's row said, or the row has moved on.      *)
(***************************************************************************)
EXTENDS EgressGate, FiniteSetTheorems, TLAPS

-----------------------------------------------------------------------------
(* The inductive invariant                                                 *)

\* A policy is one row, and the exclusion written by hand is no inclusion.
OneRow ==
    /\ \A p, q \in policies : p.id = q.id => p = q
    /\ \A p \in policies : p.id = "exclusion" => p.eff = "exclude"
    /\ \A l \in ledger : l.policy # "exclusion"

\* What a turn was given of a policy is what its row in P says, or the row has
\* moved on to a later version.
Given(h, P) ==
    /\ h.policy # "exclusion"
    /\ \A p \in P : p.id = h.policy => h.ver < p.ver \/ (h.ver = p.ver /\ h.lt = p.lt)

\* A token once made: every gate, nothing a person has not approved, and what
\* the policies gave.
Made(k, G, P) ==
    /\ k.gates = DOMAIN Gates /\ k.grants \subseteq G /\ IsFiniteSet(k.policies)
    /\ \A h \in k.policies : Given(h, P)
TokensMade == \A t \in Turns : tokens[t].held => Made(tokens[t], granted, policies)

\* Each gate of a kind of request is granted in G, or recorded in L.
Approved(r, q, G, L) == \A g \in Kinds[q].gates :
    digest(g, q) \in G \/ \E l \in L : l.req = r /\ l.gate = g

\* A request at the gateway carries such a token; it is past the gates once each
\* is satisfied, and past the record once each is granted or recorded.
Vetted(r, R, G, P, L) ==
    /\ R.pc \in {"vet", "record", "send"} => Made(R.token, G, P)
    /\ R.pc = "record" => Unsatisfied(R.token, R.kind) = {}
    /\ R.pc \in {"send", "sent"} => Approved(r, R.kind, G, L)
ReqsVetted == \A r \in Requests : Vetted(r, reqs[r], granted, policies, ledger)

Inv == /\ TypeOK /\ OneRow /\ TokensMade /\ ReqsVetted
       /\ WithinCounts /\ TermsCurrent /\ IsFiniteSet(ledger)

\* Rows are only added, or moved on with their caps as they are.
Moved(p, q) ==
    /\ q.id = p.id /\ q.eff = p.eff /\ q.perTurn = p.perTurn /\ q.perDay = p.perDay
    /\ p.ver < q.ver \/ (p.ver = q.ver /\ p.lt = q.lt)
Moves(P, Q) == \A q \in Q : q.id = "exclusion" \/ \E p \in P : Moved(p, q)

-----------------------------------------------------------------------------
(* Rows                                                                    *)

\* The image of a finite set is finite, and no larger.
LEMMA Mapped ==
    ASSUME NEW S, IsFiniteSet(S), NEW f, f = [x \in S |-> f[x]]
    PROVE  /\ IsFiniteSet({f[x] : x \in S})
           /\ Cardinality({f[x] : x \in S}) <= Cardinality(S)
<1> DEFINE T == {f[x] : x \in S}
<1>1. f \in Surjection(S, T)
  BY DEF Surjection
<1> QED BY <1>1, FS_Surjection

\* An edit is a later version of the same row; stopping a policy leaves its version
\* and its terms, or moves the version on.
LEMMA RowStep ==
    ASSUME NEW p, Row(p), NEW lt \in Nat, NEW m, NEW q,
           \/ q = [p EXCEPT !.lt = lt, !.mode = m, !.ver = @ + 1, !.exp = FALSE]
           \/ q = [p EXCEPT !.rev = TRUE]
           \/ q = [p EXCEPT !.exp = TRUE, !.ver = @ + 1]
           \/ q = [p EXCEPT !.setter = ~@]
    PROVE  Row(q) /\ Moved(p, q)
<1>0. p.ver \in Nat /\ p.lt \in Nat /\ p = [f \in RowFields |-> p[f]]
  BY DEF Row
<1>1. CASE q = [p EXCEPT !.lt = lt, !.mode = m, !.ver = @ + 1, !.exp = FALSE]
  <2>1. /\ q = [f \in RowFields |-> q[f]] /\ q.ver = p.ver + 1 /\ q.lt = lt
        /\ \A f \in {"id", "eff", "perTurn", "perDay", "total"} : q[f] = p[f]
    BY <1>0, <1>1, Zenon DEF RowFields
  <2> QED BY <1>0, <2>1 DEF Row, Moved
<1>2. CASE q = [p EXCEPT !.rev = TRUE]
  BY <1>2 DEF Row, RowFields, Moved
<1>3. CASE q = [p EXCEPT !.exp = TRUE, !.ver = @ + 1]
  <2>1. /\ q = [f \in RowFields |-> q[f]] /\ q.ver = p.ver + 1 /\ q.lt = p.lt
        /\ \A f \in {"id", "eff", "perTurn", "perDay", "total"} : q[f] = p[f]
    BY <1>0, <1>3 DEF RowFields
  <2> QED BY <1>0, <2>1 DEF Row, Moved
<1>4. CASE q = [p EXCEPT !.setter = ~@]
  BY <1>4 DEF Row, RowFields, Moved
<1> QED BY <1>1, <1>2, <1>3, <1>4

\* What speaks for a gate is a row, and an inclusion.
LEMMA ChoosesRow ==
    ASSUME NEW d, NEW P, NEW a, NEW c, choose(d, P, a, c).terms = "on"
    PROVE  choose(d, P, a, c).by \in P /\ choose(d, P, a, c).by.eff = "include"
<1> DEFINE I == inclusions(d, P, a)
           top == {p \in I : \A q \in I : specificity(q) <= specificity(p)}
           p == CHOOSE x \in top : TRUE
<1>1. ~(~covered(d, c) \/ excluded(d, P, a) \/ Cardinality(top) # 1)
  BY DEF choose, Ask
<1>2. top # {}
  BY <1>1, FS_EmptySet
<1>3. p \in top
  BY <1>2
<1>4. choose(d, P, a, c).by = p
  BY <1>1 DEF choose
<1>5. p \in P /\ p.eff = "include"
  BY <1>3 DEF inclusions, applicable
<1> QED BY <1>4, <1>5

\* A token made from the rows as they stand gives what they say.
LEMMA ForTurn ==
    ASSUME TypeOK, OneRow
    PROVE  /\ for_turn \subseteq Grants /\ IsFiniteSet(for_turn)
           /\ \A h \in for_turn : Given(h, policies)
<1> DEFINE c(g) == choose(Declared(g), policies, TheAgent, 3)
           one(g) == IF c(g).terms = "on" THEN {grant(g, c(g).by)} ELSE {}
<1>1. for_turn = UNION {one(g) : g \in DOMAIN Gates}
  BY DEF for_turn
<1>2. ASSUME NEW g \in DOMAIN Gates, c(g).terms = "on"
      PROVE  grant(g, c(g).by) \in Grants /\ Given(grant(g, c(g).by), policies)
  <2> DEFINE p == c(g).by
  <2>1. p \in policies /\ p.eff = "include"
    BY <1>2, ChoosesRow
  <2>2. Row(p) /\ p.id \in PolicyIds /\ p.id # "exclusion"
    BY <2>1 DEF TypeOK, OneRow
  <2>3. p.ver \in Nat /\ p.lt \in Nat /\ p.perTurn \in Nat /\ p.perDay \in Nat /\ p.total \in Nat
    BY <2>2 DEF Row
  <2> HIDE DEF p
  <2>4. grant(g, p) \in Grants
    BY <2>2, <2>3 DEF grant, Grants
  <2>5. Given(grant(g, p), policies)
    BY <2>1, <2>2 DEF Given, grant, OneRow
  <2> QED BY <2>4, <2>5 DEF p
<1>3. \A h \in for_turn : \E g \in DOMAIN Gates : c(g).terms = "on" /\ h = grant(g, c(g).by)
  BY <1>1
<1>4. IsFiniteSet(for_turn)
  <2> DEFINE f == [g \in DOMAIN Gates |-> one(g)]
  <2>1. IsFiniteSet({one(g) : g \in DOMAIN Gates})
    <3>1. {f[g] : g \in DOMAIN Gates} = {one(g) : g \in DOMAIN Gates} /\ f = [g \in DOMAIN Gates |-> f[g]]
      OBVIOUS
    <3> HIDE DEF f
    <3>2. IsFiniteSet({f[g] : g \in DOMAIN Gates})
      BY <3>1, Mapped, EgressGateAssumption
    <3> QED BY <3>1, <3>2
  <2>2. \A T \in {one(g) : g \in DOMAIN Gates} : IsFiniteSet(T)
    BY FS_EmptySet, FS_Singleton
  <2> QED BY <1>1, <2>1, <2>2, FS_UNION
<1> QED BY <1>2, <1>3, <1>4

\* A token stays made as rows move and people approve.
LEMMA MadeStays ==
    ASSUME NEW k, k.policies \subseteq Grants, NEW G, NEW H, G \subseteq H, NEW P, NEW Q, Moves(P, Q),
           Made(k, G, P), \A p \in P \cup Q : Row(p)
    PROVE  Made(k, H, Q)
<1>1. ASSUME NEW h \in k.policies, NEW q \in Q, q.id = h.policy
      PROVE  h.ver < q.ver \/ (h.ver = q.ver /\ h.lt = q.lt)
  <2>1. Given(h, P) /\ h \in Grants
    BY DEF Made
  <2>2. PICK p \in P : Moved(p, q)
    BY <1>1, <2>1 DEF Moves, Given
  <2>3. h.ver \in Nat /\ p.ver \in Nat /\ q.ver \in Nat
    BY <2>1 DEF Grants, Row
  <2>4. h.ver < p.ver \/ (h.ver = p.ver /\ h.lt = p.lt)
    BY <1>1, <2>1, <2>2 DEF Given, Moved
  <2> QED BY <2>2, <2>3, <2>4 DEF Moved
<1> QED BY <1>1 DEF Made, Given

LEMMA ApprovedStays ==
    ASSUME NEW r, NEW q, NEW G, NEW H, G \subseteq H, NEW L, NEW M, Approved(r, q, G, L),
           \A l \in L : \E m \in M : m.req = l.req /\ m.gate = l.gate
    PROVE  Approved(r, q, H, M)
  BY DEF Approved

\* What is known of a request at the gateway is not undone beside it.
LEMMA VettedStays ==
    ASSUME NEW r, NEW R \in {NoReq} \cup AtGateway \cup Answered, NEW G, NEW H, G \subseteq H,
           NEW P, NEW Q, Moves(P, Q), \A p \in P \cup Q : Row(p), NEW L, NEW M,
           \A l \in L : \E m \in M : m.req = l.req /\ m.gate = l.gate, Vetted(r, R, G, P, L)
    PROVE  Vetted(r, R, H, Q, M)
<1>1. R.pc \in {"vet", "record", "send"} => Made(R.token, H, Q)
  <2> SUFFICES ASSUME R.pc \in {"vet", "record", "send"} PROVE Made(R.token, H, Q)
    OBVIOUS
  <2>1. R \in AtGateway
    BY DEF NoReq, Answered, AtGateway
  <2>2. R.token.policies \subseteq Grants
    BY <2>1 DEF AtGateway, Tokens
  <2>3. Made(R.token, G, P)
    BY DEF Vetted
  <2> QED BY <2>2, <2>3, MadeStays
<1>2. R.pc \in {"send", "sent"} => Approved(r, R.kind, H, M)
  BY ApprovedStays DEF Vetted
<1> QED BY <1>1, <1>2 DEF Vetted

LEMMA NoMove == ASSUME NEW P, \A p \in P : Row(p) PROVE Moves(P, P)
  BY DEF Moves, Moved

-----------------------------------------------------------------------------
(* Types                                                                   *)

LEMMA TypeInit == Init => TypeOK
<1> SUFFICES ASSUME Init PROVE TypeOK
  OBVIOUS
<1>1. \A p \in policies : Row(p) /\ p.id \in PolicyIds
  BY EgressGateAssumption DEF Init, PolicyIds
<1>2. NoToken \in Tokens
  BY DEF NoToken, Tokens
<1> QED BY <1>1, <1>2 DEF Init, TypeOK

\* A step on one request, leaving it as it may be.
LEMMA TypeReq ==
    ASSUME TypeOK, NEW r \in Requests, NEW R \in {NoReq} \cup AtGateway \cup Answered,
           reqs' = [reqs EXCEPT ![r] = R]
    PROVE  reqs' \in [Requests -> {NoReq} \cup AtGateway \cup Answered]
  BY DEF TypeOK

\* What a request that is being handled is.
LEMMA Handled ==
    ASSUME TypeOK, NEW r \in Requests, reqs[r].pc \in {"vet", "record", "send"}
    PROVE  reqs[r] \in AtGateway
<1>1. reqs[r] \in {NoReq} \cup AtGateway \cup Answered
  BY DEF TypeOK
<1> QED BY <1>1 DEF NoReq, Answered, AtGateway

\* What the policies let through of a request are among its token's.
LEMMA AdmittedOf ==
    ASSUME NEW k, NEW q
    PROVE  Admitted(k, q) \subseteq k.policies
  BY DEF Admitted, admits

-----------------------------------------------------------------------------
(* Steps                                                                   *)

\* A step on a token alone.
LEMMA TokenStep ==
    ASSUME Inv, NEW t \in Turns, NEW k \in Tokens, Made(k, granted, policies),
           tokens' = [tokens EXCEPT ![t] = k], UNCHANGED <<policies, granted, reqs, ledger>>
    PROVE  Inv'
<1>1. TypeOK'
  BY DEF Inv, TypeOK
<1>2. TokensMade'
  BY DEF Inv, TypeOK, TokensMade
<1> QED BY <1>1, <1>2 DEF Inv, OneRow, ReqsVetted, WithinCounts, TermsCurrent

LEMMA prepareInv ==
    ASSUME Inv, NEW t \in Turns, prepare(t)
    PROVE  Inv'
<1>1. granted \subseteq Digests
  BY DEF Inv, TypeOK
<1>2. for_turn \subseteq Grants /\ IsFiniteSet(for_turn) /\ \A h \in for_turn : Given(h, policies)
  BY ForTurn DEF Inv
<1> DEFINE k(S) == [gates |-> DOMAIN Gates, grants |-> granted, policies |-> S, held |-> TRUE]
<1>3. \A S \in {for_turn, {}} : k(S) \in Tokens /\ Made(k(S), granted, policies)
  BY <1>1, <1>2, FS_EmptySet DEF Tokens, Made
<1>4. \E S \in {for_turn, {}} : tokens' = [tokens EXCEPT ![t] = k(S)]
  BY DEF prepare
<1>5. UNCHANGED <<policies, granted, reqs, ledger>>
  BY DEF prepare
<1> HIDE DEF k
<1> QED BY <1>3, <1>4, <1>5, TokenStep

LEMMA reissueInv ==
    ASSUME Inv, NEW t \in Turns, reissue(t)
    PROVE  Inv'
<1> DEFINE k == [tokens[t] EXCEPT !.policies = still_standing(@)]
<1>1. tokens[t] \in Tokens /\ Made(tokens[t], granted, policies)
  BY DEF Inv, TypeOK, TokensMade, reissue
<1>2. still_standing(tokens[t].policies) \subseteq tokens[t].policies
  BY DEF still_standing
<1>3. IsFiniteSet(still_standing(tokens[t].policies))
  BY <1>1, <1>2, FS_Subset DEF Made
<1>4. k \in Tokens
  BY <1>1, <1>2 DEF Tokens
<1>5. k.gates = tokens[t].gates /\ k.grants = tokens[t].grants
      /\ k.policies = still_standing(tokens[t].policies)
  BY <1>1 DEF Tokens
<1>6. Made(k, granted, policies)
  BY <1>1, <1>2, <1>3, <1>5 DEF Made
<1>7. tokens' = [tokens EXCEPT ![t] = k] /\ UNCHANGED <<policies, granted, reqs, ledger>>
  BY DEF reissue
<1> HIDE DEF k
<1> QED BY <1>4, <1>6, <1>7, TokenStep

\* A step on one request alone.
LEMMA ReqStep ==
    ASSUME Inv, NEW r \in Requests, NEW R \in {NoReq} \cup AtGateway \cup Answered,
           Vetted(r, R, granted, policies, ledger), reqs' = [reqs EXCEPT ![r] = R],
           UNCHANGED <<policies, granted, tokens, ledger>>
    PROVE  Inv'
<1>1. TypeOK'
  <2>1. reqs' \in [Requests -> {NoReq} \cup AtGateway \cup Answered]
    BY TypeReq DEF Inv
  <2> QED BY <2>1 DEF Inv, TypeOK
<1>2. ReqsVetted'
  <2>1. \A x \in Requests : reqs'[x] = IF x = r THEN R ELSE reqs[x]
    BY DEF Inv, TypeOK
  <2> QED BY <2>1 DEF Inv, ReqsVetted
<1> QED BY <1>1, <1>2 DEF Inv, OneRow, TokensMade, WithinCounts, TermsCurrent

\* A request that is answered, and did not go out.
LEMMA RefuseInv ==
    ASSUME Inv, NEW r \in Requests, reqs[r].pc \in {"vet", "record", "send"},
           NEW why \in {"ask", "no", "lost"}, Refuse(r, why),
           UNCHANGED <<policies, granted, tokens, ledger>>
    PROVE  Inv'
<1> DEFINE R == [pc |-> why, turn |-> reqs[r].turn, kind |-> reqs[r].kind]
<1>1. reqs[r] \in AtGateway
  BY Handled DEF Inv
<1>2. R \in Answered
  BY <1>1 DEF AtGateway, Answered
<1>3. Vetted(r, R, granted, policies, ledger)
  BY DEF Vetted
<1>4. reqs' = [reqs EXCEPT ![r] = R]
  BY DEF Refuse
<1> HIDE DEF R
<1> QED BY <1>2, <1>3, <1>4, ReqStep

LEMMA SentInv ==
    ASSUME Inv, NEW t \in Turns, NEW r \in Requests, NEW q \in DOMAIN Kinds, Sent(r, t, q)
    PROVE  Inv'
<1>1. tokens[t] \in Tokens /\ Made(tokens[t], granted, policies)
  BY DEF Inv, TypeOK, TokensMade, Sent
<1>2. for_turn \subseteq Grants
  BY ForTurn DEF Inv
<1>3. PICK offer \in {tokens[t], [tokens[t] EXCEPT !.gates = {}], [tokens[t] EXCEPT !.policies = for_turn]} :
        reqs' = [reqs EXCEPT ![r] = [pc |-> "vet", turn |-> t, kind |-> q, token |-> tokens[t], offer |-> offer]]
  BY DEF Sent
<1>4. offer \in Tokens
  BY <1>1, <1>2 DEF Tokens
<1> DEFINE R == [pc |-> "vet", turn |-> t, kind |-> q, token |-> tokens[t], offer |-> offer]
<1>5. R \in AtGateway
  BY <1>1, <1>4 DEF AtGateway
<1>6. Vetted(r, R, granted, policies, ledger)
  BY <1>1 DEF Vetted
<1>7. UNCHANGED <<policies, granted, tokens, ledger>>
  BY DEF Sent
<1> HIDE DEF R
<1> QED BY <1>3, <1>5, <1>6, <1>7, ReqStep DEF R

LEMMA vetInv ==
    ASSUME Inv, NEW r \in Requests, vet(r)
    PROVE  Inv'
<1> DEFINE q == reqs[r].kind
           k == reqs[r].token
<1>1. reqs[r].pc = "vet" /\ UNCHANGED <<policies, granted, tokens, ledger>>
  BY DEF vet
<1>2. reqs[r] \in AtGateway /\ Made(k, granted, policies)
  BY <1>1, Handled DEF Inv, ReqsVetted, Vetted
<1>3. CASE Refuse(r, "no") \/ Refuse(r, "ask")
  BY <1>1, <1>3, RefuseInv
<1>4. ASSUME Unsatisfied(k, q) = {},
             reqs' = [reqs EXCEPT ![r].pc = IF Admitted(k, q) = {} THEN "send" ELSE "record"]
      PROVE  Inv'
  <2> DEFINE R == [reqs[r] EXCEPT !.pc = IF Admitted(k, q) = {} THEN "send" ELSE "record"]
  <2>1. R \in AtGateway /\ R.kind = q /\ R.token = k
        /\ R.pc = IF Admitted(k, q) = {} THEN "send" ELSE "record"
    BY <1>2 DEF AtGateway
  <2>2. Admitted(k, q) = {} => Approved(r, q, granted, ledger)
    <3> SUFFICES ASSUME Admitted(k, q) = {}, NEW g \in Kinds[q].gates PROVE digest(g, q) \in granted
      BY DEF Approved
    <3>1. g \in Covering(q, k.gates)
      BY <1>2, EgressGateAssumption DEF Covering, Made, AtGateway
    <3>2. permits(k, g, q) \/ admits(k, g, q) # {}
      BY <1>4, <3>1 DEF Unsatisfied
    <3>3. permits(k, g, q)
      BY <3>1, <3>2 DEF Admitted
    <3> QED BY <1>2, <3>3 DEF permits, Made
  <2>3. Vetted(r, R, granted, policies, ledger)
    BY <1>2, <1>4, <2>1, <2>2 DEF Vetted
  <2>4. reqs' = [reqs EXCEPT ![r] = R]
    BY <1>4
  <2> HIDE DEF R
  <2> QED BY <1>1, <2>1, <2>3, <2>4, ReqStep
<1> QED BY <1>3, <1>4 DEF vet

LEMMA sendInv ==
    ASSUME Inv, NEW r \in Requests, send(r)
    PROVE  Inv'
<1>1. reqs[r].pc = "send" /\ UNCHANGED <<policies, granted, tokens, ledger>>
  BY DEF send
<1>2. CASE Refuse(r, "lost")
  BY <1>1, <1>2, RefuseInv
<1>3. CASE reqs' = [reqs EXCEPT ![r] = [pc |-> "sent", turn |-> @.turn, kind |-> @.kind]]
  <2> DEFINE R == [pc |-> "sent", turn |-> reqs[r].turn, kind |-> reqs[r].kind]
  <2>1. R \in Answered
    BY <1>1, Handled DEF Inv, AtGateway, Answered
  <2>2. Vetted(r, R, granted, policies, ledger)
    BY <1>1 DEF Inv, ReqsVetted, Vetted
  <2>3. reqs' = [reqs EXCEPT ![r] = R]
    BY <1>3
  <2> HIDE DEF R
  <2> QED BY <1>1, <2>1, <2>2, <2>3, ReqStep
<1> QED BY <1>2, <1>3 DEF send

LEMMA approveInv ==
    ASSUME Inv, NEW r \in Requests, approve(r)
    PROVE  Inv'
<1>1. granted \subseteq granted' /\ granted' \subseteq Digests
  <2>1. reqs[r] \in Answered
    BY DEF Inv, TypeOK, approve, NoReq, AtGateway
  <2>2. \A g \in Kinds[reqs[r].kind].gates : digest(g, reqs[r].kind) \in Digests
    BY <2>1, EgressGateAssumption DEF Answered, digest, Digests
  <2> QED BY <2>2 DEF approve, Inv, TypeOK
<1>2. UNCHANGED <<policies, tokens, ledger>> /\ reqs' = [reqs EXCEPT ![r] = NoReq]
  BY DEF approve
<1>3. TypeOK'
  <2>1. reqs' \in [Requests -> {NoReq} \cup AtGateway \cup Answered]
    BY <1>2, TypeReq DEF Inv
  <2> QED BY <1>1, <1>2, <2>1 DEF Inv, TypeOK
<1>4. Moves(policies, policies) /\ \A p \in policies : Row(p)
  BY NoMove DEF Inv, TypeOK
<1>5. TokensMade'
  <2>1. ASSUME NEW t \in Turns, tokens[t].held PROVE Made(tokens[t], granted', policies)
    <3>1. Made(tokens[t], granted, policies) /\ tokens[t].policies \subseteq Grants
      BY <2>1 DEF Inv, TypeOK, TokensMade, Tokens
    <3> QED BY <1>1, <1>4, <3>1, MadeStays
  <2> QED BY <1>2, <2>1 DEF TokensMade
<1>6. ReqsVetted'
  <2>1. ASSUME NEW x \in Requests PROVE Vetted(x, reqs'[x], granted', policies, ledger)
    <3>1. CASE x = r
      <4>1. reqs'[x].pc = "none"
        BY <1>2, <3>1 DEF Inv, TypeOK, NoReq
      <4> QED BY <4>1 DEF Vetted
    <3>2. CASE x # r
      <4>1. reqs'[x] = reqs[x] /\ reqs[x] \in {NoReq} \cup AtGateway \cup Answered
        BY <1>2, <3>2 DEF Inv, TypeOK
      <4>2. Vetted(x, reqs[x], granted, policies, ledger)
        BY DEF Inv, ReqsVetted
      <4>3. \A l \in ledger : \E m \in ledger : m.req = l.req /\ m.gate = l.gate
        OBVIOUS
      <4> QED BY <1>1, <1>4, <4>1, <4>2, <4>3, VettedStays
    <3> QED BY <3>1, <3>2
  <2> QED BY <1>2, <2>1 DEF ReqsVetted
<1> QED BY <1>2, <1>3, <1>5, <1>6 DEF Inv, OneRow, WithinCounts, TermsCurrent

\* One more than fewer than n is no more than n.
LEMMA OneMore ==
    ASSUME NEW A, IsFiniteSet(A), NEW e, NEW B, B \subseteq A \cup {e}, NEW n \in Nat, Cardinality(A) < n
    PROVE  Cardinality(B) <= n
<1>1. IsFiniteSet(A \cup {e}) /\ Cardinality(A \cup {e}) <= Cardinality(A) + 1
  <2>1. Cardinality(A) \in Nat
    BY FS_CardinalityType
  <2>2. /\ IsFiniteSet(A \cup {e})
        /\ Cardinality(A \cup {e}) = IF e \in A THEN Cardinality(A) ELSE Cardinality(A) + 1
    BY FS_AddElement, Zenon
  <2> QED BY <2>1, <2>2
<1>2. Cardinality(B) <= Cardinality(A \cup {e})
  BY <1>1, FS_Subset
<1>3. Cardinality(A) \in Nat /\ Cardinality(B) \in Nat /\ Cardinality(A \cup {e}) \in Nat
  BY <1>1, FS_Subset, FS_CardinalityType
<1> QED BY <1>1, <1>2, <1>3

\* What is recorded of a policy that had room: the terms of its row, which are
\* those the turn was given.
LEMMA Recorded ==
    ASSUME Inv, NEW r \in Requests, reqs[r] \in AtGateway, NEW g \in Grants, Given(g, policies),
           NEW L, HasRoom(g, reqs[r].turn, Kinds[reqs[r].kind].amount, L)
    PROVE  /\ Entry(r, g) \in Entries /\ Entry(r, g).policy = g.policy /\ Entry(r, g).policy # "exclusion"
           /\ Entry(r, g).req = r /\ Entry(r, g).gate = g.gate /\ Entry(r, g).turn = reqs[r].turn
           /\ Entry(r, g).amount = Kinds[reqs[r].kind].amount /\ Entry(r, g).lt = g.lt
<1>1. PICK p \in policies : p.id = g.policy /\ p.ver = g.ver
  BY DEF HasRoom
<1>2. g.ver \in Nat /\ g.lt \in Nat /\ g.policy \in PolicyIds /\ g.gate \in DOMAIN Gates
  BY DEF Grants
<1>3. p.lt = g.lt
  BY <1>1, <1>2 DEF Given
<1>4. (CHOOSE x \in policies : x.id = g.policy) = p
  BY <1>1 DEF Inv, OneRow
<1>5. Kinds[reqs[r].kind].amount \in Nat /\ reqs[r].turn \in Turns
  BY EgressGateAssumption DEF AtGateway
<1> QED BY <1>2, <1>3, <1>4, <1>5 DEF Entry, Entries, Given


LEMMA recordInv ==
    ASSUME Inv, NEW r \in Requests, record(r)
    PROVE  Inv'
<1> DEFINE q == reqs[r].kind
           k == reqs[r].token
           S == Admitted(k, q)
           N == {Entry(r, g) : g \in S}
<1>1. reqs[r].pc = "record" /\ UNCHANGED <<policies, granted, tokens>>
  BY DEF record
<1>2. reqs[r] \in AtGateway
  BY <1>1, Handled DEF Inv
<1>3. Made(k, granted, policies) /\ Unsatisfied(k, q) = {} /\ k.policies \subseteq Grants
  BY <1>1, <1>2 DEF Inv, ReqsVetted, Vetted, AtGateway, Tokens
<1>4. CASE Refuse(r, "ask") /\ UNCHANGED ledger
  BY <1>1, <1>4, RefuseInv
<1>5. ASSUME AllRoom(r, S), ledger' = ledger \cup N, reqs' = [reqs EXCEPT ![r].pc = "send"]
      PROVE  Inv'
  <2>1. S \subseteq k.policies /\ IsFiniteSet(S)
    BY <1>3, AdmittedOf, FS_Subset DEF Made
  <2> DEFINE A(g) == ledger \cup {Entry(r, h) : h \in S \ {g}}
  <2>2. ASSUME NEW g \in S
        PROVE  /\ g \in Grants /\ Given(g, policies) /\ Kinds[q].amount < g.lt
               /\ HasRoom(g, reqs[r].turn, Kinds[q].amount, A(g))
    <3>1. Kinds[q].amount < g.lt
      BY DEF Admitted, admits
    <3> QED BY <1>3, <1>5, <2>1, <3>1 DEF Made, AllRoom
  <2> HIDE DEF A
  <2>3. ASSUME NEW g \in S
        PROVE  /\ Entry(r, g) \in Entries /\ Entry(r, g).policy = g.policy /\ Entry(r, g).policy # "exclusion"
               /\ Entry(r, g).req = r /\ Entry(r, g).gate = g.gate /\ Entry(r, g).turn = reqs[r].turn
               /\ Entry(r, g).amount < Entry(r, g).lt
    <3> HIDE DEF S
    <3> QED BY <1>2, <2>2, Recorded
  <2>4. IsFiniteSet(N)
    <3> HIDE DEF S
    <3> DEFINE f == [g \in S |-> Entry(r, g)]
    <3>1. {f[g] : g \in S} = N /\ f = [g \in S |-> f[g]]
      OBVIOUS
    <3> HIDE DEF f
    <3>2. IsFiniteSet({f[g] : g \in S})
      BY <2>1, <3>1, Mapped
    <3> QED BY <3>1, <3>2
  <2> DEFINE R == [reqs[r] EXCEPT !.pc = "send"]
  <2>5. R \in AtGateway /\ R.kind = q /\ R.token = k /\ R.pc = "send" /\ reqs' = [reqs EXCEPT ![r] = R]
    BY <1>2, <1>5 DEF AtGateway
  <2>6. Approved(r, q, granted, ledger')
    <3> SUFFICES ASSUME NEW g \in Kinds[q].gates, digest(g, q) \notin granted
                 PROVE  \E l \in ledger' : l.req = r /\ l.gate = g
      BY DEF Approved
    <3>1. g \in Covering(q, k.gates)
      BY <1>2, <1>3, EgressGateAssumption DEF Covering, Made, AtGateway
    <3>2. ~permits(k, g, q)
      BY <1>3 DEF permits, Made
    <3>3. PICK h \in admits(k, g, q) : TRUE
      BY <1>3, <3>1, <3>2 DEF Unsatisfied
    <3>4. h \in S /\ h.gate = g
      BY <3>1, <3>2, <3>3 DEF Admitted, admits
    <3> HIDE DEF S
    <3>5. Entry(r, h) \in ledger'
      BY <1>5, <3>4
    <3> QED BY <2>3, <3>4, <3>5
  <2> HIDE DEF S, R
  <2>7. TypeOK'
    <3>1. reqs' \in [Requests -> {NoReq} \cup AtGateway \cup Answered]
      BY <2>5, TypeReq DEF Inv
    <3>2. ledger' \subseteq Entries
      BY <1>5, <2>3 DEF Inv, TypeOK
    <3> QED BY <1>1, <3>1, <3>2 DEF Inv, TypeOK
  <2>8. OneRow' /\ TermsCurrent' /\ IsFiniteSet(ledger')
    <3>1. IsFiniteSet(ledger')
      BY <1>5, <2>4, FS_Union DEF Inv
    <3> QED BY <1>1, <1>5, <2>3, <3>1 DEF Inv, OneRow, TermsCurrent
  <2>9. TokensMade'
    BY <1>1 DEF Inv, TokensMade
  <2>10. ReqsVetted'
    <3> SUFFICES ASSUME NEW x \in Requests PROVE Vetted(x, reqs'[x], granted, policies, ledger')
      BY <1>1 DEF ReqsVetted
    <3>1. CASE x = r
      <4>1. reqs'[x] = R
        BY <2>5, <3>1 DEF Inv, TypeOK
      <4> QED BY <1>3, <2>5, <2>6, <3>1, <4>1 DEF Vetted
    <3>2. CASE x # r
      <4>1. reqs'[x] = reqs[x] /\ reqs[x] \in {NoReq} \cup AtGateway \cup Answered
        BY <2>5, <3>2 DEF Inv, TypeOK
      <4>2. Vetted(x, reqs[x], granted, policies, ledger)
        BY DEF Inv, ReqsVetted
      <4>3. \A l \in ledger : \E m \in ledger' : m.req = l.req /\ m.gate = l.gate
        BY <1>5
      <4>4. Moves(policies, policies) /\ \A p \in policies \cup policies : Row(p)
        BY NoMove DEF Inv, TypeOK
      <4> QED BY <4>1, <4>2, <4>3, <4>4, VettedStays
    <3> QED BY <3>1, <3>2
  <2>11. WithinCounts'
    <3> SUFFICES ASSUME NEW p \in policies
                 PROVE  /\ \A t \in Turns :
                              Cardinality({l \in Of(p.id, ledger') : l.turn = t}) <= p.perTurn
                        /\ Cardinality({l \in Of(p.id, ledger') : l.today}) <= p.perDay
      BY <1>1 DEF WithinCounts
    <3>1. /\ \A t \in Turns : Cardinality({l \in Of(p.id, ledger) : l.turn = t}) <= p.perTurn
          /\ Cardinality({l \in Of(p.id, ledger) : l.today}) <= p.perDay
      BY DEF Inv, WithinCounts
    <3>2. p.perTurn \in Nat /\ p.perDay \in Nat
      BY DEF Inv, TypeOK, Row
    <3>3. CASE \A g \in S : g.policy # p.id
      <4>1. Of(p.id, ledger') = Of(p.id, ledger)
        BY <1>5, <2>3, <3>3 DEF Of
      <4> QED BY <3>1, <4>1
    <3>4. ASSUME NEW g \in S, g.policy = p.id
          PROVE  /\ \A t \in Turns :
                       Cardinality({l \in Of(p.id, ledger') : l.turn = t}) <= p.perTurn
                 /\ Cardinality({l \in Of(p.id, ledger') : l.today}) <= p.perDay
      <4> DEFINE M(L) == {l \in Of(p.id, L) : l.turn = reqs[r].turn}
                 D(L) == {l \in Of(p.id, L) : l.today}
      <4>1. ledger' \subseteq A(g) \cup {Entry(r, g)} /\ A(g) \subseteq ledger'
        BY <1>5 DEF A
      <4>2. /\ Cardinality(M(A(g))) < Least(p.perTurn, g.perTurn)
            /\ Cardinality(D(A(g))) < Least(p.perDay, g.perDay)
        <5>1. PICK o \in policies :
                /\ o.id = g.policy
                /\ Cardinality({l \in Of(o.id, A(g)) : l.turn = reqs[r].turn}) < Least(o.perTurn, g.perTurn)
                /\ Cardinality({l \in Of(o.id, A(g)) : l.today}) < Least(o.perDay, g.perDay)
          BY <2>2 DEF HasRoom
        <5>2. o = p
          BY <3>4, <5>1 DEF Inv, OneRow
        <5> QED BY <5>1, <5>2
      <4>3. IsFiniteSet(M(A(g))) /\ IsFiniteSet(D(A(g)))
        <5>1. IsFiniteSet(A(g))
          BY <2>8, <4>1, FS_Subset
        <5> QED BY <5>1, FS_Subset DEF Of
      <4>4. Cardinality(M(A(g))) < p.perTurn /\ Cardinality(D(A(g))) < p.perDay
        <5>1. g.perTurn \in Nat /\ g.perDay \in Nat
          BY <2>2 DEF Grants
        <5>2. Cardinality(M(A(g))) \in Nat /\ Cardinality(D(A(g))) \in Nat
          BY <4>3, FS_CardinalityType
        <5> HIDE DEF M, D
        <5> QED BY <3>2, <4>2, <5>1, <5>2 DEF Least
      <4>5. M(ledger') \subseteq M(A(g)) \cup {Entry(r, g)} /\ D(ledger') \subseteq D(A(g)) \cup {Entry(r, g)}
        BY <4>1 DEF Of
      <4>6. Cardinality(M(ledger')) <= p.perTurn /\ Cardinality(D(ledger')) <= p.perDay
        <5> HIDE DEF M, D
        <5> QED BY <3>2, <4>3, <4>4, <4>5, OneMore
      <4>7. \A t \in Turns \ {reqs[r].turn} :
              {l \in Of(p.id, ledger') : l.turn = t} = {l \in Of(p.id, ledger) : l.turn = t}
        BY <1>5, <2>3 DEF Of
      <4> QED BY <3>1, <4>6, <4>7
    <3> QED BY <3>3, <3>4
  <2> QED BY <2>7, <2>8, <2>9, <2>10, <2>11 DEF Inv
<1> QED BY <1>1, <1>4, <1>5 DEF record


\* A day's end leaves what was recorded of each turn, and counts none of the new day.
LEMMA NewDayInv ==
    ASSUME Inv, NewDay
    PROVE  Inv'
<1> DEFINE f == [l \in ledger |-> [l EXCEPT !.today = FALSE]]
<1>1. ledger' = {f[l] : l \in ledger} /\ UNCHANGED <<policies, granted, tokens, reqs>>
  BY DEF NewDay
<1>2. \A l \in ledger : /\ f[l] \in Entries /\ f[l].policy = l.policy /\ f[l].gate = l.gate
                        /\ f[l].req = l.req /\ f[l].turn = l.turn /\ f[l].amount = l.amount
                        /\ f[l].lt = l.lt /\ f[l].today = FALSE
  BY DEF Inv, TypeOK, Entries
<1>3. f = [l \in ledger |-> f[l]]
  OBVIOUS
<1> HIDE DEF f
<1>4. TypeOK'
  BY <1>1, <1>2 DEF Inv, TypeOK
<1>5. OneRow' /\ TokensMade' /\ TermsCurrent'
  BY <1>1, <1>2 DEF Inv, OneRow, TokensMade, TermsCurrent
<1>6. IsFiniteSet(ledger')
  BY <1>1, <1>3, Mapped DEF Inv
<1>7. ReqsVetted'
  <2> SUFFICES ASSUME NEW x \in Requests PROVE Vetted(x, reqs[x], granted, policies, ledger')
    BY <1>1 DEF ReqsVetted
  <2>1. \A l \in ledger : \E m \in ledger' : m.req = l.req /\ m.gate = l.gate
    BY <1>1, <1>2
  <2>2. Moves(policies, policies) /\ \A p \in policies \cup policies : Row(p)
    BY NoMove DEF Inv, TypeOK
  <2>3. reqs[x] \in {NoReq} \cup AtGateway \cup Answered /\ Vetted(x, reqs[x], granted, policies, ledger)
    BY DEF Inv, TypeOK, ReqsVetted
  <2> QED BY <2>1, <2>2, <2>3, VettedStays
<1>8. WithinCounts'
  <2> SUFFICES ASSUME NEW p \in policies
               PROVE  /\ \A t \in Turns : Cardinality({l \in Of(p.id, ledger') : l.turn = t}) <= p.perTurn
                      /\ Cardinality({l \in Of(p.id, ledger') : l.today}) <= p.perDay
    BY <1>1 DEF WithinCounts
  <2>1. p.perTurn \in Nat /\ p.perDay \in Nat
    BY DEF Inv, TypeOK, Row
  <2>2. ASSUME NEW t \in Turns
        PROVE  Cardinality({l \in Of(p.id, ledger') : l.turn = t}) <= p.perTurn
    <3> DEFINE A == {l \in Of(p.id, ledger) : l.turn = t}
               h == [l \in A |-> f[l]]
    <3>1. IsFiniteSet(A) /\ Cardinality(A) <= p.perTurn
      BY FS_Subset DEF Inv, Of, WithinCounts
    <3>2. {l \in Of(p.id, ledger') : l.turn = t} = {h[l] : l \in A}
      <4>1. \A l \in A : l \in ledger /\ h[l] = f[l] /\ h[l] \in Of(p.id, ledger') /\ h[l].turn = t
        BY <1>1, <1>2 DEF Of
      <4>2. ASSUME NEW m \in Of(p.id, ledger'), m.turn = t PROVE \E l \in A : m = h[l]
        <5>1. PICK l \in ledger : m = f[l]
          BY <1>1 DEF Of
        <5>2. l \in A
          BY <1>2, <4>2, <5>1 DEF Of
        <5> QED BY <4>1, <5>1, <5>2
      <4> HIDE DEF A, h
      <4> QED BY <4>1, <4>2
    <3>3. h = [l \in A |-> h[l]]
      OBVIOUS
    <3> HIDE DEF A, h
    <3>4. IsFiniteSet({h[l] : l \in A}) /\ Cardinality({h[l] : l \in A}) <= Cardinality(A)
      BY <3>1, <3>3, Mapped
    <3>5. Cardinality(A) \in Nat /\ Cardinality({h[l] : l \in A}) \in Nat
      BY <3>1, <3>4, FS_CardinalityType
    <3> DEFINE c == Cardinality({h[l] : l \in A})
               d == Cardinality(A)
    <3>6. c \in Nat /\ d \in Nat /\ c <= d /\ d <= p.perTurn
      BY <3>1, <3>4, <3>5
    <3>7. Cardinality({l \in Of(p.id, ledger') : l.turn = t}) = c
      BY <3>2
    <3> HIDE DEF c, d
    <3>8. c <= p.perTurn
      BY <2>1, <3>6
    <3> QED BY <3>7, <3>8
  <2>3. {l \in Of(p.id, ledger') : l.today} = {}
    BY <1>1, <1>2 DEF Of
  <2>4. Cardinality({l \in Of(p.id, ledger') : l.today}) = 0
    BY <2>3, FS_EmptySet
  <2> QED BY <2>1, <2>2, <2>4
<1> QED BY <1>4, <1>5, <1>6, <1>7, <1>8 DEF Inv

-----------------------------------------------------------------------------
(* Policies edited meanwhile                                               *)

\* Rows move on, or one is added; nothing else changes.
LEMMA RowsStep ==
    ASSUME Inv, Moves(policies, policies'), OneRow', UNCHANGED <<granted, tokens, reqs, ledger>>,
           \A p \in policies' : Row(p) /\ p.id \in PolicyIds
    PROVE  Inv'
<1>1. TypeOK'
  BY DEF Inv, TypeOK
<1>2. \A p \in policies \cup policies' : Row(p)
  BY DEF Inv, TypeOK
<1>3. TokensMade'
  <2>1. ASSUME NEW t \in Turns, tokens[t].held PROVE Made(tokens[t], granted, policies')
    <3>1. Made(tokens[t], granted, policies) /\ tokens[t].policies \subseteq Grants
      BY <2>1 DEF Inv, TypeOK, TokensMade, Tokens
    <3> QED BY <1>2, <3>1, MadeStays
  <2> QED BY <2>1 DEF TokensMade
<1>4. ReqsVetted'
  <2> SUFFICES ASSUME NEW x \in Requests PROVE Vetted(x, reqs[x], granted, policies', ledger)
    BY DEF ReqsVetted
  <2>1. reqs[x] \in {NoReq} \cup AtGateway \cup Answered /\ Vetted(x, reqs[x], granted, policies, ledger)
    BY DEF Inv, TypeOK, ReqsVetted
  <2>2. \A l \in ledger : \E m \in ledger : m.req = l.req /\ m.gate = l.gate
    OBVIOUS
  <2> QED BY <1>2, <2>1, <2>2, VettedStays
<1>5. WithinCounts'
  <2> SUFFICES ASSUME NEW q \in policies'
               PROVE  /\ \A t \in Turns : Cardinality({l \in Of(q.id, ledger) : l.turn = t}) <= q.perTurn
                      /\ Cardinality({l \in Of(q.id, ledger) : l.today}) <= q.perDay
    BY DEF WithinCounts
  <2>1. q.perTurn \in Nat /\ q.perDay \in Nat
    BY DEF Row
  <2>2. CASE q.id = "exclusion"
    <3>1. Of(q.id, ledger) = {}
      BY <2>2 DEF Inv, OneRow, Of
    <3>2. /\ \A t \in Turns : {l \in Of(q.id, ledger) : l.turn = t} = {}
          /\ {l \in Of(q.id, ledger) : l.today} = {}
      BY <3>1
    <3>3. Cardinality({}) = 0
      BY FS_EmptySet
    <3> QED BY <2>1, <3>2, <3>3
  <2>3. ASSUME NEW p \in policies, Moved(p, q)
        PROVE  /\ \A t \in Turns : Cardinality({l \in Of(q.id, ledger) : l.turn = t}) <= q.perTurn
               /\ Cardinality({l \in Of(q.id, ledger) : l.today}) <= q.perDay
    BY <2>3 DEF Inv, WithinCounts, Moved
  <2> QED BY <2>2, <2>3 DEF Moves
<1> QED BY <1>1, <1>3, <1>4, <1>5 DEF Inv, TermsCurrent

\* One row moves on.
LEMMA Replaced ==
    ASSUME Inv, NEW p \in policies, NEW q, Row(q), Moved(p, q), policies' = (policies \ {p}) \cup {q},
           UNCHANGED <<granted, tokens, reqs, ledger>>
    PROVE  Inv'
<1>1. \A x \in policies : Row(x) /\ x.id \in PolicyIds
  BY DEF Inv, TypeOK
<1>2. Moves(policies, policies')
  BY <1>1 DEF Moves, Moved
<1>3. OneRow'
  BY DEF Inv, OneRow, Moved
<1>4. \A x \in policies' : Row(x) /\ x.id \in PolicyIds
  BY <1>1 DEF Moved
<1> QED BY <1>2, <1>3, <1>4, RowsStep

LEMMA updateInv ==
    ASSUME Inv, NEW p \in policies, update(p)
    PROVE  Inv'
<1>1. PICK lt \in Edits, m \in {"on", "trial"} : policies' = (policies \ {p}) \cup
          {[p EXCEPT !.lt = lt, !.mode = m, !.ver = @ + 1, !.exp = FALSE]}
  BY DEF update
<1> DEFINE q == [p EXCEPT !.lt = lt, !.mode = m, !.ver = @ + 1, !.exp = FALSE]
<1>2. Row(p) /\ lt \in Nat
  BY EgressGateAssumption DEF Inv, TypeOK
<1>3. Row(q) /\ Moved(p, q)
  BY <1>2, RowStep
<1>4. UNCHANGED <<granted, tokens, reqs, ledger>>
  BY DEF update
<1> HIDE DEF q
<1> QED BY <1>1, <1>3, <1>4, Replaced DEF q

LEMMA StopInv ==
    ASSUME Inv, NEW p \in policies, Stop(p)
    PROVE  Inv'
<1>1. PICK q \in {[p EXCEPT !.rev = TRUE], [p EXCEPT !.exp = TRUE, !.ver = @ + 1], [p EXCEPT !.setter = ~@]} :
        policies' = (policies \ {p}) \cup {q}
  BY DEF Stop
<1>2. Row(p)
  BY DEF Inv, TypeOK
<1>3. Row(q) /\ Moved(p, q)
  BY <1>2, RowStep
<1>4. UNCHANGED <<granted, tokens, reqs, ledger>>
  BY DEF Stop
<1> QED BY <1>1, <1>3, <1>4, Replaced

LEMMA excludeInv ==
    ASSUME Inv, NEW g \in DOMAIN Gates, exclude(g)
    PROVE  Inv'
<1>1. PICK q : /\ policies' = policies \cup {q} /\ Row(q)
               /\ q.id = "exclusion" /\ q.eff = "exclude"
  <2> DEFINE q == [id |-> "exclusion", eff |-> "exclude", sel |-> "op", op |-> g, act |-> None,
                   agent |-> AllAgents, max |-> 0, tests |-> {}, cur |-> {}, mode |-> "on",
                   rev |-> FALSE, exp |-> FALSE, setter |-> TRUE, acc |-> 0, ver |-> 1,
                   lt |-> 0, perTurn |-> 1, perDay |-> 1, total |-> 0]
  <2>1. policies' = policies \cup {q}
    BY DEF exclude
  <2>2. q = [f \in RowFields |-> q[f]]
    BY Zenon DEF RowFields
  <2>3. q.id = "exclusion" /\ q.eff = "exclude"
    OBVIOUS
  <2>4. q.ver = 1 /\ q.lt = 0 /\ q.perTurn = 1 /\ q.perDay = 1 /\ q.total = 0
    OBVIOUS
  <2>5. Row(q)
    <3> HIDE DEF q
    <3> QED BY <2>2, <2>4 DEF Row
  <2> HIDE DEF q
  <2> QED BY <2>1, <2>3, <2>5
<1>2. ~(\E p \in policies : p.eff = "exclude") /\ UNCHANGED <<granted, tokens, reqs, ledger>>
  BY DEF exclude
<1>3. \A x \in policies : Row(x) /\ x.id \in PolicyIds
  BY DEF Inv, TypeOK
<1>4. Moves(policies, policies')
  BY <1>1, <1>3 DEF Moves, Moved
<1>5. OneRow'
  BY <1>1, <1>2 DEF Inv, OneRow
<1>6. \A x \in policies' : Row(x) /\ x.id \in PolicyIds
  BY <1>1, <1>3 DEF PolicyIds
<1> QED BY <1>2, <1>4, <1>5, <1>6, RowsStep

-----------------------------------------------------------------------------
(* Theorems                                                                *)

LEMMA InitInv == Init => Inv
<1> SUFFICES ASSUME Init PROVE Inv
  OBVIOUS
<1>1. TypeOK
  BY TypeInit
<1>2. OneRow
  BY EgressGateAssumption DEF Init, OneRow
<1>3. TokensMade /\ ReqsVetted /\ TermsCurrent
  BY DEF Init, TokensMade, ReqsVetted, TermsCurrent, Vetted, NoToken, NoReq
<1>4. WithinCounts
  <2> SUFFICES ASSUME NEW p \in policies
               PROVE  /\ \A t \in Turns : Cardinality({l \in Of(p.id, ledger) : l.turn = t}) <= p.perTurn
                      /\ Cardinality({l \in Of(p.id, ledger) : l.today}) <= p.perDay
    BY DEF WithinCounts
  <2>1. /\ \A t \in Turns : {l \in Of(p.id, ledger) : l.turn = t} = {}
        /\ {l \in Of(p.id, ledger) : l.today} = {}
    BY DEF Init, Of
  <2>2. /\ \A t \in Turns : Cardinality({l \in Of(p.id, ledger) : l.turn = t}) = 0
        /\ Cardinality({l \in Of(p.id, ledger) : l.today}) = 0
    BY <2>1, FS_EmptySet
  <2>3. p.perTurn \in Nat /\ p.perDay \in Nat
    BY <1>1 DEF TypeOK, Row
  <2> QED BY <2>2, <2>3
<1>5. IsFiniteSet(ledger)
  BY FS_EmptySet DEF Init
<1> QED BY <1>1, <1>2, <1>3, <1>4, <1>5 DEF Inv

LEMMA NextInv == Inv /\ [Next]_vars => Inv'
<1> SUFFICES ASSUME Inv, [Next]_vars PROVE Inv'
  OBVIOUS
<1>1. CASE \E t \in Turns : prepare(t) \/ reissue(t) \/ \E r \in Requests, q \in DOMAIN Kinds : Sent(r, t, q)
  BY <1>1, prepareInv, reissueInv, SentInv
<1>2. CASE \E p \in policies : update(p) \/ Stop(p)
  BY <1>2, updateInv, StopInv
<1>3. CASE \E g \in DOMAIN Gates : exclude(g)
  BY <1>3, excludeInv
<1>4. CASE \E r \in Requests : vet(r) \/ record(r) \/ send(r) \/ approve(r)
  BY <1>4, vetInv, recordInv, sendInv, approveInv
<1>5. CASE NewDay
  BY <1>5, NewDayInv
<1>6. CASE UNCHANGED vars
  BY <1>6 DEF vars, Inv, TypeOK, OneRow, TokensMade, ReqsVetted, WithinCounts, TermsCurrent
<1> QED BY <1>1, <1>2, <1>3, <1>4, <1>5, <1>6 DEF Next

\* The invariant holds however policies are edited, revoked and excluded while
\* requests are vetted and recorded (prepare, update, vet_and_send, record).
THEOREM Invariance == Spec => []Inv
<1> QED BY InitInv, NextInv, PTL DEF Spec

\* Whatever goes out was approved through every gate covering it, by a person or by
\* a policy with its record; no policy's count of a turn or of a day is exceeded
\* however many requests race for it; and what is recorded is under the limit the
\* row states at that moment (vet_and_send, record).
THEOREM LetOut == Spec => []LetOutWithin
<1>1. Inv => LetOutWithin
  <2> SUFFICES ASSUME Inv PROVE EveryGate
    BY DEF Inv, LetOutWithin
  <2> SUFFICES ASSUME NEW r \in Out, NEW g \in Kinds[reqs[r].kind].gates
               PROVE  \/ <<g, IF Gates[g].binds = {} THEN 0 ELSE Kinds[reqs[r].kind].amount>> \in granted
                      \/ \E l \in ledger : l.req = r /\ l.gate = g
    BY DEF EveryGate
  <2>1. Approved(r, reqs[r].kind, granted, ledger)
    BY DEF Inv, ReqsVetted, Vetted, Out
  <2> QED BY <2>1 DEF Approved, digest
<1> QED BY <1>1, Invariance, PTL

\* A turn that holds a token is never given a policy it did not have, however the
\* policies change while it runs (still_standing).
THEOREM Narrows == Spec => [][NeverRegained]_vars
<1>1. ASSUME Inv, [Next]_vars PROVE [NeverRegained]_vars
  <2> SUFFICES ASSUME Next, NEW t \in Turns, tokens[t].held
               PROVE  tokens'[t].policies \subseteq tokens[t].policies
    BY <1>1 DEF NeverRegained
  <2>1. tokens \in [Turns -> Tokens]
    BY <1>1 DEF Inv, TypeOK
  <2>2. ASSUME NEW u \in Turns, prepare(u) PROVE tokens'[t] = tokens[t]
    BY <2>1, <2>2 DEF prepare
  <2>3. ASSUME NEW u \in Turns, reissue(u) PROVE tokens'[t].policies \subseteq tokens[t].policies
    BY <2>1, <2>3 DEF reissue, still_standing, Tokens
  <2>4. CASE UNCHANGED tokens
    BY <2>4
  <2> QED BY <2>2, <2>3, <2>4 DEF Next, Sent, update, Stop, exclude, vet, record, send, approve, NewDay
<1> QED BY <1>1, Invariance, PTL DEF Spec
=============================================================================
