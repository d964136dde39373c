----------------------------- MODULE EgressGate -----------------------------
(***************************************************************************)
(* A turn's gated requests at the gateway (gateway/egress/mod.rs).  The    *)
(* API prepares a turn's token over its gates, what a person has granted   *)
(* and the policies that speak for its gates; the runtime sends each       *)
(* request with the gates it says it was given; the gateway satisfies      *)
(* every covering gate, records each policy's yes in the database and      *)
(* sends.  Policies are edited, revoked and excluded meanwhile, and        *)
(* requests race each other for a policy's caps.                           *)
(***************************************************************************)
EXTENDS PolicyChoice, FiniteSetsExt

CONSTANTS Turns,      \* jobs, each prepared once
          Requests,   \* what the runtime may have in flight
          Gates,      \* gate -> [binds, auto, reach]: what the skills declare
          Kinds,      \* request kind -> the gates covering it, its amount, whether it carries a file
          FirstRows,  \* the policies that stand
          MaxVersion, \* edits of one policy
          Edits,      \* the limits an edit may set
          Database,   \* whether the gateway has one
          Budget

\* A row of approval_policies: what a policy speaks for, its terms and its caps.
RowFields == {"id", "eff", "sel", "op", "act", "agent", "max", "tests", "cur", "mode", "rev", "exp",
              "setter", "acc", "ver", "lt", "perTurn", "perDay", "total"}
Row(p) ==
    /\ p = [f \in RowFields |-> p[f]]
    /\ \A f \in {"ver", "lt", "perTurn", "perDay", "total"} : p[f] \in Nat

ASSUME EgressGateAssumption ==
    /\ IsFiniteSet(DOMAIN Gates) /\ Edits \subseteq Nat
    /\ \A q \in DOMAIN Kinds : Kinds[q].gates \subseteq DOMAIN Gates /\ Kinds[q].amount \in Nat
    /\ \A P \in FirstRows :
          /\ \A p, q \in P : p.id = q.id => p = q
          /\ \A p \in P : p.id # "exclusion" /\ Row(p)

VARIABLES policies, \* approval_policies
          granted,  \* what a person has approved: gate and bound values
          tokens,   \* each turn's commitment: gates, grants, policies
          reqs,     \* requests at the gateway
          ledger,   \* auto_approvals
          left

vars == <<policies, granted, tokens, reqs, ledger, left>>

NoToken == [gates |-> {}, grants |-> {}, policies |-> {}, held |-> FALSE]
NoReq == [pc |-> "none"]

Init ==
    /\ policies \in FirstRows /\ granted = {} /\ ledger = {}
    /\ tokens = [t \in Turns |-> NoToken]
    /\ reqs = [r \in Requests |-> NoReq]
    /\ left = Budget

Spend(f) == left[f] > 0 /\ left' = [left EXCEPT ![f] = @ - 1]
TheAgent == CHOOSE x \in Agents : TRUE

-----------------------------------------------------------------------------
(* The API                                                                 *)

Declared(g) == [op |-> g, act |-> g, auto |-> Gates[g].auto, reach |-> 1, binds |-> Gates[g].binds,
                cur |-> None, pub |-> 0]

\* What the token carries for one gate a policy is on for.
grant(g, p) == [gate |-> g, policy |-> p.id, ver |-> p.ver, lt |-> p.lt, perTurn |-> p.perTurn,
                perDay |-> p.perDay, total |-> p.total]

\* for_turn, or nothing where the policies could not be read.
for_turn == UNION {
    LET c == choose(Declared(g), policies, TheAgent, 3)
    IN  IF c.terms = "on" THEN {grant(g, c.by)} ELSE {}
    : g \in DOMAIN Gates}

\* The token a turn starts with.
prepare(t) ==
    /\ ~tokens[t].held
    /\ \/ UNCHANGED left /\ tokens' = [tokens EXCEPT ![t] =
            [gates |-> DOMAIN Gates, grants |-> granted, policies |-> for_turn, held |-> TRUE]]
       \/ Spend("unread") /\ tokens' = [tokens EXCEPT ![t] =
            [gates |-> DOMAIN Gates, grants |-> granted, policies |-> {}, held |-> TRUE]]
    /\ UNCHANGED <<policies, granted, reqs, ledger>>

\* standing: on, at the version committed.
still_standing(G) == {g \in G : \E p \in policies : p.id = g.policy /\ p.ver = g.ver /\ state(p) = "on"}

\* A running turn's token is issued again with the policies that still stand.
reissue(t) ==
    /\ tokens[t].held /\ Spend("reissue")
    /\ tokens' = [tokens EXCEPT ![t].policies = still_standing(@)]
    /\ UNCHANGED <<policies, granted, reqs, ledger>>

\* An edit moves the version on; so does expiring.
update(p) ==
    /\ p.eff = "include" /\ ~p.rev /\ p.ver < MaxVersion /\ Spend("edit")
    /\ \E lt \in Edits, m \in {"on", "trial"} :
          policies' = (policies \ {p}) \cup
                         {[p EXCEPT !.lt = lt, !.mode = m, !.ver = @ + 1, !.exp = FALSE]}
    /\ UNCHANGED <<granted, tokens, reqs, ledger>>

Stop(p) ==
    /\ p.eff = "include" /\ Spend("stop")
    /\ \/ ~p.rev /\ policies' = (policies \ {p}) \cup {[p EXCEPT !.rev = TRUE]}
       \/ /\ ~p.rev /\ p.ver < MaxVersion
          /\ policies' = (policies \ {p}) \cup {[p EXCEPT !.exp = TRUE, !.ver = @ + 1]}
       \/ policies' = (policies \ {p}) \cup {[p EXCEPT !.setter = ~@]}
    /\ UNCHANGED <<granted, tokens, reqs, ledger>>

\* An exclusion of an operation is written.
exclude(g) ==
    /\ ~(\E p \in policies : p.eff = "exclude") /\ Spend("exclude")
    /\ policies' = policies \cup {[id |-> "exclusion", eff |-> "exclude", sel |-> "op", op |-> g, act |-> None,
                           agent |-> AllAgents, max |-> 0, tests |-> {}, cur |-> {}, mode |-> "on",
                           rev |-> FALSE, exp |-> FALSE, setter |-> TRUE, acc |-> 0, ver |-> 1,
                           lt |-> 0, perTurn |-> 1, perDay |-> 1, total |-> 0]}
    /\ UNCHANGED <<granted, tokens, reqs, ledger>>

-----------------------------------------------------------------------------
(* A request                                                               *)

Covering(q, G) == Kinds[q].gates \cap G

\* digest: the gate and the values it binds; a host gate binds nothing.
digest(g, q) == <<g, IF Gates[g].binds = {} THEN 0 ELSE Kinds[q].amount>>

\* The runtime sends one, with the gates it says the turn was given: the
\* turn's own, none, or the turn's and a policy nobody committed.
Sent(r, t, q) ==
    /\ reqs[r].pc = "none" /\ tokens[t].held
    /\ \E offer \in {tokens[t], [tokens[t] EXCEPT !.gates = {}],
                     [tokens[t] EXCEPT !.policies = for_turn]} :
          reqs' = [reqs EXCEPT ![r] = [pc |-> "vet", turn |-> t, kind |-> q, token |-> tokens[t], offer |-> offer]]
    /\ UNCHANGED <<policies, granted, tokens, ledger, left>>

\* The policy committed against a gate, where its tests hold of the request;
\* no policy covers a gate that binds nothing.
admits(k, g, q) ==
    {p \in k.policies : p.gate = g /\ Gates[g].binds # {} /\ Kinds[q].amount < p.lt}

Refuse(r, why) == reqs' = [reqs EXCEPT ![r] = [pc |-> why, turn |-> @.turn, kind |-> @.kind]]

\* permitted: a grant keyed on this gate and these values.
permits(k, g, q) == digest(g, q) \in k.grants

\* Mutant: one satisfied gate is enough.
Unsatisfied_all(k, q) ==
    LET C == Covering(q, k.gates)
    IN  IF \E g \in C : permits(k, g, q) \/ admits(k, g, q) # {} THEN {} ELSE C

\* Every covering gate no grant and no policy satisfies.
Unsatisfied(k, q) ==
    {g \in Covering(q, k.gates) : ~permits(k, g, q) /\ admits(k, g, q) = {}}

\* What the policies let through, each with its gate.
Admitted(k, q) == UNION {IF permits(k, g, q) THEN {} ELSE admits(k, g, q)
                         : g \in Covering(q, k.gates)}

\* vet_and_send, up to the record: nothing here reads the database.
vet(r) ==
    LET q == reqs[r].kind
        k == reqs[r].token
    IN
    /\ reqs[r].pc = "vet"
    /\ IF reqs[r].offer # k \/ (Kinds[q].file /\ Covering(q, k.gates) # {}) THEN Refuse(r, "no")
       ELSE IF Unsatisfied(k, q) # {} THEN Refuse(r, "ask")
       ELSE reqs' = [reqs EXCEPT ![r].pc = IF Admitted(k, q) = {} THEN "send" ELSE "record"]
    /\ UNCHANGED <<policies, granted, tokens, ledger, left>>

Of(p, L) == {l \in L : l.policy = p}
Total(L) == MapThenSumSet(LAMBDA l : l.amount, L)
Least(x, y) == IF x < y THEN x ELSE y

\* record's insert: the policy still stands at the version committed, and its
\* caps, the tighter of the row's and the token's, have room.
HasRoom(g, t, amount, L) ==
    \E p \in policies :
        /\ p.id = g.policy /\ p.eff = "include" /\ state(p) = "on" /\ p.ver = g.ver
        /\ Cardinality({l \in Of(p.id, L) : l.turn = t}) < Least(p.perTurn, g.perTurn)
        /\ Cardinality({l \in Of(p.id, L) : l.today}) < Least(p.perDay, g.perDay)
        /\ Total({l \in Of(p.id, L) : l.today}) + amount <= Least(p.total, g.total)

Entry(r, g) == [policy |-> g.policy, gate |-> g.gate, req |-> r, turn |-> reqs[r].turn,
                amount |-> Kinds[reqs[r].kind].amount, today |-> TRUE,
                lt |-> (CHOOSE p \in policies : p.id = g.policy).lt]

\* The records already written by this transaction are counted with the rest.
AllRoom(r, S) ==
    \A g \in S : HasRoom(g, reqs[r].turn, Kinds[reqs[r].kind].amount,
                      ledger \cup {Entry(r, h) : h \in S \ {g}})

\* record, in one transaction with the policies locked: all of them, or a person
\* is asked.
record(r) ==
    LET S == Admitted(reqs[r].token, reqs[r].kind)
    IN
    /\ reqs[r].pc = "record"
    /\ \/ /\ Database /\ AllRoom(r, S)
          /\ ledger' = ledger \cup {Entry(r, g) : g \in S}
          /\ reqs' = [reqs EXCEPT ![r].pc = "send"] /\ UNCHANGED left
       \/ /\ ~(Database /\ AllRoom(r, S))
          /\ Refuse(r, "ask") /\ UNCHANGED <<ledger, left>>
       \/ Spend("database") /\ Refuse(r, "ask") /\ UNCHANGED ledger
    /\ UNCHANGED <<policies, granted, tokens>>

\* The request goes out; or the pod dies with it, recorded or not.
send(r) ==
    /\ reqs[r].pc = "send"
    /\ \/ UNCHANGED left /\ reqs' = [reqs EXCEPT ![r] = [pc |-> "sent", turn |-> @.turn, kind |-> @.kind]]
       \/ Spend("crash") /\ Refuse(r, "lost")
    /\ UNCHANGED <<policies, granted, tokens, ledger>>

\* A person approves a request that was refused for want of it, through each
\* gate covering it.
approve(r) ==
    /\ reqs[r].pc = "ask" /\ Spend("approve")
    /\ granted' = granted \cup {digest(g, reqs[r].kind) : g \in Kinds[reqs[r].kind].gates}
    /\ reqs' = [reqs EXCEPT ![r] = NoReq]
    /\ UNCHANGED <<policies, tokens, ledger>>

NewDay ==
    /\ Spend("day")
    /\ ledger' = {[l EXCEPT !.today = FALSE] : l \in ledger}
    /\ UNCHANGED <<policies, granted, tokens, reqs>>

Next ==
    \/ \E t \in Turns : prepare(t) \/ reissue(t) \/ \E r \in Requests, q \in DOMAIN Kinds : Sent(r, t, q)
    \/ \E p \in policies : update(p) \/ Stop(p)
    \/ \E g \in DOMAIN Gates : exclude(g)
    \/ \E r \in Requests : vet(r) \/ record(r) \/ send(r) \/ approve(r)
    \/ NewDay

Spec == Init /\ [][Next]_vars

-----------------------------------------------------------------------------
Out == {r \in Requests : reqs[r].pc = "sent"}

PolicyIds == {"exclusion"} \cup {p.id : p \in UNION FirstRows}
Digests == (DOMAIN Gates) \X Nat
Grants == [gate : DOMAIN Gates, policy : PolicyIds, ver : Nat, lt : Nat, perTurn : Nat,
           perDay : Nat, total : Nat]
Tokens == [gates : SUBSET DOMAIN Gates, grants : SUBSET Digests, policies : SUBSET Grants,
           held : BOOLEAN]
Entries == [policy : PolicyIds, gate : DOMAIN Gates, req : Requests, turn : Turns, amount : Nat,
            today : BOOLEAN, lt : Nat]
AtGateway == [pc : {"vet", "record", "send"}, turn : Turns, kind : DOMAIN Kinds, token : Tokens,
              offer : Tokens]
Answered == [pc : {"sent", "ask", "no", "lost"}, turn : Turns, kind : DOMAIN Kinds]

TypeOK ==
    /\ \A p \in policies : Row(p) /\ p.id \in PolicyIds
    /\ granted \subseteq Digests /\ ledger \subseteq Entries
    /\ tokens \in [Turns -> Tokens]
    /\ reqs \in [Requests -> {NoReq} \cup AtGateway \cup Answered]

\* A request that went out was approved through every gate covering it: by a
\* person, for this gate and these values, or by a policy that has its record
\* (vet_and_send, Gates::covering_all, matches).
EveryGate == \A r \in Out : \A g \in Kinds[reqs[r].kind].gates :
    \/ <<g, IF Gates[g].binds = {} THEN 0 ELSE Kinds[reqs[r].kind].amount>> \in granted
    \/ \E l \in ledger : l.req = r /\ l.gate = g

\* A policy's caps on how many requests it lets out, of a turn and of a day,
\* hold however many gateways recorded at once (record).
WithinCounts == \A p \in policies :
    LET L == Of(p.id, ledger)
    IN  /\ \A t \in Turns : Cardinality({l \in L : l.turn = t}) <= p.perTurn
        /\ Cardinality({l \in L : l.today}) <= p.perDay

\* So does its cap on how much goes out in a day (record).
WithinTotal == \A p \in policies : Total({l \in Of(p.id, ledger) : l.today}) <= p.total

\* What was let out is what the policy's row said when it was recorded, not
\* what the turn was given: an edit binds every request after it (record).
TermsCurrent == \A l \in ledger : l.amount < l.lt

\* All that is asked of what goes out, but for the sum.
LetOutWithin == TypeOK /\ EveryGate /\ WithinCounts /\ TermsCurrent

\* A running turn is never given more than it started with (still_standing).
NeverRegained == \A t \in Turns : tokens[t].held => tokens'[t].policies \subseteq tokens[t].policies
=============================================================================
