----------------------------- MODULE PolicyRows -----------------------------
(***************************************************************************)
(* A workspace's auto-approval rows under the requests that write them:    *)
(* policies (api/auto_approval/api.rs), an operation's own rules           *)
(* (rules.rs) and the notice of operations a broad policy has yet to       *)
(* accept (waiting.rs).  Every write ends in a reconcile, which reads the  *)
(* rows, the declarations and the open notices, and then settles and       *)
(* raises one after another, beside other reconciles.  A put reads the     *)
(* rows before the transaction that replaces them.                         *)
(***************************************************************************)
EXTENDS PolicyChoice, Sequences, SequencesExt

CONSTANTS Writers,    \* requests being served at once
          Ops,        \* operations
          Reaches,    \* the operations each agent's skills hold
          Published,  \* what a version may declare of an operation, but for when
          Policies,   \* what create and update are sent
          Rules,      \* what PUT /v1/approval-rules is sent: ops, agent, automatic, tests
          FirstRows, FirstOps, FirstCap, Caps,
          MaxRows,
          Delegated,  \* whether any role may set policies
          Budget

PolicyRowsAssumption == MaxRows \in Nat /\ Delegated \in BOOLEAN /\ Caps \subseteq 0..3

VARIABLES rows,     \* approval_policies, by id
          ops,      \* the declaration each operation runs under
          cap,      \* auto_approve_max_risk
          clock,    \* moves with every publish
          items,    \* pending policy.accept items
          raised,   \* how many were raised
          req,      \* each request: where it is, what it has read
          word,     \* what the last rule put on an operation said, for each agent:
                    \* "kept" asks by an exclusion, "asks" for want of a policy
          stale,    \* the last reconcile to end worked from what no longer stood
          left

vars == <<rows, ops, cap, clock, items, raised, req, word, stale, left>>
notices == <<items, raised>>

Idle == [pc |-> "idle"]
Init ==
    /\ rows \in FirstRows /\ ops = FirstOps /\ cap = FirstCap
    /\ clock = 0 /\ items = {} /\ raised = 0
    /\ req = [w \in Writers |-> Idle]
    /\ word = [o \in Ops |-> [a \in Agents |-> "none"]] /\ stale = FALSE
    /\ left = Budget

Spend(f) == left[f] > 0 /\ left' = [left EXCEPT ![f] = @ - 1]
All == ToSet(rows)
Quiet == \A w \in Writers : req[w].pc = "idle"

\* A reconcile under way while something changes works from what it read.
Outdated(x) == IF req[x].pc \in {"idle", "put"} THEN req[x] ELSE [req[x] EXCEPT !.fresh = FALSE]

\* The write is done and the notices are brought into line.
ThenReconcile(w) ==
    req' = [x \in Writers |-> IF x = w THEN [pc |-> "reconcile", fresh |-> TRUE] ELSE Outdated(x)]

\* A rule on an operation says no more of these pairs than its rows do: for
\* those that asked for want of a policy, once one is written or comes to
\* reach it; for those an exclusion keeps, once it is edited or taken away,
\* or a policy of that operation names the agent (choose).
Unsaid(S) == word' = [o \in Ops |-> [a \in Agents |-> IF <<o, a>> \in S THEN "none" ELSE word[o][a]]]
Unkept == {<<o, a>> \in Ops \X Agents : word[o][a] = "asks"}
Guarded(i) == {<<o, a>> \in Ops \X Agents : rows[i].eff = "exclude" /\ rows[i].sel = "op" /\ rows[i].op = o}
Naming(c) == {<<o, a>> \in Ops \X Agents : c.eff = "include" /\ c.sel = "op" /\ c.op = o /\ c.agent = a}

-----------------------------------------------------------------------------
(* Policies                                                                *)

\* check: what may be written.  A selector by act is no longer.
valid(c) ==
    /\ c.sel \in {"risk", "op"} /\ (c.sel = "risk" => c.max # 0)
    /\ c.eff = "exclude" => c.tests = {} /\ c.cur = {}

\* check's answer: an exclusion is on from the moment it is written.
check(c) == IF c.eff = "exclude" THEN [c EXCEPT !.mode = "on"] ELSE c

\* The row a checked policy becomes, its setter's and accepted now.
Row(c, i) == [id |-> i, eff |-> c.eff, sel |-> c.sel, op |-> c.op, act |-> None,
              agent |-> c.agent, max |-> c.max, tests |-> c.tests, cur |-> c.cur,
              mode |-> c.mode, rev |-> FALSE, exp |-> FALSE, setter |-> TRUE, acc |-> clock]

insert(R, cs) == R \o [i \in 1..Len(cs) |-> Row(cs[i], Len(R) + i)]

create(w, c) ==
    /\ req[w].pc = "idle" /\ Spend("create")
    /\ valid(c) /\ Len(rows) < MaxRows
    /\ rows' = insert(rows, <<check(c)>>)
    /\ Unsaid(Unkept \cup Naming(c)) /\ ThenReconcile(w)
    /\ UNCHANGED <<ops, cap, clock, notices, stale>>

\* A revoked policy is not edited; an edited one keeps who set it and what was
\* accepted, and is renewed.
update(w, i, c) ==
    /\ req[w].pc = "idle" /\ Spend("update")
    /\ valid(c) /\ ~rows[i].rev
    /\ rows' = [rows EXCEPT ![i] = [Row(check(c), i) EXCEPT !.setter = rows[i].setter,
                                                            !.acc = rows[i].acc]]
    /\ Unsaid(Unkept \cup Naming(c) \cup Guarded(i)) /\ ThenReconcile(w)
    /\ UNCHANGED <<ops, cap, clock, notices, stale>>

mark(w, i, row) ==
    /\ req[w].pc = "idle" /\ Spend("mark")
    /\ ~rows[i].rev
    /\ rows' = [rows EXCEPT ![i] = row]
    /\ ThenReconcile(w)
    /\ UNCHANGED <<ops, cap, clock, notices, stale>>

revoke(w, i) == mark(w, i, [rows[i] EXCEPT !.rev = TRUE]) /\ Unsaid(Unkept \cup Guarded(i))
expire(w, i) == mark(w, i, [rows[i] EXCEPT !.exp = TRUE]) /\ Unsaid(Unkept \cup Guarded(i))
accept(w, i) == mark(w, i, [rows[i] EXCEPT !.acc = clock]) /\ Unsaid({})

-----------------------------------------------------------------------------
(* An operation's own rules                                                *)

\* What a rule for this scope replaces.
own(R, o, agent) ==
    {i \in 1..Len(R) : /\ ~R[i].rev /\ ~R[i].exp /\ R[i].sel = "op" /\ R[i].op = o
                       /\ agent = AllAgents \/ R[i].agent = agent}

Scope(o, agent) == {a \in Agents : o \in Reaches[a] /\ agent \in {AllAgents, a}}

\* The operation's rule as it is stored.
policy_for(o, r) == [eff |-> "include", sel |-> "op", op |-> o, agent |-> r.agent, max |-> 0,
                     tests |-> r.tests, cur |-> {}, mode |-> r.mode]
exclusion_for(o, r) == [eff |-> "exclude", sel |-> "op", op |-> o, agent |-> r.agent, max |-> 0,
                        tests |-> {}, cur |-> {}, mode |-> "on"]

\* put, up to its transaction: everything is checked against what is read here.
put_read(w, r) ==
    /\ req[w].pc = "idle" /\ Spend("put")
    /\ \A o \in r.ops : /\ Scope(o, r.agent) # {}
                        /\ r.automatic => cap # 0 /\ ops[o].reach <= cap /\ ops[o].auto
    /\ req' = [req EXCEPT ![w] = [pc |-> "put", r |-> r, rows |-> rows, ops |-> ops, cap |-> cap]]
    /\ UNCHANGED <<rows, ops, cap, clock, notices, word, stale>>

\* Mutant: "always asks" leaves a broader rule to speak.
Write_plain(q, o) ==
    IF q.r.automatic THEN <<policy_for(o, q.r)>> ELSE <<>>

\* What put writes for one operation: the rule, or the exclusion that keeps a
\* broader one from speaking for anybody in its scope.
Write(q, o) ==
    LET gone == own(q.rows, o, q.r.agent)
        rest == {q.rows[i] : i \in (1..Len(q.rows)) \ gone}
    IN  CASE q.r.automatic -> <<policy_for(o, q.r)>>
          [] ~q.r.automatic /\ (\E a \in Scope(o, q.r.agent) :
                                   choose(q.ops[o], rest, a, q.cap).terms # "ask") ->
                 <<exclusion_for(o, q.r)>>
          [] OTHER -> <<>>

\* What a put leaves said of an operation for an agent it is about; nothing,
\* where another wrote between its reading and its transaction.
Said(q, o) == CASE q.rows # rows \/ q.ops # ops \/ q.cap # cap -> "none"
                [] q.r.automatic -> "auto"
                [] OTHER -> IF Write(q, o) = <<>> THEN "asks" ELSE "kept"

\* put's transaction.
put(w) ==
    LET q == req[w]
        gone == UNION {own(q.rows, o, q.r.agent) : o \in q.r.ops}
        new == FlattenSeq([k \in 1..Cardinality(q.r.ops) |-> Write(q, SetToSeq(q.r.ops)[k])])
    IN
    /\ req[w].pc = "put" /\ Len(rows) + Len(new) <= MaxRows
    /\ rows' = insert([i \in 1..Len(rows) |-> IF i \in gone THEN [rows[i] EXCEPT !.rev = TRUE]
                                               ELSE rows[i]], new)
    /\ word' = [o \in Ops |-> [a \in Agents |->
                  IF o \in q.r.ops /\ a \in Scope(o, q.r.agent) THEN Said(q, o) ELSE word[o][a]]]
    /\ ThenReconcile(w)
    /\ UNCHANGED <<ops, cap, clock, notices, stale, left>>

-----------------------------------------------------------------------------
(* The notice of what is waiting                                           *)

\* For each policy that is on, the operations it would cover once accepted.
waiting(P, D, ceiling) ==
    [i \in 1..MaxRows |->
        {o \in Ops : \E a \in Agents : o \in Reaches[a] /\
            LET c == choose(D[o], P, a, ceiling)
            IN  c.terms = "trial" /\ c.by.id = i /\ c.by.mode = "on" /\ ~accepted(c.by, D[o])}]

\* A reconcile is over.  One that worked from what had changed may have undone
\* what another had read.
Ended(w, fresh) ==
    /\ stale' = ~fresh
    /\ req' = [x \in Writers |-> IF x = w THEN Idle ELSE IF fresh THEN req[x] ELSE Outdated(x)]

\* It goes on, or ends where nothing is left to settle and to raise.
Goes(w, q) ==
    IF q.settle = {} /\ \A i \in 1..MaxRows : q.found[i] = {} THEN Ended(w, q.fresh)
    ELSE req' = [req EXCEPT ![w] = q] /\ UNCHANGED stale

\* reconcile: the cap and the policies are read.
reconcile(w) ==
    /\ req[w].pc = "reconcile"
    /\ req' = [req EXCEPT ![w] = [pc |-> "declared", fresh |-> @.fresh, cap |-> cap,
                                  policies |-> {p \in All : live(p)}]]
    /\ UNCHANGED <<rows, ops, cap, clock, notices, word, stale, left>>

\* What the agents' skills declare, and so what is waiting.
reconcile_declared(w) ==
    /\ req[w].pc = "declared"
    /\ req' = [req EXCEPT ![w] = [pc |-> "open", fresh |-> @.fresh,
                                  found |-> waiting(@.policies, ops, @.cap)]]
    /\ UNCHANGED <<rows, ops, cap, clock, notices, word, stale, left>>

\* The open items are read: the ones still true are left alone.
reconcile_open(w) ==
    /\ req[w].pc = "open"
    /\ LET f == req[w].found
           true == {m \in items : m.ops = f[m.policy]}
       IN  Goes(w, [pc |-> "settle", fresh |-> req[w].fresh, settle |-> items \ true,
                    found |-> [i \in 1..MaxRows |-> IF \E m \in true : m.policy = i THEN {} ELSE f[i]]])
    /\ UNCHANGED <<rows, ops, cap, clock, notices, word, left>>

\* settle: where another has not settled it meanwhile.
settle(w, m) == items' = items \ {m}

\* The rest are settled one after another.
reconcile_settle(w) ==
    /\ req[w].pc = "settle"
    /\ \E m \in req[w].settle :
          /\ settle(w, m)
          /\ Goes(w, [req[w] EXCEPT !.settle = @ \ {m}])
    /\ UNCHANGED <<rows, ops, cap, clock, raised, word, left>>

\* Who may set a policy is asked; nothing is raised for nobody.
reconcile_roles(w) ==
    /\ req[w].pc = "settle" /\ req[w].settle = {}
    /\ IF Delegated THEN Goes(w, [req[w] EXCEPT !.pc = "raise"]) ELSE Ended(w, req[w].fresh)
    /\ UNCHANGED <<rows, ops, cap, clock, notices, word, left>>


\* What is left to raise after policy i.
Rest(q, i) == [q EXCEPT !.found[i] = {}]

\* What is waiting is raised policy by policy; the unique index lets one item
\* stand for each, and whoever comes second has lost to it.
reconcile_raise(w) ==
    LET due == {i \in 1..MaxRows : req[w].found[i] # {}}
        i == CHOOSE i \in due : \A j \in due : i <= j
    IN
    /\ req[w].pc = "raise"
    /\ IF \E m \in items : m.policy = i THEN UNCHANGED notices
       ELSE /\ items' = items \cup {[n |-> raised, policy |-> i, ops |-> req[w].found[i]]}
            /\ raised' = raised + 1
    /\ Goes(w, Rest(req[w], i))
    /\ UNCHANGED <<rows, ops, cap, clock, word, left>>

\* A statement fails: a read ends the attempt and leaves the queue as it is by
\* then, and an item that is not settled or not raised is passed over.
reconcile_fails(w) ==
    /\ req[w].pc \notin {"idle", "put"} /\ Spend("fail")
    /\ \/ /\ \/ req[w].pc \in {"reconcile", "declared", "open"}
             \/ req[w].pc = "settle" /\ req[w].settle = {}
          /\ Ended(w, FALSE)
       \/ /\ req[w].pc = "settle"
          /\ \E m \in req[w].settle : Goes(w, [req[w] EXCEPT !.settle = @ \ {m}, !.fresh = FALSE])
       \/ /\ req[w].pc = "raise"
          /\ \E i \in 1..MaxRows :
                /\ req[w].found[i] # {}
                /\ Goes(w, [Rest(req[w], i) EXCEPT !.fresh = FALSE])
    /\ UNCHANGED <<rows, ops, cap, clock, notices, word>>

-----------------------------------------------------------------------------
(* What else moves                                                         *)

\* A version of the skill is published: reconcile_after_publish.
publish(w, o, d) ==
    /\ req[w].pc = "idle" /\ Spend("publish")
    /\ clock' = clock + 1
    /\ ops' = [ops EXCEPT ![o] = [op |-> o, act |-> d.act, auto |-> d.auto, reach |-> d.reach,
                                  binds |-> d.binds, cur |-> d.cur, pub |-> clock']]
    /\ Unsaid(Unkept) /\ ThenReconcile(w)
    /\ UNCHANGED <<rows, cap, notices, stale>>

\* What moves without a request: no reconcile follows it.
Unasked == stale' = TRUE /\ req' = [x \in Writers |-> Outdated(x)]

\* A policy's day comes.
Expires(i) ==
    /\ ~rows[i].exp /\ Spend("time")
    /\ rows' = [rows EXCEPT ![i].exp = TRUE]
    /\ Unsaid(Unkept \cup Guarded(i)) /\ Unasked
    /\ UNCHANGED <<ops, cap, clock, notices>>

\* Whoever set a policy leaves the workspace, or is back.
Membership(i) ==
    /\ Spend("member")
    /\ rows' = [rows EXCEPT ![i].setter = ~@]
    /\ Unsaid(Unkept \cup Guarded(i)) /\ Unasked
    /\ UNCHANGED <<ops, cap, clock, notices>>

\* The operator moves the deployment's cap.
SetCap(c) ==
    /\ c # cap /\ Spend("cap")
    /\ cap' = c
    /\ Unsaid(Unkept) /\ Unasked
    /\ UNCHANGED <<rows, ops, clock, notices>>

Next ==
    \/ \E w \in Writers :
        \/ \E c \in Policies : create(w, c) \/ \E i \in 1..Len(rows) : update(w, i, c)
        \/ \E i \in 1..Len(rows) : revoke(w, i) \/ expire(w, i) \/ accept(w, i)
        \/ \E r \in Rules : put_read(w, r)
        \/ put(w)
        \/ \E o \in Ops : \E d \in Published[o] : publish(w, o, d)
        \/ reconcile(w) \/ reconcile_declared(w) \/ reconcile_open(w) \/ reconcile_settle(w)
        \/ reconcile_roles(w) \/ reconcile_raise(w) \/ reconcile_fails(w)
    \/ \E i \in 1..Len(rows) : Expires(i) \/ Membership(i)
    \/ \E c \in Caps : SetCap(c)

Spec == Init /\ [][Next]_vars

-----------------------------------------------------------------------------
Chosen(o, a) == choose(ops[o], All, a, cap)

TypeOK ==
    /\ \A i \in 1..Len(rows) : rows[i].id = i /\ state(rows[i]) \in {"revoked", "expired", "lapsed", "on", "trial"}
    /\ \A m \in items : m.ops # {} /\ m.ops \subseteq Ops /\ m.policy \in 1..Len(rows)
    /\ cap \in 0..3

\* One notice stands for a policy at most, however many reconciles race (the
\* unique index of waiting.rs, and its settling before it raises).
OneNotice == \A m, k \in items : m.policy = k.policy => m = k


\* An exclusion naming this agent, or broader than one operation, always asks:
\* no inclusion of any kind gets past it (choose: deny overrides).
DenyOverrides == \A o \in Ops : \A a \in Agents :
    (\E p \in applicable(ops[o], All, a) :
        p.eff = "exclude" /\ (p.agent = a \/ p.sel # "op")) => Chosen(o, a).terms = "ask"

\* What was published after a broad policy was accepted is not let through by
\* it until it is accepted again, an edit included (accepted, accept).
NotWaved == \A o \in Ops : \A a \in Agents :
    LET c == Chosen(o, a)
    IN  c.terms = "on" /\ c.by.sel = "risk" => ops[o].pub <= c.by.acc

\* An operation put to "always asks" asks, for every agent the rule is about.
\* Where something broader spoke for it an exclusion is written, and nothing
\* broader gets past it afterwards, in whatever order policies are added,
\* edited, accepted, published past or renewed, until that exclusion is itself
\* taken away or lapses with whoever set it.  Where nothing spoke none is
\* written (rules.rs:656-670), and it asks beside other rules until a policy is
\* written or comes to reach it.  Of two rules put at once, each on the rows as
\* it read them, it says nothing.
AsksStands == \A o \in Ops : \A a \in Agents :
    word[o][a] \in {"asks", "kept"} => Chosen(o, a).terms = "ask"
=============================================================================
