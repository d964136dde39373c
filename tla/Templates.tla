------------------------------ MODULE Templates ------------------------------
(***************************************************************************)
(* One agent template of the operator and the agents workspaces have of it:  *)
(* creating, publishing and changing the template, provisioning, adding and  *)
(* removing an agent, keeping one on a version, a workspace's own section,   *)
(* and what a turn reads (api/agent_template, agent_templates.rs, agents.rs, *)
(* agent/postgres.rs, worker/turn.rs).  Versions are numbered, and each has  *)
(* a name of its own.  A request is asked once, and one step of it is a      *)
(* statement or a transaction.                                               *)
(***************************************************************************)
EXTENDS Integers, Sequences, FiniteSets

CONSTANTS Workspaces, Asks, Calls, Faults, Starts, Opened, None, Most

Availabilities == {"required", "default", "optional"}
Rules == [avail : Availabilities, pins : BOOLEAN, adds : BOOLEAN, retired : BOOLEAN]
Requests == 1..Asks
Ops == {"create", "publish", "update", "open", "catalog", "install", "remove", "hand", "pin",
    "section", "turn"}

\* What is taken of the constants: Most is the last number tried after a slug, 1000 in the code.
TemplatesAssumption ==
    /\ Asks \in Nat /\ Faults \in Nat
    /\ \A s \in Starts : s.rules \in Rules \cup {None} /\ (s.published = 0 <=> s.rules = None)
    /\ Opened \subseteq Workspaces /\ Most \in Nat
    /\ \A c \in Calls : c.do \in Ops /\ c.at \in Workspaces \cup {None} /\ c.version \in Nat

VARIABLES template,   \* the template's rules, or None before it is made
          published,  \* how many versions it has
          opened,     \* workspaces there are
          agents,     \* agent rows in the order made, those of the template and by hand
          dismissed,  \* agent_template_dismissals
          ask,        \* requests, numbered as they are asked
          faults      \* statements that may still fail

vars == <<template, published, opened, agents, dismissed, ask, faults>>

\* A request: its call; the requests done before it was asked; the workspaces provision still
\* owes, the one being made for and what its statement chose; what was read for a turn; and, for
\* the properties, the workspaces that removed their agent after it was to make them one.
Unasked == [pc |-> "unasked", call |-> None, after |-> {}, said |-> None, todo |-> {}, at |-> None,
            slug |-> 0, name |-> 0, tries |-> 0, agent |-> 0, section |-> FALSE, got |-> <<>>,
            stale |-> {}]

Init ==
    /\ \E s \in Starts : template = s.rules /\ published = s.published /\ agents = s.agents
    /\ opened = Opened /\ dismissed = {} /\ ask = [q \in Requests |-> Unasked] /\ faults = Faults

At(q, pc) == ask[q].pc = pc
Goes(q, r) == ask' = [ask EXCEPT ![q] = r]
Moves(q, pc) == Goes(q, [ask[q] EXCEPT !.pc = pc])
Says(q, what) == Goes(q, [ask[q] EXCEPT !.pc = "done", !.said = what])

Live(a) == a \in DOMAIN agents /\ ~agents[a].gone
Made(w) == {a \in DOMAIN agents : Live(a) /\ agents[a].made /\ agents[a].at = w}
TakenIn(w) == {agents[a].slug : a \in {b \in DOMAIN agents : Live(b) /\ agents[b].at = w}}
\* The slug itself, or the lowest free number after it.
FreeIn(w) == ({0} \cup 2..Most) \ TakenIn(w)
Least(S) == CHOOSE n \in S : \A m \in S : n <= m
Provisioned(rules) == rules.avail \in {"required", "default"}

\* RUNNING_VERSION: the pinned version while the template allows it, else the newest.
RunningVersion(a) ==
    LET may == {v \in 1..published : ~template.pins \/ agents[a].pin \in {0, v}}
    IN CHOOSE v \in may : \A w \in may : w <= v

(* ------------------------------- the template ----------------------------- *)

First(do) ==
    CASE do \in {"create", "update", "publish", "install"} -> do
      [] do \in {"remove", "pin", "section", "turn"} -> "agent"
      [] do = "catalog" -> "owed" [] OTHER -> do
Ask(q, c) ==
    /\ At(q, "unasked") /\ \A r \in 1..q - 1 : ~At(r, "unasked")
    /\ Goes(q, [Unasked EXCEPT !.pc = First(c.do), !.call = c, !.at = c.at,
                               !.after = {r \in Requests : At(r, "done")}])
    /\ UNCHANGED <<template, published, opened, agents, dismissed, faults>>

\* create: the template and its first version, then its agents where workspaces are given one.
create(q) ==
    /\ At(q, "create")
    /\ IF template # None THEN Says(q, "duplicate") /\ UNCHANGED <<template, published>>
       ELSE /\ template' = ask[q].call.rules /\ published' = 1
            /\ IF Provisioned(template') THEN Moves(q, "owed") ELSE Says(q, "ok")
    /\ UNCHANGED <<opened, agents, dismissed, faults>>

\* publish: refused for a retired template, as it was read.
publish(q) ==
    /\ At(q, "publish")
    /\ IF template = None \/ template.retired THEN Says(q, "refused") ELSE Moves(q, "write")
    /\ UNCHANGED <<template, published, opened, agents, dismissed, faults>>
write_version(q) ==
    /\ At(q, "write") /\ published' = published + 1 /\ Moves(q, "owed")
    /\ UNCHANGED <<template, opened, agents, dismissed, faults>>

\* update: one statement over the fields given; read again, for whether agents are owed.
update(q) ==
    LET set == ask[q].call.rules IN
    /\ At(q, "update")
    /\ IF template = None THEN Says(q, "absent") /\ UNCHANGED template
       ELSE /\ template' =
                  [f \in DOMAIN template |-> IF f \in DOMAIN set THEN set[f] ELSE template[f]]
            /\ Moves(q, "reread")
    /\ UNCHANGED <<published, opened, agents, dismissed, faults>>
Reread(q) ==
    /\ At(q, "reread")
    /\ IF Provisioned(template) /\ ~template.retired THEN Moves(q, "owed") ELSE Says(q, "ok")
    /\ UNCHANGED <<template, published, opened, agents, dismissed, faults>>

(* ------------------------------ provisioning ------------------------------ *)

\* create_workspace, then what the operator gives everyone.
create_workspace(q) ==
    /\ At(q, "open") /\ opened' = opened \cup {ask[q].at}
    /\ Moves(q, "owed")
    /\ UNCHANGED <<template, published, agents, dismissed, faults>>

Scope(q) == IF ask[q].call.at = None THEN opened ELSE opened \cap {ask[q].call.at}
owed(w) ==
    /\ template.avail = "required" \/ (template.avail = "default" /\ w \notin dismissed)
    /\ Made(w) = {}
\* provision: who is owed one; each is made in turn; then the names.
provision(q) ==
    /\ At(q, "owed")
    /\ Goes(q, [ask[q] EXCEPT !.pc = "make",
                  !.todo = IF template = None \/ template.retired THEN {}
                           ELSE {w \in Scope(q) : owed(w)}])
    /\ UNCHANGED <<template, published, opened, agents, dismissed, faults>>

Provisioning(q) == ask[q].call.do # "install"
\* make_agent ended for one workspace: the next one, or an install's answer.
Onward(q, what) == IF Provisioning(q) THEN Moves(q, "make") ELSE Says(q, what)
make(q) ==
    /\ At(q, "make")
    /\ IF ask[q].todo = {} THEN Moves(q, "rename")
       ELSE \E w \in ask[q].todo :
            Goes(q, [ask[q] EXCEPT !.pc = "choose", !.at = w, !.todo = @ \ {w}, !.tries = 0])
    /\ UNCHANGED <<template, published, opened, agents, dismissed, faults>>

\* make_agent's statement reads the template, its newest name and a free slug in one snapshot,
choose(q) ==
    LET w == ask[q].at IN
    /\ At(q, "choose")
    /\ IF ask[q].tries = 3 THEN Onward(q, "refused")
       ELSE IF template.retired \/ FreeIn(w) = {}
       THEN Onward(q, IF Made(w) = {} THEN "refused" ELSE "ok")
       ELSE Goes(q, [ask[q] EXCEPT !.pc = "insert", !.slug = Least(FreeIn(w)), !.name = published])
    /\ UNCHANGED <<template, published, opened, agents, dismissed, faults>>

Agent(w, made, slug, name, stale) ==
    [at |-> w, made |-> made, slug |-> slug, name |-> name, pin |-> 0, section |-> FALSE,
        gone |-> FALSE, stale |-> stale]
\* and inserts by it: nothing where the workspace has one, and again where the slug was taken.
insert(q) ==
    LET r == ask[q] IN
    /\ At(q, "insert")
    /\ IF Made(r.at) # {} THEN Onward(q, "ok") /\ UNCHANGED agents
       ELSE IF r.slug \in TakenIn(r.at)
       THEN Goes(q, [r EXCEPT !.pc = "choose", !.tries = @ + 1]) /\ UNCHANGED agents
       ELSE agents' = Append(agents, Agent(r.at, TRUE, r.slug, r.name, r.at \in r.stale)) /\ Onward(q, "ok")
    /\ UNCHANGED <<template, published, opened, dismissed, faults>>

renamed(a, w) == Live(a) /\ agents[a].made /\ agents[a].at \in w
rename(q) ==
    /\ At(q, "rename")
    /\ agents' = [a \in DOMAIN agents |->
                    IF renamed(a, Scope(q)) THEN [agents[a] EXCEPT !.name = published]
                    ELSE agents[a]]
    /\ Says(q, IF ask[q].said = None THEN "ok" ELSE "failed")
    /\ UNCHANGED <<template, published, opened, dismissed, faults>>

\* A statement of provisioning fails: logged, and passed over or given up.
fails(q) ==
    /\ ask[q].pc \in {"owed", "insert", "rename"} /\ Provisioning(q)
    /\ faults > 0 /\ faults' = faults - 1
    /\ Goes(q, [ask[q] EXCEPT !.pc = IF @ = "insert" THEN "make" ELSE "done", !.said = "failed"])
    /\ UNCHANGED <<template, published, opened, agents, dismissed>>

(* --------------------------- a workspace's agent -------------------------- *)

\* install: it forgets that it once removed one, and has one made.
install(q) ==
    /\ At(q, "install")
    /\ IF template = None \/ template.retired THEN Says(q, "absent") ELSE Moves(q, "undismiss")
    /\ UNCHANGED <<template, published, opened, agents, dismissed, faults>>
Undismiss(q) ==
    /\ At(q, "undismiss") /\ dismissed' = dismissed \ {ask[q].at} /\ Moves(q, "choose")
    /\ UNCHANGED <<template, published, opened, agents, faults>>

\* An agent made by hand, by a slug the template's would take.
hand(q) ==
    LET r == ask[q] IN
    /\ At(q, "hand")
    /\ IF r.call.version \in TakenIn(r.at) THEN Says(q, "duplicate") /\ UNCHANGED agents
       ELSE agents' = Append(agents, Agent(r.at, FALSE, r.call.version, 0, FALSE)) /\ Says(q, "ok")
    /\ UNCHANGED <<template, published, opened, dismissed, faults>>

\* The agent a request names: one the workspace has, or none by then.
agent(q) ==
    /\ At(q, "agent")
    /\ \/ \E a \in DOMAIN agents :
          /\ Live(a) /\ agents[a].at = ask[q].at
          /\ Goes(q, [ask[q] EXCEPT !.agent = a, !.section = agents[a].section,
                        !.pc = IF agents[a].made THEN ask[q].call.do
                               ELSE IF ask[q].call.do = "remove" THEN "delete" ELSE "done"])
       \/ (\A a \in DOMAIN agents : ~Live(a) \/ agents[a].at # ask[q].at) /\ Says(q, "absent")
    /\ UNCHANGED <<template, published, opened, agents, dismissed, faults>>

\* Mutant: remembered only of an agent workspaces are given.
removingGiven(q) ==
    /\ At(q, "remove")
    /\ IF template.avail = "required" /\ ~template.retired THEN Says(q, "refused")
       ELSE Moves(q, IF template.avail = "default" THEN "dismiss" ELSE "delete")
    /\ UNCHANGED <<template, published, opened, agents, dismissed, faults>>
\* removing: refused while every workspace has one; and remembered.
removing(q) ==
    /\ At(q, "remove")
    /\ IF template.avail = "required" /\ ~template.retired THEN Says(q, "refused")
           ELSE Moves(q, "dismiss")
    /\ UNCHANGED <<template, published, opened, agents, dismissed, faults>>
\* A provision that has already found the workspace owed an agent.
Owing(r, w) ==
    /\ w \in ask[r].todo \/ (ask[r].pc \in {"choose", "insert"} /\ ask[r].at = w)
    /\ Provisioning(r)
Dismiss(q) ==
    LET w == ask[q].at IN
    /\ At(q, "dismiss") /\ dismissed' = dismissed \cup {w}
    /\ ask' = [r \in Requests |->
                 IF r = q THEN [ask[r] EXCEPT !.pc = "delete"]
                 ELSE IF Owing(r, w) THEN [ask[r] EXCEPT !.stale = @ \cup {w}] ELSE ask[r]]
    /\ UNCHANGED <<template, published, opened, agents, faults>>
delete(q) ==
    /\ At(q, "delete")
    /\ IF Live(ask[q].agent)
       THEN agents' = [agents EXCEPT ![ask[q].agent].gone = TRUE] /\ Says(q, "removed")
       ELSE Says(q, "absent") /\ UNCHANGED agents
    /\ UNCHANGED <<template, published, opened, dismissed, faults>>

\* pin: where it is allowed, as it was read, and the version is there.
pin(q) ==
    LET v == ask[q].call.version IN
    /\ At(q, "pin")
    /\ IF ~Live(ask[q].agent) \/ (v # 0 /\ (~template.pins \/ v > published))
           THEN Says(q, "refused")
       ELSE Moves(q, "pinned")
    /\ UNCHANGED <<template, published, opened, agents, dismissed, faults>>
\* template_rules: a section where the template allows one, as it was read.
template_rules(q) ==
    /\ At(q, "section")
    /\ IF template.adds \/ ask[q].call.version = 0 THEN Moves(q, "sectioned")
           ELSE Says(q, "refused")
    /\ UNCHANGED <<template, published, opened, agents, dismissed, faults>>
Write(q) ==
    LET a == ask[q].agent IN
    /\ ask[q].pc \in {"pinned", "sectioned"}
    /\ IF ~Live(a) THEN Says(q, "absent") /\ UNCHANGED agents
       ELSE /\ Says(q, "ok")
            /\ agents' = IF At(q, "pinned") THEN [agents EXCEPT ![a].pin = ask[q].call.version]
                         ELSE [agents EXCEPT ![a].section = ask[q].call.version # 0]
    /\ UNCHANGED <<template, published, opened, dismissed, faults>>

\* A turn reads the agent, its version, whether the template lets its section be composed, the
\* version's fixed settings and the version's skills, each in a query of its own.
reads(r) == IF Len(r.got) = 1 THEN r.section /\ template.adds ELSE RunningVersion(r.agent)
Turn(q) ==
    LET r == ask[q] IN
    /\ At(q, "turn")
    /\ IF ~Live(r.agent) THEN Says(q, "absent")
       ELSE Goes(q, [r EXCEPT !.got = Append(@, reads(r)),
                              !.pc = IF Len(r.got) = 3 THEN "done" ELSE @,
                              !.said = IF Len(r.got) = 3 THEN "ok" ELSE @])
    /\ UNCHANGED <<template, published, opened, agents, dismissed, faults>>

\* A step of a request that was asked.
Serve(q) ==
    \/ create(q) \/ publish(q) \/ write_version(q) \/ update(q) \/ Reread(q)
    \/ create_workspace(q) \/ provision(q) \/ make(q) \/ choose(q)
    \/ insert(q) \/ rename(q) \/ fails(q)
    \/ install(q) \/ Undismiss(q) \/ hand(q) \/ agent(q) \/ removing(q) \/ Dismiss(q)
    \/ delete(q)
    \/ pin(q) \/ template_rules(q) \/ Write(q) \/ Turn(q)

Next == \E q \in Requests : (\E c \in Calls : Ask(q, c)) \/ Serve(q)

Spec == Init /\ [][Next]_vars

(* ------------------------------- properties ------------------------------- *)

Asked == {q \in Requests : ~At(q, "unasked")}
Done(do, said) == {q \in Requests : At(q, "done") /\ ask[q].call.do = do /\ ask[q].said = said}
\* Nothing else was under way while it was.
Alone(q) == \A r \in Asked \ {q} : r \in ask[q].after \/ q \in ask[r].after
\* Everything else asked was done before it.
Last(q) == Asked \ {q} \subseteq ask[q].after
Quiet == \A q \in Asked : At(q, "done")
Unfailed == faults = Faults
Requires(set) == "avail" \in DOMAIN set /\ set.avail = "required"
Crowded(w) == FreeIn(w) = {}

\* Whatever came before it, a catalog read leaves the workspace with the agent it is owed, by its
\* newest name (agent_templates.rs, "gets them the next time anyone looks").
CatalogHeals ==
    \A q \in Done("catalog", "ok") : Last(q) /\ template # None /\ ask[q].at \in opened =>
        LET w == ask[q].at IN
        /\ owed(w) => template.retired \/ Crowded(w)
        /\ \A a \in Made(w) : agents[a].name = published

\* When nothing is under way and no statement failed, every workspace there is has a required
\* template's agent, unless a removal ran beside what required it (removing).
EveryoneHasIt ==
    Quiet /\ Unfailed /\ template # None /\ ~template.retired /\ template.avail = "required" =>
        \A w \in opened : \/ Made(w) # {} \/ Crowded(w)
                          \/ \E q \in Done("remove", "removed") : ask[q].at = w /\ ~Alone(q)

\* An agent a workspace removed is not made again by a publish, change, opening or read, beside the
\* removal or after it, until it is installed or required (agents.rs, delete_agent) -- except by
\* the pass the code lets: one that read who is owed before the removal was remembered, and made
\* the agent after it.
Restores(c) == c.do = "install" \/ (c.do = "update" /\ Requires(c.rules))
RemovedStays ==
    \A q \in Done("remove", "removed") :
        agents[ask[q].agent].made /\ (\A r \in Asked \ ask[q].after : ~Restores(ask[r].call)) =>
            \/ template.avail = "required"
            \/ \A a \in Made(ask[q].at) : agents[a].stale

\* A rename reaches every agent made from the template, except one an install was making at the
\* time (provision, "Names follow the template").
NamesFollow ==
    Quiet /\ Unfailed => \A a \in DOMAIN agents :
        Live(a) /\ agents[a].made /\ agents[a].name # published =>
            \E q \in Done("install", "ok") : ask[q].at = agents[a].at /\ ~Alone(q)

\* A turn nothing changed under has one version throughout -- the pinned one while that is
\* allowed, else the newest -- and the workspace's section while that is allowed.
TurnWhole ==
    \A q \in Done("turn", "ok") : Last(q) =>
        LET a == ask[q].agent
            due == IF template.pins /\ agents[a].pin # 0 THEN agents[a].pin ELSE published
        IN ask[q].got = <<due, template.adds /\ agents[a].section, due, due>>

TemplatesSound == CatalogHeals /\ EveryoneHasIt /\ RemovedStays /\ NamesFollow /\ TurnWhole
==============================================================================
