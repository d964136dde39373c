------------------------------- MODULE Roles -------------------------------
(***************************************************************************)
(* The roles of one workspace and what they resolve to (role/postgres.rs,    *)
(* the role routes of router.rs, core/auth/rbac.rs).  A token carries the    *)
(* names of roles; each request resolves them through its pod's cache, which *)
(* a writer evicts on its own pod and, by a notification, on the others.  A  *)
(* route is one step for each lookup or statement, so a role can change      *)
(* between the check of an edit and the edit.  A map of the workspace takes  *)
(* every name to what it bundles, and a name without a role to nothing.      *)
(***************************************************************************)
EXTENDS Integers, Sequences, FiniteSets

CONSTANTS Pods, Users, Names, Auths, Manage, Assign, Admins, MaxRoles, Budget, None,
          Boot, Holding, Requests, Calls

Uses == {"asks", "mints", "breaks", "unsaid", "drops", "lapses"}
Routes == {"create", "update", "rename", "delete", "grant", "revoke"}
Nothing == [n \in Names |-> {}]

\* What is taken of the constants.
RolesAssumption ==
    /\ {Manage, Assign} \subseteq Auths /\ Admins \subseteq Users /\ MaxRoles \in Nat
    /\ Budget \in [Uses -> Nat] /\ None \notin Names \cup Users
    /\ Boot \in Seq([name : Names, auths : SUBSET Auths, gone : {FALSE}])
    /\ \A i, j \in DOMAIN Boot : Boot[i].name = Boot[j].name => i = j
    /\ Calls \subseteq [do : Routes, id : Nat, name : Names \cup {None}, auths : SUBSET Auths,
                    whom : Users \cup {None}]
    /\ Holding \in [Users -> SUBSET DOMAIN Boot]

VARIABLES roles,     \* rows, in the order they were made
          holds,     \* user_workspace_roles: each user's rows
          token,     \* the names each user's access token carries
          cache,     \* each pod: its RoleCache
          link,      \* each pod: its listener's connection
          notes,     \* each pod: notifications on their way to it
          unheard,   \* pods that no announcement of a change will reach
          ask,       \* requests
          put,       \* history: what administrators of the platform put in a role
          uses       \* calls and faults still to come

vars == <<roles, holds, token, cache, link, notes, unheard, ask, put, uses>>

Idle == [pc |-> "idle", user |-> None, names |-> {}, pod |-> None, do |-> "none", id |-> 0,
         name |-> None, auths |-> {}, whom |-> None, bundle |-> {}, look |-> "ready",
         ticket |-> <<0, 0>>, map |-> Nothing]
Empty == [trusted |-> FALSE, held |-> FALSE, map |-> Nothing, epoch |-> 0, gen |-> 0]

Names_of(u) == {roles[i].name : i \in holds[u]}

\* seed_defaults, templates: a workspace begins with what the deployment ships.
Init ==
    /\ roles = Boot /\ holds = Holding /\ put = {} /\ uses = Budget /\ unheard = {}
    /\ token = [u \in Users |-> {Boot[i].name : i \in Holding[u]}]
    /\ cache = [p \in Pods |-> Empty] /\ link = [p \in Pods |-> "off"]
    /\ notes = [p \in Pods |-> 0] /\ ask = [q \in Requests |-> Idle]

Spend(f) == uses[f] > 0 /\ uses' = [uses EXCEPT ![f] = @ - 1]
Live == {i \in DOMAIN roles : ~roles[i].gone}
Named(n) == {i \in Live : roles[i].name = n}
Current == [n \in Names |-> UNION {roles[i].auths : i \in Named(n)}]

(* ------------------------------- the checks ------------------------------- *)

platform_authorities(u) == IF u \in Admins THEN Auths ELSE {}
\* authorities_of, authorities_for: what the names of the token mean in this map.
authorities_of(r, m) == UNION {m[n] : n \in r.names} \cup platform_authorities(r.user)

Needs(do) == IF do \in {"grant", "revoke"} THEN Assign ELSE Manage
Checked(r) ==
    CASE r.do \in {"create", "update"} -> "reach" [] r.do = "grant" -> "bundle" [] OTHER -> "write"

\* Mutant: only what nobody on the platform has is refused.
ReachesAny(r, m) == r.auths \subseteq Auths
\* within_reach
Reaches(r, m) == r.auths \subseteq authorities_of(r, m)

\* What a request does with a map it looked up: authorize, within_reach, and
\* require_role_within_reach, which looks up what the role carries and then what its caller does.
Goes(r, pc) == [r EXCEPT !.pc = pc, !.look = "ready", !.map = Nothing, !.ticket = <<0, 0>>]
Decided(r, m) ==
    CASE r.pc = "authorize" -> IF Needs(r.do) \in authorities_of(r, m) THEN Goes(r, Checked(r)) ELSE Idle
      [] r.pc = "reach" -> IF Reaches(r, m) THEN Goes(r, "write") ELSE Idle
      [] r.pc = "bundle" -> Goes([r EXCEPT !.bundle = m[r.name]], "within")
      [] r.pc = "within" -> IF r.bundle \subseteq authorities_of(r, m) THEN Goes(r, "member") ELSE Idle

(* -------------------------------- the cache ------------------------------- *)

Serves(p) == cache[p].trusted /\ cache[p].held
ticket(p) == <<cache[p].epoch, cache[p].gen>>
invalidate(p) == [cache[p] EXCEPT !.held = FALSE, !.map = Nothing, !.gen = @ + 1]
\* clear: the generations start over, and the epoch says so.
clear(p, trusted) == [Empty EXCEPT !.trusted = trusted, !.epoch = cache[p].epoch + 1]

Inserts(p, t) == cache[p].trusted /\ ticket(p) = t

\* load: what the pod serves, or a ticket for what is about to be read.
Look(q) ==
    LET p == ask[q].pod IN
    /\ ask[q].pc \in {"authorize", "reach", "bundle", "within"} /\ ask[q].look = "ready"
    /\ ask' = [ask EXCEPT ![q] = IF Serves(p) THEN Decided(ask[q], cache[p].map)
                                 ELSE [@ EXCEPT !.look = "missed", !.ticket = ticket(p)]]
    /\ UNCHANGED <<roles, holds, token, cache, link, notes, unheard, put, uses>>

Read(q) ==
    /\ ask[q].look = "missed"
    /\ ask' = [ask EXCEPT ![q].look = "read", ![q].map = Current]
    /\ UNCHANGED <<roles, holds, token, cache, link, notes, unheard, put, uses>>

Keep(q) ==
    LET p == ask[q].pod IN
    /\ ask[q].look = "read"
    /\ cache' = IF Inserts(p, ask[q].ticket)
                THEN [cache EXCEPT ![p].held = TRUE, ![p].map = ask[q].map] ELSE cache
    /\ ask' = [ask EXCEPT ![q] = Decided(@, ask[q].map)]
    /\ UNCHANGED <<roles, holds, token, link, notes, unheard, put, uses>>

\* ENTRY_TTL.
Lapse(p) ==
    /\ cache[p].held /\ Spend("lapses")
    /\ cache' = [cache EXCEPT ![p].held = FALSE, ![p].map = Nothing]
    /\ UNCHANGED <<roles, holds, token, link, notes, unheard, ask, put>>

(* ------------------------------ the listener ------------------------------ *)

\* listen: what is committed from here on is heard, and only then is the cache trusted.
Listen(p) ==
    /\ link[p] = "off" /\ link' = [link EXCEPT ![p] = "listening"]
    /\ UNCHANGED <<roles, holds, token, cache, notes, unheard, ask, put, uses>>

Trust(p) ==
    /\ link[p] = "listening" /\ link' = [link EXCEPT ![p] = "on"]
    /\ cache' = [cache EXCEPT ![p] = clear(p, TRUE)] /\ unheard' = unheard \ {p}
    /\ UNCHANGED <<roles, holds, token, notes, ask, put, uses>>

Hear(p) ==
    /\ link[p] = "on" /\ notes[p] > 0 /\ notes' = [notes EXCEPT ![p] = @ - 1]
    /\ cache' = [cache EXCEPT ![p] = invalidate(p)] /\ unheard' = unheard \ {p}
    /\ UNCHANGED <<roles, holds, token, link, ask, put, uses>>

\* The connection goes, and what was on its way with it; try_recv says so a step later.
Break(p) ==
    /\ link[p] \in {"listening", "on"} /\ Spend("breaks")
    /\ link' = [link EXCEPT ![p] = "broken"] /\ notes' = [notes EXCEPT ![p] = 0]
    /\ UNCHANGED <<roles, holds, token, cache, unheard, ask, put>>

Distrust(p) ==
    /\ link[p] = "broken" /\ link' = [link EXCEPT ![p] = "off"]
    /\ cache' = [cache EXCEPT ![p] = clear(p, FALSE)] /\ unheard' = unheard \ {p}
    /\ UNCHANGED <<roles, holds, token, notes, ask, put, uses>>

(* -------------------------------- the routes ------------------------------ *)

\* A token is minted at a sign-in, a refresh or a change of workspace, with names.
Mint(u) ==
    /\ token[u] # Names_of(u) /\ Spend("mints") /\ token' = [token EXCEPT ![u] = Names_of(u)]
    /\ UNCHANGED <<roles, holds, cache, link, notes, unheard, ask, put>>

\* A call of one of the routes, by anybody and through any pod.
Ask(q, u, p, c) ==
    /\ ask[q].pc = "idle" /\ Spend("asks")
    /\ c.do \in {"update", "rename", "delete"} => c.id \in Live
    /\ ask' = [ask EXCEPT ![q] = [Idle EXCEPT !.pc = "authorize", !.user = u, !.names = token[u],
                   !.pod = p, !.do = c.do, !.id = c.id, !.name = c.name, !.auths = c.auths,
                   !.whom = c.whom]]
    /\ UNCHANGED <<roles, holds, token, cache, link, notes, unheard, put>>

Refused(q) == ask' = [ask EXCEPT ![q] = Idle]

\* get_in_workspace: only somebody already here may be given more here.
Member(q) ==
    /\ ask[q].pc = "member"
    /\ IF ask[q].user \in Admins \/ holds[ask[q].whom] # {}
       THEN ask' = [ask EXCEPT ![q].pc = "write"] ELSE Refused(q)
    /\ UNCHANGED <<roles, holds, token, cache, link, notes, unheard, put, uses>>

(* -------------------------------- the writes ------------------------------ *)

At(q, do) == ask[q].pc = "write" /\ ask[q].do = do
Puts(q) ==
    put' = IF ask[q].user \in Admins THEN put \cup ask[q].auths ELSE put
\* What is left of the request is its announcement.
Written(q) == ask' = [ask EXCEPT ![q] = [Idle EXCEPT !.pc = "committed", !.pod = ask[q].pod]]

\* A name is one role's in the workspace.
Create(q) ==
    /\ At(q, "create") /\ Len(roles) < MaxRoles
    /\ IF Named(ask[q].name) # {} THEN Refused(q) /\ UNCHANGED <<roles, put>>
       ELSE /\ roles' = Append(roles, [name |-> ask[q].name, auths |-> ask[q].auths, gone |-> FALSE])
            /\ Written(q) /\ Puts(q)
    /\ UNCHANGED <<holds, token, cache, link, notes, unheard, uses>>

Update(q) ==
    LET i == ask[q].id IN
    /\ At(q, "update")
    /\ IF i \notin Live THEN Refused(q) /\ UNCHANGED <<roles, put>>
       ELSE roles' = [roles EXCEPT ![i].auths = ask[q].auths] /\ Written(q) /\ Puts(q)
    /\ UNCHANGED <<holds, token, cache, link, notes, unheard, uses>>

Rename(q) ==
    LET i == ask[q].id IN
    /\ At(q, "rename")
    /\ IF i \notin Live \/ ~Named(ask[q].name) \subseteq {i} THEN Refused(q) /\ UNCHANGED roles
       ELSE roles' = [roles EXCEPT ![i].name = ask[q].name] /\ Written(q)
    /\ UNCHANGED <<holds, token, cache, link, notes, unheard, put, uses>>

\* The holders are counted, and the row goes in another statement: a grant between the two
\* goes with it.
Count(q) ==
    /\ At(q, "delete")
    /\ IF ask[q].id \notin Live \/ \E u \in Users : ask[q].id \in holds[u] THEN Refused(q)
       ELSE ask' = [ask EXCEPT ![q].pc = "counted"]
    /\ UNCHANGED <<roles, holds, token, cache, link, notes, unheard, put, uses>>

Delete(q) ==
    /\ ask[q].pc = "counted"
    /\ roles' = [roles EXCEPT ![ask[q].id].gone = TRUE]
    /\ holds' = [u \in Users |-> holds[u] \ {ask[q].id}]
    /\ Written(q)
    /\ UNCHANGED <<token, cache, link, notes, unheard, put, uses>>

Grant(q) ==
    /\ At(q, "grant")
    /\ holds' = [holds EXCEPT ![ask[q].whom] = @ \cup Named(ask[q].name)] /\ Refused(q)
    /\ UNCHANGED <<roles, token, cache, link, notes, unheard, put, uses>>

Revoke(q) ==
    /\ At(q, "revoke")
    /\ holds' = [holds EXCEPT ![ask[q].whom] = @ \ Named(ask[q].name)] /\ Refused(q)
    /\ UNCHANGED <<roles, token, cache, link, notes, unheard, put, uses>>

(* ------------------------------ announcements ----------------------------- *)

\* announce: this pod forgets, then the others are told, if the statement goes through.
Forget(q) ==
    LET p == ask[q].pod IN
    /\ ask[q].pc = "committed"
    /\ cache' = [cache EXCEPT ![p] = invalidate(p)] /\ unheard' = unheard \ {p}
    /\ ask' = [ask EXCEPT ![q].pc = "forgotten"]
    /\ UNCHANGED <<roles, holds, token, link, notes, put, uses>>

Hearers == {p \in Pods : link[p] \in {"listening", "on"}}
Announce(q) ==
    /\ ask[q].pc = "forgotten" /\ ask' = [ask EXCEPT ![q] = Idle]
    /\ \/ notes' = [p \in Pods |-> IF p \in Hearers THEN notes[p] + 1 ELSE notes[p]]
          /\ UNCHANGED <<unheard, uses>>
       \/ Spend("unsaid") /\ unheard' = unheard \cup (Pods \ {ask[q].pod}) /\ UNCHANGED notes
    /\ UNCHANGED <<roles, holds, token, cache, link, put>>

\* The caller goes away, and the handler with it, wherever it was.
Drop(q) ==
    /\ ask[q].pc # "idle" /\ Spend("drops") /\ ask' = [ask EXCEPT ![q] = Idle]
    /\ unheard' = CASE ask[q].pc = "committed" -> Pods
                    [] ask[q].pc = "forgotten" -> unheard \cup (Pods \ {ask[q].pod})
                    [] OTHER -> unheard
    /\ UNCHANGED <<roles, holds, token, cache, link, notes, put>>

Next ==
    \/ \E q \in Requests :
       \/ \E u \in Users, p \in Pods, c \in Calls : Ask(q, u, p, c)
       \/ Look(q) \/ Read(q) \/ Keep(q) \/ Member(q)
       \/ Create(q) \/ Update(q) \/ Rename(q) \/ Count(q) \/ Delete(q) \/ Grant(q) \/ Revoke(q)
       \/ Forget(q) \/ Announce(q) \/ Drop(q)
    \/ \E p \in Pods : Listen(p) \/ Trust(p) \/ Hear(p) \/ Break(p) \/ Distrust(p) \/ Lapse(p)
    \/ \E u \in Users : Mint(u)

Spec == Init /\ [][Next]_vars

(* ------------------------------- properties ------------------------------- *)

TypeOK ==
    /\ roles \in Seq([name : Names, auths : SUBSET Auths, gone : BOOLEAN])
    /\ holds \in [Users -> SUBSET DOMAIN roles] /\ token \in [Users -> SUBSET Names]
    /\ cache \in [Pods -> [trusted : BOOLEAN, held : BOOLEAN, map : [Names -> SUBSET Auths],
                           epoch : Nat, gen : Nat]]
    /\ link \in [Pods -> {"off", "listening", "on", "broken"}] /\ notes \in [Pods -> Nat]
    /\ unheard \subseteq Pods /\ put \subseteq Auths /\ uses \in [Uses -> Nat]
    /\ \A q \in Requests : ask[q].map \in [Names -> SUBSET Auths] /\ ask[q].auths \subseteq Auths

\* A change on its way to pod p: written and not announced there, or announced and not heard.
Coming(p) ==
    \/ notes[p] > 0 \/ link[p] = "broken"
    \/ \E q \in Requests : ask[q].pc = "committed" \/ (ask[q].pc = "forgotten" /\ ask[q].pod # p)

\* An edit to a role takes effect on the next click: what a pod serves is what the
\* workspace's roles are, unless a change is on its way to it or its announcement was lost,
\* and a load that read what has changed since never puts it back (RoleCache).
CacheAccounted ==
    \A p \in Pods : Serves(p) /\ cache[p].map # Current => Coming(p) \/ p \in unheard

\* Nobody climbs: nothing is bundled in a role of the workspace, served by a pod or about to
\* be written that no role bundled at first, unless an administrator of the platform put it
\* there (within_reach, require_role_within_reach).
Shipped == UNION {Boot[i].auths : i \in DOMAIN Boot}
NobodyClimbs ==
    /\ \A i \in Live : roles[i].auths \subseteq Shipped \cup put
    /\ \A p \in Pods, n \in Names : cache[p].map[n] \subseteq Shipped \cup put

\* A name is one role's, and nobody holds a role that is gone.
OneOfName ==
    /\ \A n \in Names : Cardinality(Named(n)) <= 1
    /\ \A u \in Users : holds[u] \subseteq Live

\* What the roles of a workspace promise, together.
RolesSound == TypeOK /\ CacheAccounted /\ NobodyClimbs /\ OneOfName
=============================================================================
