------------------------------- MODULE Skills -------------------------------
(***************************************************************************)
(* Skills of the operator and of one workspace: publishing, forking,        *)
(* regenerating and deleting them, giving them to one agent, and the turns  *)
(* of one conversation of that agent (api/skills.rs, skill_sources.rs,      *)
(* skill/postgres.rs, skill/mod.rs, worker/turn.rs, worker/compaction.rs).  *)
(* A route is one step for each write to the object store and for each      *)
(* transaction or statement another can come between.  A file's content is  *)
(* its path and what it declares of approval.                               *)
(***************************************************************************)
EXTENDS Integers, Sequences, FiniteSets

CONSTANTS Ours, Operators, Paths, Hosts, Home, Slugs, None, BootSkills, BootVersions,
          BootBound, Calls, Requests, Budget, MaxVersions

Owners == {Ours, Operators}
Texts == [path : Paths, gate : {"none", "bound", "unbound"}]
Uses == {"asks", "drops", "retires", "opens", "closes", "compacts", "unnotes"}
Routes == {"create", "publish", "fork", "regenerate", "annotate", "delete", "bind", "turn", "compact"}
SkillRow == [owner : Owners, slug : Slugs, base : Nat, retired : BOOLEAN, gone : BOOLEAN,
             spec : {None} \cup SUBSET Paths]
VersionRow == [skill : Nat, ordinal : Nat, body : Nat, files : SUBSET Texts, hosts : SUBSET Hosts,
               gates : SUBSET (Paths \X Hosts), based : Nat, made : {"hand", "spec"},
               from : Nat, copied : Nat, taken : Nat]

\* What is taken of the constants.
SkillsAssumption ==
    /\ Ours # Operators /\ Home \in Hosts /\ Budget \in [Uses -> Nat] /\ MaxVersions \in Nat
    /\ BootSkills \in Seq(SkillRow) /\ BootVersions \in Seq(VersionRow)
    /\ \A s \in DOMAIN BootSkills : \E v \in DOMAIN BootVersions : BootVersions[v].skill = s
    /\ BootBound \in Seq([skill : DOMAIN BootSkills, pin : Nat, set : Nat])
    /\ Calls \subseteq [do : Routes, owner : Owners, skill : Nat, slug : Slugs, body : Nat,
                        files : {None} \cup SUBSET Texts, hosts : SUBSET Hosts,
                        spec : {None} \cup SUBSET Paths, flag : BOOLEAN,
                        pin : Nat, bind : Seq([skill : Nat, pin : Nat]),
                        note : Seq(Paths \cup {"hidden", "approval"})]

VARIABLES skills,     \* rows, in the order they were made
          versions,   \* rows, in the order they were made; gone with their skill
          blobs,      \* the object store: contents under each owner
          bound,      \* agent_skills of the agent, by position
          open,       \* the hosts the workspace has an enabled rule for
          notes,      \* annotations that stand: <<skill, path, "hidden" or "approval">>
          kept,       \* session_prompts: the skills the conversation's prompt was composed from
          used,       \* turn_skills: skills some turn ran with
          ask,        \* requests
          uses        \* calls and faults still to come

vars == <<skills, versions, blobs, bound, open, notes, kept, used, ask, uses>>

Idle == [pc |-> "idle", call |-> None, files |-> None, hosts |-> {}, left |-> {}, at |-> 0,
         based |-> 0, gates |-> {}, from |-> 0, live |-> {}, run |-> {}]

Init ==
    /\ skills = BootSkills /\ versions = BootVersions /\ bound = BootBound /\ kept = None
    /\ blobs = UNION {{BootSkills[BootVersions[v].skill].owner} \X BootVersions[v].files :
                      v \in DOMAIN BootVersions}
    /\ open = UNION {BootVersions[v].hosts : v \in DOMAIN BootVersions}
    /\ notes = {} /\ used = {} /\ ask = [q \in Requests |-> Idle] /\ uses = Budget

Spend(f) == uses[f] > 0 /\ uses' = [uses EXCEPT ![f] = @ - 1]
At(q, pc) == ask[q].pc = pc
Goes(q, r) == ask' = [ask EXCEPT ![q] = r]
Ends(q) == Goes(q, Idle)

Here(s) == s \in DOMAIN skills /\ ~skills[s].gone
\* What a caller of this owner can see: its own and the operator's.
Seen(s, o) == Here(s) /\ skills[s].owner \in {o, Operators}
Mine(s, o) == Here(s) /\ skills[s].owner = o
VersionsOf(s) == {v \in DOMAIN versions : versions[v].skill = s}
\* order by ordinal desc limit 1
Newest(s) == CHOOSE v \in VersionsOf(s) : \A w \in VersionsOf(s) : versions[w].ordinal <= versions[v].ordinal
Overrides(s) == {o \in DOMAIN skills : Here(o) /\ skills[o].base = s}

Declared(files) == {t.path : t \in {f \in files : f.gate = "bound"}}
\* prepare, frontmatter::parse: each path once, and a declaration says what it binds.
Valid(files) ==
    /\ \A f, g \in files : f.path = g.path => f = g
    /\ \A f \in files : f.gate # "unbound"

(* ------------------------------- publishing ------------------------------- *)

\* A call, with what is refused before anything is written.  The serial key keeps one turn or
\* compaction of the conversation at a time.
First(do) ==
    CASE do \in {"create", "publish"} -> "store" [] do = "fork" -> "take" [] do = "regenerate" -> "begin"
      [] do = "annotate" -> "clash" [] do = "delete" -> "count" [] do = "bind" -> "check"
      [] OTHER -> "resolve"
Session == {"turn", "compact"}
Ask(q, c) ==
    /\ At(q, "idle") /\ Spend("asks") /\ c.skill \in DOMAIN skills \cup {0}
    /\ c.files # None => Valid(c.files)
    /\ c.do \in Session => \A r \in {x \in Requests : ~At(x, "idle")} : ask[r].call.do \notin Session
    /\ Goes(q, [Idle EXCEPT !.pc = First(c.do), !.call = c, !.files = c.files, !.hosts = c.hosts,
                            !.left = IF c.files = None THEN {} ELSE c.files,
                            !.from = IF c.do = "bind" THEN uses["asks"] ELSE 0])
    /\ UNCHANGED <<skills, versions, blobs, bound, open, notes, kept, used>>

\* store_files, and the copies of fork_skill: the contents first, one write each.
Store(q) ==
    /\ At(q, "store")
    /\ IF ask[q].left = {} THEN Goes(q, [ask[q] EXCEPT !.pc = "read"]) /\ UNCHANGED blobs
       ELSE \E t \in ask[q].left :
            /\ blobs' = blobs \cup {<<ask[q].call.owner, t>>}
            /\ Goes(q, [ask[q] EXCEPT !.left = @ \ {t}])
    /\ UNCHANGED <<skills, versions, bound, open, notes, kept, used, uses>>

\* write_gates: what the files declare, on each host of the version.
write_gates(files, hosts) == Declared(files) \X hosts
Unenforced(r) == r.files # None /\ Declared(r.files) # {} /\ r.hosts = {}

Same(v, r, files, based) ==
    /\ versions[v].body = r.call.body /\ versions[v].hosts = r.hosts
    /\ versions[v].files = files /\ versions[v].based = based

\* add_version, up to its insert.  A version without files of its own carries those of the
\* newest one, and their gates.
\* Mutant: the gates come from what an override is based on, and not from the version before.
carriedBased(live, based) == IF based = 0 THEN {} ELSE versions[based].gates
carried(live, based) == versions[live].gates
ReadVersion(q) ==
    LET r == ask[q]  s == r.call.skill IN
    /\ At(q, "read") /\ r.call.do \in {"publish", "regenerate"}
    /\ IF ~Mine(s, r.call.owner) THEN Ends(q)
       ELSE LET live == Newest(s)
                based == IF skills[s].base = 0 THEN 0 ELSE Newest(skills[s].base)
                files == IF r.files = None THEN versions[live].files ELSE r.files
            IN IF (skills[s].base # 0 /\ files # {}) \/ Same(live, r, files, based) \/ Unenforced(r)
               THEN Ends(q)
               ELSE Goes(q, [r EXCEPT !.pc = "insert", !.at = live, !.based = based, !.files = files,
                              !.gates = IF r.files = None THEN carried(live, based)
                                        ELSE write_gates(files, r.hosts)])
    /\ UNCHANGED <<skills, versions, blobs, bound, open, notes, kept, used, uses>>

Row(r, s, n) ==
    [skill |-> s, ordinal |-> n, body |-> r.call.body, files |-> r.files, hosts |-> r.hosts,
     gates |-> r.gates, based |-> r.based, made |-> "hand", from |-> r.from, copied |-> r.at,
     taken |-> r.at]

\* The insert and its commit.  One that meets another's of the same ordinal fails.
InsertVersion(q) ==
    LET r == ask[q]  s == r.call.skill IN
    /\ At(q, "insert") /\ r.call.do \in {"publish", "regenerate"}
    /\ \/ /\ Here(s) /\ Len(versions) < MaxVersions
          /\ versions' = Append(versions, Row([r EXCEPT !.at = 0], s, versions[Newest(s)].ordinal + 1))
          /\ IF r.call.do = "publish" THEN Ends(q)
             ELSE Goes(q, [r EXCEPT !.pc = "label", !.at = Len(versions) + 1])
       \/ (~Here(s) \/ Newest(s) # r.at) /\ Ends(q) /\ UNCHANGED versions
    /\ UNCHANGED <<skills, blobs, bound, open, notes, kept, used, uses>>

\* create, up to its insert: an override has a base it can see, and one that is no override.
ReadBase(q) ==
    LET r == ask[q]  b == r.call.skill IN
    /\ At(q, "read") /\ r.call.do = "create"
    /\ IF \/ b # 0 /\ (~Seen(b, r.call.owner) \/ skills[b].base # 0 \/ r.files # {})
          \/ Unenforced(r)
       THEN Ends(q)
       ELSE Goes(q, [r EXCEPT !.pc = "insert", !.based = IF b = 0 THEN 0 ELSE Newest(b),
                              !.gates = write_gates(r.files, r.hosts)])
    /\ UNCHANGED <<skills, versions, blobs, bound, open, notes, kept, used, uses>>

Free(slug, o) == \A s \in DOMAIN skills : Mine(s, o) => skills[s].slug # slug
NewSkill(r, base) ==
    [owner |-> r.call.owner, slug |-> r.call.slug, base |-> base, retired |-> FALSE, gone |-> FALSE,
     spec |-> None]

\* A slug is one skill's in a workspace, and a workspace overrides a base once.
InsertSkill(q) ==
    LET r == ask[q]  b == IF r.call.do = "create" THEN r.call.skill ELSE 0 IN
    /\ At(q, "insert") /\ r.call.do \in {"create", "fork"} /\ Len(versions) < MaxVersions
    /\ IF /\ Free(r.call.slug, r.call.owner)
          /\ b # 0 => Here(b) /\ \A o \in Overrides(b) : skills[o].owner # r.call.owner
       THEN /\ skills' = Append(skills, NewSkill(r, b))
            /\ versions' = Append(versions, [Row(r, Len(skills) + 1, 1) EXCEPT !.copied = r.from, !.from = 0])
       ELSE UNCHANGED <<skills, versions>>
    /\ Ends(q)
    /\ UNCHANGED <<blobs, bound, open, notes, kept, used, uses>>

(* -------------------------------- forking --------------------------------- *)

Taken(r) == IF r.call.pin = 0 THEN Newest(r.call.skill) ELSE r.call.pin
Holds(r) == r.call.pin # 0 => r.call.pin \in VersionsOf(r.call.skill)

\* fork_skill: which version is taken, whose contents are copied when they are another's.
Take(q) ==
    LET r == ask[q]  s == r.call.skill IN
    /\ At(q, "take")
    /\ IF ~Seen(s, r.call.owner) \/ ~Holds(r) THEN Ends(q)
       ELSE Goes(q, [r EXCEPT !.pc = "store", !.from = Taken(r),
                       !.left = IF skills[s].owner = r.call.owner THEN {} ELSE versions[Taken(r)].files])
    /\ UNCHANGED <<skills, versions, blobs, bound, open, notes, kept, used, uses>>

\* fork, up to its insert: the store works out again which version is taken.
ReadTaken(q) ==
    LET r == ask[q]  s == r.call.skill IN
    /\ At(q, "read") /\ r.call.do = "fork"
    /\ IF ~Seen(s, r.call.owner) \/ skills[s].base # 0 THEN Ends(q)
       ELSE Goes(q, [r EXCEPT !.pc = "insert", !.at = Taken(r), !.files = versions[Taken(r)].files,
                              !.gates = versions[Taken(r)].gates])
    /\ UNCHANGED <<skills, versions, blobs, bound, open, notes, kept, used, uses>>

(* ------------------------------ regenerating ------------------------------ *)

Stands(s, p, kind) == <<s, p, kind>> \in notes

\* annotate: a gated operation stays visible, as far as one statement shows another's.
Clash(q) ==
    LET r == ask[q]  other == IF r.call.note[2] = "hidden" THEN "approval" ELSE "hidden" IN
    /\ At(q, "clash")
    /\ IF ~Mine(r.call.skill, Operators) \/ Stands(r.call.skill, r.call.note[1], other) THEN Ends(q)
       ELSE Goes(q, [r EXCEPT !.pc = "note"])
    /\ UNCHANGED <<skills, versions, blobs, bound, open, notes, kept, used, uses>>

Note(q) ==
    LET r == ask[q] IN
    /\ At(q, "note") /\ Ends(q)
    /\ notes' = IF Here(r.call.skill) THEN notes \cup {<<r.call.skill, r.call.note[1], r.call.note[2]>>} ELSE notes
    /\ UNCHANGED <<skills, versions, blobs, bound, open, kept, used, uses>>

\* retire, of an annotation.
Unnote(n) ==
    /\ n \in notes /\ Spend("unnotes") /\ notes' = notes \ {n}
    /\ UNCHANGED <<skills, versions, blobs, bound, open, kept, used, ask>>

\* regenerate: which version is live, and the gates of a skill that has no source yet become
\* annotations.
Begin(q) ==
    LET r == ask[q]  s == r.call.skill IN
    /\ At(q, "begin")
    /\ IF ~Mine(s, Operators) \/ (r.call.spec = None /\ skills[s].spec = None) THEN Ends(q) /\ UNCHANGED notes
       ELSE /\ Goes(q, [r EXCEPT !.pc = "spec", !.at = Newest(s)])
            /\ notes' = IF skills[s].spec # None THEN notes
                        ELSE notes \cup {<<s, g[1], "approval">> : g \in versions[Newest(s)].gates}
    /\ UNCHANGED <<skills, versions, blobs, bound, open, kept, used, uses>>

\* record, latest_revision
Record(q) ==
    LET r == ask[q]  s == r.call.skill IN
    /\ At(q, "spec")
    /\ IF ~Here(s) THEN Ends(q) /\ UNCHANGED skills
       ELSE LET spec == IF r.call.spec = None THEN skills[s].spec ELSE r.call.spec IN
            /\ skills' = [skills EXCEPT ![s].spec = spec]
            /\ Goes(q, [r EXCEPT !.pc = "generate", !.left = spec])
    /\ UNCHANGED <<versions, blobs, bound, open, notes, kept, used, uses>>

\* generate: a file for each operation that is not hidden, with its rule; never hidden with one.
hidden(s, p) == Stands(s, p, "hidden") /\ ~Stands(s, p, "approval")
generate(s, spec) ==
    {[path |-> p, gate |-> IF Stands(s, p, "approval") THEN "bound" ELSE "none"] :
     p \in {x \in spec : ~hidden(s, x)}}
Generate(q) ==
    LET r == ask[q] IN
    /\ At(q, "generate")
    /\ Goes(q, [r EXCEPT !.pc = "compare", !.files = generate(r.call.skill, r.left), !.hosts = {Home}])
    /\ UNCHANGED <<skills, versions, blobs, bound, open, notes, kept, used, uses>>

\* Gates of the version that was live, which these files would not have.
lost_gates(r) == {g[1] : g \in versions[r.at].gates} \ Declared(r.files)
\* A gate goes only where somebody says so.
mayPublish(r) == r.call.flag \/ lost_gates(r) = {}
Compare(q) ==
    LET r == ask[q] IN
    /\ At(q, "compare")
    /\ IF ~Here(r.call.skill) \/ ~mayPublish(r) THEN Ends(q)
       ELSE Goes(q, [r EXCEPT !.pc = "store", !.left = r.files, !.from = IF r.call.flag THEN 0 ELSE r.at])
    /\ UNCHANGED <<skills, versions, blobs, bound, open, notes, kept, used, uses>>

\* What the version was made from.
Label(q) ==
    /\ At(q, "label") /\ versions' = [versions EXCEPT ![ask[q].at].made = "spec"] /\ Ends(q)
    /\ UNCHANGED <<skills, blobs, bound, open, notes, kept, used, uses>>

(* --------------------------- binding and deleting ------------------------- *)

\* set_bindings: what is bound, whether its hosts are open, and then all of it replaced.
Check(q) ==
    LET r == ask[q]  B == {r.call.bind[i].skill : i \in DOMAIN r.call.bind} IN
    /\ At(q, "check")
    /\ IF \A s \in B : Seen(s, Ours) /\ ~skills[s].retired /\ skills[s].base = 0
       THEN Goes(q, [r EXCEPT !.pc = "hosts"]) ELSE Ends(q)
    /\ UNCHANGED <<skills, versions, blobs, bound, open, notes, kept, used, uses>>

Riders(s) == {o \in Overrides(s) : skills[o].owner = Ours}
Unmet(B) ==
    UNION {versions[Newest(s)].hosts : s \in {x \in B \cup UNION {Riders(b) : b \in B} : Here(x)}} \ open
MeetHosts(q) ==
    LET r == ask[q]  B == {r.call.bind[i].skill : i \in DOMAIN r.call.bind} IN
    /\ At(q, "hosts")
    /\ IF Unmet(B) = {} THEN Goes(q, [r EXCEPT !.pc = "clear"]) ELSE Ends(q)
    /\ UNCHANGED <<skills, versions, blobs, bound, open, notes, kept, used, uses>>

\* The delete takes the rows its statement sees; those of a call that commits meanwhile stay,
\* unless the two name one skill, which fails the insert.
Clear(q) ==
    /\ At(q, "clear") /\ Goes(q, [ask[q] EXCEPT !.pc = "swap", !.left = {bound[i].set : i \in DOMAIN bound}])
    /\ UNCHANGED <<skills, versions, blobs, bound, open, notes, kept, used, uses>>

Swap(q) ==
    LET r == ask[q]
        mine == [i \in DOMAIN r.call.bind |->
                   [skill |-> r.call.bind[i].skill, pin |-> r.call.bind[i].pin, set |-> r.from]]
        stay == SelectSeq(bound, LAMBDA b : b.set \notin r.left)
    IN
    /\ At(q, "swap") /\ Ends(q)
    /\ IF \A i \in DOMAIN mine : Here(mine[i].skill) /\ \A j \in DOMAIN stay : stay[j].skill # mine[i].skill
       THEN bound' \in {stay \o mine, mine \o stay} ELSE UNCHANGED bound
    /\ UNCHANGED <<skills, versions, blobs, open, notes, kept, used, uses>>

BoundSkills == {bound[i].skill : i \in DOMAIN bound}

\* delete: the statement looks for bindings and turns in its snapshot, and then the row goes,
\* with the bindings that were committed meanwhile.
Count(q) ==
    LET s == ask[q].call.skill IN
    /\ At(q, "count")
    /\ IF ~Mine(s, ask[q].call.owner) \/ s \in BoundSkills \cup used THEN Ends(q)
       ELSE Goes(q, [ask[q] EXCEPT !.pc = "delete"])
    /\ UNCHANGED <<skills, versions, blobs, bound, open, notes, kept, used, uses>>

Delete(q) ==
    LET s == ask[q].call.skill IN
    /\ At(q, "delete") /\ Ends(q)
    /\ IF ~Here(s) \/ Overrides(s) # {} THEN UNCHANGED <<skills, bound, notes, used>>
       ELSE /\ skills' = [skills EXCEPT ![s].gone = TRUE]
            /\ bound' = SelectSeq(bound, LAMBDA b : b.skill # s)
            /\ notes' = {n \in notes : n[1] # s} /\ used' = used \ {s}
    /\ UNCHANGED <<versions, blobs, open, kept, uses>>

Retire(s) ==
    /\ Here(s) /\ Spend("retires") /\ skills' = [skills EXCEPT ![s].retired = ~@]
    /\ UNCHANGED <<versions, blobs, bound, open, notes, kept, used, ask>>

\* approve_hosts: the hosts of what is newest now.
Approve(s) ==
    /\ Seen(s, Ours) /\ Spend("opens") /\ open' = open \cup versions[Newest(s)].hosts
    /\ UNCHANGED <<skills, versions, blobs, bound, notes, kept, used, ask>>

\* A rule of the workspace is disabled or goes.
Close(h) ==
    /\ h \in open /\ Spend("closes") /\ open' = open \ {h}
    /\ UNCHANGED <<skills, versions, blobs, bound, notes, kept, used, ask>>

(* ---------------------------------- turns --------------------------------- *)

\* resolve_for_agent: what is bound, at its pin or its newest version, and the workspace's
\* overrides of it.
Given(i) ==
    LET s == bound[i].skill
        pick == IF bound[i].pin # 0 THEN bound[i].pin ELSE Newest(s)
    IN (IF skills[s].retired THEN {} ELSE {[at |-> 2 * i, v |-> pick]})
       \cup {[at |-> 2 * i + 1, v |-> Newest(o)] : o \in {x \in Riders(s) : ~skills[x].retired}}
resolve_for_agent == UNION {Given(i) : i \in DOMAIN bound}

\* with_reachable_files, operations_for_turn: of two skills of one slug the one bound first.
SlugOf(x) == skills[versions[x.v].skill].slug
reachable(S) ==
    {x \in S : /\ versions[x.v].files # {}
               /\ \A y \in S : versions[y.v].files # {} /\ SlugOf(y) = SlugOf(x) => x.at <= y.at}

Resolve(q) ==
    /\ At(q, "resolve")
    /\ Goes(q, [ask[q] EXCEPT !.live = resolve_for_agent,
                              !.pc = IF ask[q].call.do = "turn" THEN "gates" ELSE "keep"])
    /\ UNCHANGED <<skills, versions, blobs, bound, open, notes, kept, used, uses>>

\* gates_for_turn: what the live versions declare, where the declaration binds something.
Binds(v, p) == \E t \in versions[v].files : t.path = p /\ t.gate = "bound"
gates_for_turn(S) ==
    UNION {{g \in versions[x.v].gates : Binds(x.v, g[1])} : x \in {y \in S : Here(versions[y.v].skill)}}
Gate(q) ==
    /\ At(q, "gates") /\ Goes(q, [ask[q] EXCEPT !.pc = "prompt", !.gates = gates_for_turn(ask[q].live)])
    /\ UNCHANGED <<skills, versions, blobs, bound, open, notes, kept, used, uses>>

\* kept_prompt, keep_prompt: what the conversation was given, unless it has nothing, compacts
\* or is served by another model.
Prompt(q) ==
    LET r == ask[q] IN
    /\ At(q, "prompt")
    /\ \/ kept # None /\ Goes(q, [r EXCEPT !.pc = "record", !.run = kept]) /\ UNCHANGED <<kept, uses>>
       \/ /\ IF kept = None THEN UNCHANGED uses ELSE Spend("compacts")
          /\ kept' = r.live /\ Goes(q, [r EXCEPT !.pc = "record", !.run = r.live])
    /\ UNCHANGED <<skills, versions, blobs, bound, open, notes, used>>

\* compact, of a request of its own.
Keep(q) ==
    /\ At(q, "keep") /\ kept' = ask[q].live /\ Ends(q)
    /\ UNCHANGED <<skills, versions, blobs, bound, open, notes, used, uses>>

\* record_turn: a skill that is gone fails the turn.
SkillsIn(S) == {versions[x.v].skill : x \in S}
records(S) == \A s \in SkillsIn(S) : Here(s)
RecordTurn(q) ==
    LET r == ask[q] IN
    /\ At(q, "record")
    /\ IF records(r.run) THEN used' = used \cup SkillsIn(r.run) /\ Goes(q, [r EXCEPT !.pc = "ran"])
       ELSE Ends(q) /\ UNCHANGED used
    /\ UNCHANGED <<skills, versions, blobs, bound, open, notes, kept, uses>>

Ran(q) ==
    /\ At(q, "ran") /\ Ends(q)
    /\ UNCHANGED <<skills, versions, blobs, bound, open, notes, kept, used, uses>>

\* The caller goes away, or the pod, wherever the request was.
Drop(q) ==
    /\ ~At(q, "idle") /\ Spend("drops") /\ Ends(q)
    /\ UNCHANGED <<skills, versions, blobs, bound, open, notes, kept, used>>

Next ==
    \/ \E q \in Requests :
       \/ \E c \in Calls : Ask(q, c)
       \/ Store(q) \/ ReadVersion(q) \/ InsertVersion(q) \/ ReadBase(q) \/ InsertSkill(q)
       \/ Take(q) \/ ReadTaken(q) \/ Clash(q) \/ Note(q)
       \/ Begin(q) \/ Record(q) \/ Generate(q) \/ Compare(q) \/ Label(q)
       \/ Check(q) \/ MeetHosts(q) \/ Clear(q) \/ Swap(q) \/ Count(q) \/ Delete(q)
       \/ Resolve(q) \/ Gate(q) \/ Prompt(q) \/ Keep(q) \/ RecordTurn(q) \/ Ran(q) \/ Drop(q)
    \/ \E s \in DOMAIN skills : Retire(s) \/ Approve(s)
    \/ \E h \in Hosts : Close(h)
    \/ \E n \in notes : Unnote(n)

Spec == Init /\ [][Next]_vars

(* ------------------------------- properties ------------------------------- *)

TypeOK ==
    /\ skills \in Seq(SkillRow) /\ versions \in Seq(VersionRow)
    /\ blobs \subseteq Owners \X Texts /\ open \subseteq Hosts /\ used \subseteq DOMAIN skills
    /\ bound \in Seq([skill : DOMAIN skills, pin : DOMAIN versions \cup {0}, set : Nat])
    /\ uses \in [Uses -> Nat] /\ \A v \in DOMAIN versions : versions[v].skill \in DOMAIN skills

\* A version's files never say more of approval than its gates do: whatever a file of it
\* declares is gated somewhere, however the version came by the file, and a gate has a file
\* that declares it (write_gates, copy_gates).
DeclaredGated ==
    \A v \in DOMAIN versions :
       LET gated == {g[1] : g \in versions[v].gates} IN
       Declared(versions[v].files) \subseteq gated /\ gated \subseteq {t.path : t \in versions[v].files}

\* No row names a content that is not there, of versions that are not copies of another
\* version than the one whose contents were copied (store_files, fork_skill).
There(v) == \A t \in versions[v].files : <<skills[versions[v].skill].owner, t>> \in blobs
BlobsThere ==
    \A v \in DOMAIN versions : versions[v].copied = versions[v].taken => There(v)

\* Nothing but somebody who says so takes away a gate of the version a regeneration was
\* compared with (regenerate, `remove_gates`).
GatesKept ==
    \A v \in DOMAIN versions :
       versions[v].from # 0 =>
          {g[1] : g \in versions[versions[v].from].gates} \subseteq {g[1] : g \in versions[v].gates}

\* A turn that runs with a version that was live when it was prepared goes with the gates of
\* that version, whatever was unbound or deleted meanwhile (prepare_turn, record_turn).
TurnGated ==
    \A q \in Requests : At(q, "ran") =>
       \A x \in reachable(ask[q].run) \cap ask[q].live :
          \A g \in versions[x.v].gates : Binds(x.v, g[1]) => g \in ask[q].gates

\* What publishing and giving of skills promise, together.
SkillsSound == TypeOK /\ DeclaredGated /\ BlobsThere /\ GatesKept /\ TurnGated
=============================================================================
