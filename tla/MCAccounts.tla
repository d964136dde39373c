----------------------------- MODULE MCAccounts ------------------------------
(*****************************************************************************)
(* SignIn, and instances of Roles, Skills, Templates, Tracking and Settings, *)
(* for one run: a behaviour is one component moving under one set of bounds, *)
(* named by `part`.                                                          *)
(*****************************************************************************)
EXTENDS SignIn, TLC

CONSTANTS sign_ann, sign_b1, sign_b2, sign_bob, sign_r1, sign_w1, sign_w2, bundles_ann,
          bundles_assign, bundles_bob, bundles_editor, bundles_manage, bundles_other,
          bundles_p1, bundles_p2, bundles_q1, bundles_q2, bundles_staff, library_a,
          library_b, library_h1, library_h2, library_ops, library_ours, library_q1,
          library_q2, library_s1, library_s2, library_s3, offers_w1, offers_w2, upkeep_h1,
          upkeep_h2, upkeep_p1

VARIABLES part, roles, holds, token, cache, link, notes, unheard, ask, put, uses, skills, versions,
          blobs, bound, open, kept, used, template, published, opened, agents, dismissed,
          faults, snapshots, model, over, items, account, linked, overrides, fixed, takes

all == <<part, clock, rows, methods, grants, deleted, tab, req, ended, refused, left, roles, holds,
         token, cache, link, notes, unheard, ask, put, uses, skills, versions, blobs, bound,
         open, kept, used, template, published, opened, agents, dismissed, faults,
         snapshots, model, over, items, account, linked, overrides, fixed, takes>>
On(p) == part = p

(* -------------------- SignIn -------------------- *)
SignZero == [logins |-> 0, refreshes |-> 0, lost |-> 0, drops |-> 0, logouts |-> 0, selects |-> 0,
         changes |-> 0, grants |-> 0]
SignTwoMethods == [u \in {sign_ann, sign_bob} |-> IF u = sign_ann THEN {1, 2} ELSE {3}]
\* Two accounts, one of which manages the other.
SignSeveral == [SignZero EXCEPT !.logins = 2, !.refreshes = 2, !.lost = 1, !.drops = 1, !.logouts = 1,
               !.selects = 1, !.changes = 1, !.grants = 1]
SignBothFirst == [u \in {sign_ann, sign_bob} |-> [w \in {sign_w1, sign_w2} |-> IF u = sign_ann \/ w = sign_w1 THEN {sign_r1} ELSE {}]]

\* One of the things that end or move a session at a time, beside rotations and replays; a
\* second sign-in beside one of them.
Used(f) == Budget[f] - left[f]
SignFew ==
    /\ Used("lost") + Used("drops") + Used("logouts") + Used("selects") + Used("changes") + Used("grants") <= 1
    /\ Used("logins") = 2 => Used("refreshes") + Used("lost") + Used("drops") + Used("logouts")
                             + Used("selects") + Used("grants") + clock <= 1
    /\ Used("refreshes") = 2 => Used("changes") + Used("grants") = 0

(* -------------------- Roles -------------------- *)
\* Two requests beside each other, with one fault.
BundlesPair == [asks |-> 2, mints |-> 1, breaks |-> 1, unsaid |-> 1, drops |-> 1, lapses |-> 1]
BundlesBegin == <<[name |-> bundles_editor, auths |-> {bundles_manage, bundles_assign}, gone |-> FALSE],
           [name |-> bundles_staff, auths |-> {bundles_assign}, gone |-> FALSE]>>
BundlesAnn == [u \in {bundles_ann, bundles_bob} |-> IF u = bundles_ann THEN {1} ELSE {}]
BundlesCall(do, i, n, A, v) == [do |-> do, id |-> i, name |-> n, auths |-> A, whom |-> v]
BundlesMenu == {BundlesCall("create", 0, bundles_staff, {bundles_other}, None),
         BundlesCall("update", 1, None, {bundles_manage, bundles_other}, None),
         BundlesCall("rename", 1, bundles_staff, {}, None), BundlesCall("delete", 2, None, {}, None),
         BundlesCall("grant", 0, bundles_staff, {}, bundles_ann), BundlesCall("revoke", 0, bundles_editor, {}, bundles_ann)}

Bundles == INSTANCE Roles WITH
    Pods <- {bundles_p1, bundles_p2}, Users <- {bundles_ann, bundles_bob},
    Names <- {bundles_editor, bundles_staff},
    Auths <- {bundles_manage, bundles_assign, bundles_other}, Manage <- bundles_manage,
    Assign <- bundles_assign, Admins <- {bundles_bob}, MaxRoles <- 3, Budget <- BundlesPair,
    Boot <- BundlesBegin, Holding <- BundlesAnn, Requests <- {bundles_q1, bundles_q2},
    Calls <- BundlesMenu
\* One fault, and beside two requests only a listener that is lost, as a bundle is edited and a
\* role given; the listeners are up before the first request, unless one is lost; of two requests
\* at once one is an edit of a bundle.
RolesFaults == {f \in {"breaks", "unsaid", "drops", "lapses", "mints"} : uses[f] = 0}
RolesFew ==
    /\ Cardinality(RolesFaults) <= 1
    /\ RolesFaults # {} => \/ \A q, r \in DOMAIN ask : q = r \/ ask[q].pc = "idle" \/ ask[r].pc = "idle"
                           \/ RolesFaults = {"breaks"} /\ \A q \in DOMAIN ask : ask[q].do \in {"update", "grant"}
    /\ uses["asks"] < 2 => "breaks" \in RolesFaults \/ \A p \in DOMAIN link : link[p] = "on"
    /\ \E q \in DOMAIN ask : ask[q].pc = "idle" \/ ask[q].do \in {"update", "none"}

(* -------------------- Skills -------------------- *)
LibraryText(p, g) == [path |-> p, gate |-> g]
LibraryVersion(s, n, files, hosts, gates) ==
    [skill |-> s, ordinal |-> n, body |-> 1, files |-> files, hosts |-> hosts, gates |-> gates,
     based |-> 0, made |-> "hand", from |-> 0, copied |-> 0, taken |-> 0]
LibrarySkill(o, s) == [owner |-> o, slug |-> s, base |-> 0, retired |-> FALSE, gone |-> FALSE, spec |-> None]
\* The operator's skill declares an approval, and the agent has it; the workspace's own does not.
LibraryTwo == <<LibrarySkill(library_ops, library_s1), LibrarySkill(library_ours, library_s2)>>
LibraryFirsts == <<LibraryVersion(1, 1, {LibraryText(library_a, "bound")}, {library_h1}, {<<library_a, library_h1>>}),
            LibraryVersion(2, 1, {LibraryText(library_b, "unbound")}, {library_h1}, {<<library_b, library_h1>>})>>
LibraryBound == <<[skill |-> 1, pin |-> 0, set |-> 9]>>
LibraryCall(do, o, s) == [do |-> do, owner |-> o, skill |-> s, slug |-> library_s3, body |-> 2, files |-> None,
                   hosts |-> {library_h1}, spec |-> None, flag |-> FALSE, pin |-> 0, bind |-> <<>>,
                   note |-> <<>>]
LibraryMenu == {[LibraryCall("create", library_ours, 1) EXCEPT !.files = {}],
         [LibraryCall("publish", library_ops, 1) EXCEPT !.files = {LibraryText(library_a, "none"), LibraryText(library_b, "bound")}],
         [LibraryCall("publish", library_ops, 1) EXCEPT !.hosts = {library_h2}],
         [LibraryCall("publish", library_ours, 3) EXCEPT !.body = 3, !.hosts = {}],
         LibraryCall("fork", library_ours, 1),
         [LibraryCall("regenerate", library_ops, 1) EXCEPT !.spec = {library_a, library_b}],
         [LibraryCall("regenerate", library_ops, 1) EXCEPT !.flag = TRUE],
         [LibraryCall("annotate", library_ops, 1) EXCEPT !.note = <<library_b, "approval">>],
         [LibraryCall("annotate", library_ops, 1) EXCEPT !.note = <<library_b, "hidden">>],
         LibraryCall("delete", library_ops, 1), LibraryCall("delete", library_ours, 2),
         LibraryCall("bind", library_ours, 0),
         [LibraryCall("bind", library_ours, 0) EXCEPT !.bind = <<[skill |-> 2, pin |-> 2], [skill |-> 1, pin |-> 1]>>],
         LibraryCall("turn", library_ours, 0), LibraryCall("compact", library_ours, 0)}
LibrarySome == [asks |-> 3, drops |-> 1, retires |-> 1, opens |-> 1, closes |-> 1, compacts |-> 1, unnotes |-> 1]

Library == INSTANCE Skills WITH
    Ours <- library_ours, Operators <- library_ops, Paths <- {library_a, library_b},
    Hosts <- {library_h1, library_h2}, Home <- library_h1,
    Slugs <- {library_s1, library_s2, library_s3}, BootSkills <- LibraryTwo,
    BootVersions <- LibraryFirsts, BootBound <- LibraryBound, Calls <- LibraryMenu,
    Requests <- {library_q1, library_q2}, Budget <- LibrarySome, MaxVersions <- 4
\* One kind of fault at a time, and none beside three requests.
LibraryFaults == {f \in {"drops", "retires", "opens", "closes", "unnotes"} : uses[f] = 0}
LibraryFew == Cardinality(LibraryFaults) <= (IF uses["asks"] = 0 THEN 0 ELSE 1)

(* -------------------- Templates -------------------- *)
OffersRule(avail, pins, adds) == [avail |-> avail, pins |-> pins, adds |-> adds, retired |-> FALSE]
OffersCall(do, w) == [do |-> do, at |-> w, version |-> 0, rules |-> <<>>]
OffersMenu == {[OffersCall("create", None) EXCEPT !.rules = OffersRule("required", FALSE, FALSE)],
         OffersCall("publish", None), OffersCall("open", offers_w2), OffersCall("catalog", offers_w1), OffersCall("install", offers_w1),
         OffersCall("remove", offers_w1), OffersCall("hand", offers_w1), OffersCall("turn", offers_w1),
         [OffersCall("pin", offers_w1) EXCEPT !.version = 1], [OffersCall("section", offers_w1) EXCEPT !.version = 1]}
        \cup {[OffersCall("update", None) EXCEPT !.rules = r] :
                 r \in {[avail |-> "required"], [avail |-> "default"], [retired |-> TRUE],
                        [retired |-> FALSE], [pins |-> FALSE, adds |-> FALSE]}}
OffersOne == [at |-> offers_w1, made |-> TRUE, slug |-> 0, name |-> 1, pin |-> 0, section |-> FALSE, gone |-> FALSE, stale |-> FALSE]
\* Nothing yet; and an agent of one that is offered.
OffersBoth == {[rules |-> None, published |-> 0, agents |-> <<>>],
         [rules |-> OffersRule("optional", TRUE, TRUE), published |-> 1, agents |-> <<OffersOne>>]}

Offers == INSTANCE Templates WITH
    Workspaces <- {offers_w1, offers_w2}, Asks <- 4, Calls <- OffersMenu, Faults <- 1,
    Starts <- OffersBoth, Opened <- {offers_w1}, Most <- 2
\* Three requests, of which two may run beside each other, or a fault is met; a fourth is a read
\* after them. `More` says when there may be another, whatever it is.
OffersAsking == Cardinality(Offers!Asked)
OffersBeside == {q \in Offers!Asked : ~Offers!Alone(q)}
OffersDoing(q) == ask[q].call.do
OffersMore ==
    /\ Offers!Quiet \/ OffersBeside = {}
    /\ OffersAsking <= (IF Offers!Quiet /\ OffersBeside = {} THEN 3 ELSE 2)
    /\ faults = 1 \/ (Offers!Quiet /\ OffersAsking <= 2)
OffersFew ==
    /\ \A q, r \in Offers!Asked : q # r => ask[q].call # ask[r].call
    /\ template = None => OffersAsking = 0 \/ OffersDoing(1) \in {"create", "hand"}
    /\ OffersBeside # {} => /\ OffersAsking <= 3 /\ faults = 1 /\ Cardinality(OffersBeside) = 2
                            /\ \A q \in OffersBeside : OffersDoing(q) # "turn"
    /\ OffersAsking = 4 => faults = 1 /\ Offers!Last(4) /\ OffersDoing(4) \in {"catalog", "turn"}
    /\ (\E q \in Offers!Asked : OffersDoing(q) \in {"hand", "open"}) =>
          OffersAsking <= 3 /\ OffersBeside # {}

\* A default template's agent that was never made: two passes that would make it, beside each
\* other, its removal and what follows -- any three at once, and another pass after them.
CrossedMenu == {OffersCall("catalog", offers_w1), OffersCall("publish", None), OffersCall("remove", offers_w1),
         OffersCall("install", offers_w1)}
Crossed == INSTANCE Templates WITH
    Workspaces <- {offers_w1}, Asks <- 4, Calls <- CrossedMenu, Faults <- 0,
    Starts <- {[rules |-> OffersRule("default", TRUE, TRUE), published |-> 1, agents |-> <<>>]},
    Opened <- {offers_w1}, Most <- 2
CrossedMore == Crossed!Quiet \/ Cardinality(Crossed!Asked) <= 2
CrossedFew ==
    \A q, r \in Crossed!Asked : q < r /\ ask[q].call = ask[r].call => r = 4 /\ Crossed!Last(4)

(* -------------------- Tracking -------------------- *)
UpkeepCall(do) == [do |-> do, held |-> {}, at |-> None, value |-> 0, flag |-> FALSE]
UpkeepMenu == {[UpkeepCall("keep") EXCEPT !.held = {1, 2}], [UpkeepCall("keep") EXCEPT !.held = {1, 2, 3}],
         [UpkeepCall("keep") EXCEPT !.held = {1}],
         UpkeepCall("approve"), UpkeepCall("delete"), UpkeepCall("link"), UpkeepCall("unlink"), UpkeepCall("forget"), UpkeepCall("leave"),
         [UpkeepCall("tracks") EXCEPT !.flag = TRUE],
         [UpkeepCall("set") EXCEPT !.at = upkeep_p1, !.value = 3], [UpkeepCall("set") EXCEPT !.at = upkeep_p1, !.value = 1],
         [UpkeepCall("unset") EXCEPT !.at = upkeep_p1],
         [UpkeepCall("create") EXCEPT !.value = 1, !.flag = TRUE],
         [UpkeepCall("seal") EXCEPT !.at = upkeep_h1], [UpkeepCall("move") EXCEPT !.at = upkeep_h2], UpkeepCall("env")}
\* The second version takes less, and the third takes no less than most.
UpkeepFacts == <<{1, 2, 3}, {1, 2}, {3}>>
\* Nothing set and not tracking; and one whose upgrade waits on a value the second version refuses.
UpkeepModel(t, p, s) == [v |-> 1, prev |-> 0, snapshot |-> 1, tracks |-> t, pending |-> p, shown |-> s]
UpkeepBegun == {[model |-> UpkeepModel(FALSE, 0, {}), over |-> [p \in {upkeep_p1} |-> None], items |-> <<>>],
          [model |-> UpkeepModel(TRUE, 2, {[at |-> upkeep_p1, from |-> 3, to |-> 2]}),
           over |-> [p \in {upkeep_p1} |-> [value |-> 3, as |-> 3, by |-> None]],
           items |-> <<[to |-> 2, state |-> "pending"]>>]}

Upkeep == INSTANCE Tracking WITH
    Versions <- {1, 2, 3}, Settled <- {1, 2, 3}, Accepts <- UpkeepFacts, Places <- {upkeep_p1},
    Hosts <- {upkeep_h1}, Asks <- 4, Calls <- UpkeepMenu, Faults <- 1, First <- {1, 2},
    Starts <- UpkeepBegun, Kept <- 2, MaxSnapshots <- 3
\* The same, the fourth a pass or an answer; what touches the account or a chain is two at most.
UpkeepAsking == Cardinality(Upkeep!Asked)
UpkeepBeside == {q \in Upkeep!Asked : ~Upkeep!Alone(q)}
UpkeepDoing(q) == ask[q].call.do
UpkeepDid(does) == Upkeep!Of(does) # {}
UpkeepKeys == {"seal", "move", "env", "leave"}
UpkeepMore ==
    /\ UpkeepBeside = {}
    /\ Upkeep!Quiet \/ UpkeepAsking <= 2
    /\ faults = 1 \/ (Upkeep!Quiet /\ UpkeepAsking <= 2)
UpkeepFew ==
    /\ \A q, r \in Upkeep!Asked : q # r => ask[q].call # ask[r].call
    /\ UpkeepBeside # {} =>
          /\ UpkeepAsking <= 3 /\ faults = 1 /\ Cardinality(UpkeepBeside) = 2
          /\ UpkeepAsking = 3 => Upkeep!Alone(1) /\ UpkeepDoing(1) \in {"set", "tracks", "keep"}
    /\ UpkeepAsking = 4 =>
          faults = 1 /\ Upkeep!Last(4) /\ UpkeepDoing(4) \in Upkeep!Passes \cup {"approve"}
    /\ UpkeepDid({"link", "unlink", "create"} \cup UpkeepKeys) => UpkeepAsking <= 2
    /\ UpkeepDid({"forget"}) => UpkeepAsking <= 3
    /\ UpkeepDid(UpkeepKeys) => Upkeep!Of(UpkeepKeys \cup {"delete"}) = Upkeep!Asked

(* -------------------- Settings -------------------- *)
CascadeBase == [do |-> "set", level |-> "operator", model |-> FALSE, key |-> "effort", value |-> 0, operator |-> FALSE]
CascadeMenu ==
    {[CascadeBase EXCEPT !.level = l, !.model = TRUE, !.value = 1] : l \in {"operator", "workspace", "agent"}}
    \cup {[CascadeBase EXCEPT !.level = l, !.value = 2] : l \in {"operator", "workspace", "agent"}}
    \cup {[CascadeBase EXCEPT !.do = "clear", !.level = "agent", !.model = TRUE],
          [CascadeBase EXCEPT !.level = "agent", !.key = "risk"],
          [CascadeBase EXCEPT !.level = "agent", !.key = "stored"],
          [CascadeBase EXCEPT !.do = "publish", !.value = None], [CascadeBase EXCEPT !.do = "publish", !.value = 2],
          [CascadeBase EXCEPT !.do = "describe"], [CascadeBase EXCEPT !.do = "turn"],
          [CascadeBase EXCEPT !.do = "read", !.key = "risk"], [CascadeBase EXCEPT !.do = "read", !.key = "stored"],
          [CascadeBase EXCEPT !.key = "stored_by", !.value = 1], [CascadeBase EXCEPT !.key = "stored_by", !.value = 0],
          [CascadeBase EXCEPT !.key = "stored", !.value = 1],
          [CascadeBase EXCEPT !.level = "workspace", !.key = "stored", !.value = 2],
          [CascadeBase EXCEPT !.level = "workspace", !.key = "stored", !.value = 1, !.operator = TRUE]}
    \cup {[CascadeBase EXCEPT !.level = l, !.key = "risk", !.value = v] : l \in {"operator", "workspace"}, v \in {1, 2}}
CascadeTakes2 == {{0, 1, 2}, {0, 1}}
CascadeCatalogs == [effort |-> 1, risk |-> 2, stored |-> 0, stored_by |-> 0]

Cascade == INSTANCE Settings WITH
    Values <- {0, 1, 2}, Default <- CascadeCatalogs, Asks <- 3, Calls <- CascadeMenu,
    Described <- CascadeTakes2
\* Three requests about one setting, of which two may run beside each other.
CascadeMore ==
    \/ \A q \in Cascade!Asked : Cascade!Alone(q)
    \/ \A q \in Cascade!Asked : Cascade!Done(q)
CascadeFew ==
    /\ \A q, r \in Cascade!Asked : q # r => ask[q].call # ask[r].call
    /\ \E about \in {{"effort"}, {"risk"}, {"stored", "stored_by"}} :
          \A q \in Cascade!Asked : ask[q].call.key \in about
    /\ LET beside == {q \in Cascade!Asked : ~Cascade!Alone(q)} IN
       /\ Cardinality(beside) <= 2
       /\ Cardinality(Cascade!Asked) = 3 /\ beside # {} => Cascade!Alone(1) \/ Cascade!Latest(3)

ASSUME InstancesAssumption ==
    /\ Bundles!RolesAssumption /\ Library!SkillsAssumption /\ Offers!TemplatesAssumption
    /\ Crossed!TemplatesAssumption
    /\ Upkeep!TrackingAssumption /\ Cascade!SettingsAssumption

(* The parts: one component moves, and the variables of the others are None, or as SignIn begins. *)
SignAlone ==
    /\ roles = None /\ holds = None /\ token = None /\ cache = None /\ link = None
    /\ notes = None /\ unheard = None /\ ask = None /\ put = None /\ uses = None
    /\ skills = None /\ versions = None /\ blobs = None /\ bound = None /\ open = None
    /\ kept = None /\ used = None /\ template = None /\ published = None /\ opened = None
    /\ agents = None /\ dismissed = None /\ faults = None /\ snapshots = None /\ model = None
    /\ over = None /\ items = None /\ account = None /\ linked = None /\ overrides = None
    /\ fixed = None /\ takes = None
SignKept ==
    UNCHANGED <<part, roles, holds, token, cache, link, notes, unheard, ask, put, uses, skills,
                versions, blobs, bound, open, kept, used, template, published, opened, agents,
                dismissed, faults, snapshots, model, over, items, account, linked, overrides,
                fixed, takes>>
BundlesAlone ==
    /\ Init /\ skills = None /\ versions = None /\ blobs = None /\ bound = None /\ open = None
    /\ kept = None /\ used = None /\ template = None /\ published = None /\ opened = None
    /\ agents = None /\ dismissed = None /\ faults = None /\ snapshots = None /\ model = None
    /\ over = None /\ items = None /\ account = None /\ linked = None /\ overrides = None
    /\ fixed = None /\ takes = None
BundlesKept ==
    UNCHANGED <<part, clock, rows, methods, grants, deleted, tab, req, ended, refused, left,
                skills, versions, blobs, bound, open, kept, used, template, published, opened,
                agents, dismissed, faults, snapshots, model, over, items, account, linked,
                overrides, fixed, takes>>
LibraryAlone ==
    /\ Init /\ roles = None /\ holds = None /\ token = None /\ cache = None /\ link = None
    /\ unheard = None /\ put = None /\ template = None /\ published = None /\ opened = None
    /\ agents = None /\ dismissed = None /\ faults = None /\ snapshots = None /\ model = None
    /\ over = None /\ items = None /\ account = None /\ linked = None /\ overrides = None
    /\ fixed = None /\ takes = None
LibraryKept ==
    UNCHANGED <<part, clock, rows, methods, grants, deleted, tab, req, ended, refused, left,
                roles, holds, token, cache, link, unheard, put, template, published, opened,
                agents, dismissed, faults, snapshots, model, over, items, account, linked,
                overrides, fixed, takes>>
OffersAlone ==
    /\ Init /\ roles = None /\ holds = None /\ token = None /\ cache = None /\ link = None
    /\ notes = None /\ unheard = None /\ put = None /\ uses = None /\ skills = None
    /\ versions = None /\ blobs = None /\ bound = None /\ open = None /\ kept = None
    /\ used = None /\ snapshots = None /\ model = None /\ over = None /\ items = None
    /\ account = None /\ linked = None /\ overrides = None /\ fixed = None /\ takes = None
OffersKept ==
    UNCHANGED <<part, clock, rows, methods, grants, deleted, tab, req, ended, refused, left,
                roles, holds, token, cache, link, notes, unheard, put, uses, skills, versions,
                blobs, bound, open, kept, used, snapshots, model, over, items, account, linked,
                overrides, fixed, takes>>
UpkeepAlone ==
    /\ Init /\ roles = None /\ holds = None /\ token = None /\ cache = None /\ link = None
    /\ notes = None /\ unheard = None /\ put = None /\ uses = None /\ skills = None
    /\ versions = None /\ blobs = None /\ bound = None /\ open = None /\ kept = None
    /\ used = None /\ template = None /\ published = None /\ opened = None /\ agents = None
    /\ dismissed = None /\ overrides = None /\ fixed = None /\ takes = None
UpkeepKept ==
    UNCHANGED <<part, clock, rows, methods, grants, deleted, tab, req, ended, refused, left,
                roles, holds, token, cache, link, notes, unheard, put, uses, skills, versions,
                blobs, bound, open, kept, used, template, published, opened, agents, dismissed,
                overrides, fixed, takes>>
CascadeAlone ==
    /\ Init /\ roles = None /\ holds = None /\ token = None /\ cache = None /\ link = None
    /\ notes = None /\ unheard = None /\ put = None /\ uses = None /\ skills = None
    /\ versions = None /\ blobs = None /\ bound = None /\ open = None /\ kept = None
    /\ used = None /\ template = None /\ published = None /\ opened = None /\ agents = None
    /\ dismissed = None /\ faults = None /\ snapshots = None /\ model = None /\ over = None
    /\ items = None /\ account = None /\ linked = None
CascadeKept ==
    UNCHANGED <<part, clock, rows, methods, grants, deleted, tab, req, ended, refused, left,
                roles, holds, token, cache, link, notes, unheard, put, uses, skills, versions,
                blobs, bound, open, kept, used, template, published, opened, agents, dismissed,
                faults, snapshots, model, over, items, account, linked>>

PartsInit ==
    \/ part = "sign" /\ Init /\ SignAlone
    \/ part = "bundles" /\ Bundles!Init /\ BundlesAlone
    \/ part = "library" /\ Library!Init /\ LibraryAlone
    \/ part = "offers" /\ Offers!Init /\ OffersAlone
    \/ part = "crossed" /\ Crossed!Init /\ OffersAlone
    \/ part = "upkeep" /\ Upkeep!Init /\ UpkeepAlone
    \/ part = "cascade" /\ Cascade!Init /\ CascadeAlone

PartsNext ==
    \/ On("sign") /\ Next /\ SignFew' /\ SignKept
    \/ On("bundles") /\ Bundles!Next /\ RolesFew' /\ BundlesKept
    \/ On("library") /\ Library!Next /\ LibraryFew' /\ LibraryKept
    \/ On("offers") /\ OffersMore /\ (\E q \in Offers!Requests, c \in OffersMenu : Offers!Ask(q, c)) /\ OffersFew' /\ OffersKept
    \/ On("offers") /\ (\E q \in Offers!Requests : Offers!Serve(q)) /\ OffersFew' /\ OffersKept
    \/ On("crossed") /\ CrossedMore /\ (\E q \in Crossed!Requests, c \in CrossedMenu : Crossed!Ask(q, c)) /\ CrossedFew' /\ OffersKept
    \/ On("crossed") /\ (\E q \in Crossed!Requests : Crossed!Serve(q)) /\ CrossedFew' /\ OffersKept
    \/ On("upkeep") /\ UpkeepMore /\ (\E q \in Upkeep!Requests, c \in UpkeepMenu : Upkeep!Ask(q, c)) /\ UpkeepFew' /\ UpkeepKept
    \/ On("upkeep") /\ (\E q \in Upkeep!Requests : Upkeep!Serve(q)) /\ UpkeepFew' /\ UpkeepKept
    \/ On("cascade") /\ CascadeMore /\ (\E q \in Cascade!Requests, c \in CascadeMenu : Cascade!Ask(q, c))
         /\ CascadeFew' /\ CascadeKept
    \/ On("cascade") /\ (\E q \in Cascade!Requests : Cascade!Serve(q)) /\ CascadeFew' /\ CascadeKept

PartsSpec == PartsInit /\ [][PartsNext]_all

Symmetric == Permutations({bundles_p1, bundles_p2}) \cup Permutations({bundles_q1, bundles_q2})

(* ------------------------------ properties ------------------------------ *)

\* An edit to a role takes effect at the next request on any pod it was announced to, nobody
\* bundles in a role what no role carried, and a name stays one role's (role/postgres.rs).
RolesSound == On("bundles") => Bundles!RolesSound

\* A version's files are there and gated as they declare, a regeneration takes no gate away
\* unsaid, and a turn goes with the gates of what it was given and was live as it was prepared; a
\* version only its kept prompt still names has none (skill/postgres.rs, skills.rs,
\* skill_sources.rs, worker/turn.rs).
SkillsSound == On("library") => Library!SkillsSound

\* Everybody has what a template requires by its newest name, and an agent removed on purpose
\* comes back only by a pass that had found it owed before; a model moves only onto what takes the
\* values set for it, but for one checked against the version it moved from; and a setting is
\* never looser than what the operator had set before (agent_template/postgres.rs, tracking.rs,
\* settings/postgres.rs).
CatalogSound ==
    /\ On("offers") => Offers!TemplatesSound
    /\ On("crossed") => Crossed!TemplatesSound
    /\ On("upkeep") => Upkeep!TrackingSound
    /\ On("cascade") => Cascade!SettingsSound
=============================================================================
