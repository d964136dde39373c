------------------------------- MODULE SignIn -------------------------------
(***************************************************************************)
(* Signing in and staying signed in (login.rs, session/postgres.rs, the     *)
(* account routes of router.rs, user/postgres.rs).  A sign-in starts a      *)
(* family of refresh tokens; each use of one retires it and inserts its     *)
(* successor in a second statement, and mints an access token that names    *)
(* the family, so that signing out can end it without the refresh cookie.   *)
(* A browser holds the last tokens it was answered with; an answer may be   *)
(* lost, and a copy of a retired token may be presented again.  A handler   *)
(* is one step for each statement whose result it carries to the next.      *)
(* What a password is, is left out: whoever presents one proves it or does  *)
(* not.  Times are in steps of the clock.                                   *)
(***************************************************************************)
EXTENDS Integers, Sequences, FiniteSets

CONSTANTS Browsers, Accounts, Workspaces, Roles, Admins, Managers, Methods,
          AccessLife, RefreshLife, MaxTime, MaxRows, Budget, None,
          Boot, Standing  \* the sign-ins and the roles at first

Uses == {"logins", "refreshes", "lost", "drops", "logouts", "selects", "changes", "grants"}

ASSUME SignInAssumption ==
    /\ AccessLife \in Nat /\ RefreshLife \in Nat /\ MaxTime \in Nat /\ MaxRows \in Nat
    /\ None \notin Accounts
    /\ Budget \in [Uses -> Nat] /\ Boot \in [Accounts -> SUBSET Methods]
    /\ Standing \in [Accounts -> [Workspaces -> SUBSET Roles]]

VARIABLES clock,
          rows,      \* refresh_tokens, in the order they were inserted
          methods,   \* user_identities: each account's sign-ins
          grants,    \* user_workspace_roles, by name
          deleted,   \* accounts that are gone
          tab,       \* each browser: its cookies
          req,       \* each browser: the request it has in flight
          ended,     \* history: families revoked with nothing of theirs in flight
          refused,   \* history: rows whose refresh found no role
          left       \* calls and faults still to come

vars == <<clock, rows, methods, grants, deleted, tab, req, ended, refused, left>>

NoAccess == [user |-> None, ws |-> None, fam |-> 0, roles |-> {}, exp |-> 0]
NoRefresh == 0
Idle == [pc |-> "idle", user |-> None, ws |-> None, row |-> 0, fam |-> 0, roles |-> {},
         target |-> None, method |-> None]

Init ==
    /\ clock = 0 /\ rows = <<>> /\ deleted = {} /\ ended = {} /\ refused = {} /\ left = Budget
    /\ methods = Boot /\ grants = Standing
    /\ tab = [b \in Browsers |-> [access |-> NoAccess, refresh |-> NoRefresh]]
    /\ req = [b \in Browsers |-> Idle]

Spend(f) == left[f] > 0 /\ left' = [left EXCEPT ![f] = @ - 1]
At(b, pc) == req[b].pc = pc
Done(b) == req' = [req EXCEPT ![b] = Idle]

(* ----------------------------- access tokens ------------------------------ *)

\* Names, never what they carry; the platform's apply in every workspace.
roles_for_workspace(u, w) == grants[u][w] \cup (IF u \in Admins THEN {"system_admin"} ELSE {})

memberships(u) == IF u \in Admins THEN Workspaces ELSE {w \in Workspaces : grants[u][w] # {}}

\* mint_session
mint(u, w, roles, fam) ==
    [user |-> u, ws |-> w, roles |-> roles, fam |-> fam, exp |-> clock + AccessLife]

\* A token naming no role is refused, and so is one that has lapsed.
validate(t) == t.user # None /\ t.roles # {} /\ clock < t.exp

\* The claims of a request: what its cookie says, while it is good.
authenticate(b) == validate(tab[b].access)
claims(b) == tab[b].access

(* ---------------------------- refresh tokens ------------------------------ *)

lapsed(i) == rows[i].exp < clock
Row(u, w, f) == [user |-> u, ws |-> w, fam |-> f, rotated |-> FALSE, revoked |-> FALSE,
                 gone |-> FALSE, exp |-> clock + RefreshLife]

\* A row is named by its place; a family by the row that began it.
insert(u, w, f) == Len(rows) < MaxRows /\ rows' = Append(rows, Row(u, w, f))
issue(u, w) == insert(u, w, Len(rows) + 1)

Revoking(S) ==
    rows' = [i \in DOMAIN rows |-> IF i \in S THEN [rows[i] EXCEPT !.revoked = TRUE] ELSE rows[i]]
Kept == {i \in DOMAIN rows : ~rows[i].gone}
OfFamily(f) == {i \in Kept : rows[i].fam = f}
OfUser(u) == {i \in Kept : rows[i].user = u}

\* A family with a rotation between its two statements, or a sign-in between the
\* password and the row: what a revocation now does not see.
Between(f) == \E b \in Browsers : At(b, "retired") /\ req[b].fam = f
Ends(S) == ended' = ended \cup {f \in {rows[i].fam : i \in S} : ~Between(f)}

usable(i) == i \in Kept /\ ~rows[i].rotated /\ ~rows[i].revoked /\ ~lapsed(i)

(* ------------------------------- signing in ------------------------------- *)

\* login: authenticate.  What follows is the account's, whichever sign-in was used.
Login(b, u, m) ==
    /\ At(b, "idle") /\ Spend("logins") /\ m \in methods[u]
    /\ req' = [req EXCEPT ![b] = [Idle EXCEPT !.pc = "known", !.user = u]]
    /\ UNCHANGED <<clock, rows, methods, grants, deleted, tab, ended, refused>>

\* The workspace named has to be one of the account's, and to give it a role.
Choose(b, w) ==
    /\ At(b, "known") /\ req[b].user \notin deleted
    /\ IF w \in memberships(req[b].user) /\ roles_for_workspace(req[b].user, w) # {}
       THEN req' = [req EXCEPT ![b].pc = "chosen", ![b].ws = w,
                        ![b].roles = roles_for_workspace(req[b].user, w)]
       ELSE Done(b)
    /\ UNCHANGED <<clock, rows, methods, grants, deleted, tab, ended, refused, left>>

\* The cookies are set where the answer arrives.
Answered(b, t, r) ==
    \/ tab' = [tab EXCEPT ![b] = [access |-> t, refresh |-> r]] /\ UNCHANGED left
    \/ Spend("lost") /\ UNCHANGED tab

Issue(b) ==
    /\ At(b, "chosen") /\ req[b].user \notin deleted
    /\ issue(req[b].user, req[b].ws) /\ Done(b)
    /\ Answered(b, mint(req[b].user, req[b].ws, req[b].roles, Len(rows) + 1), Len(rows) + 1)
    /\ UNCHANGED <<clock, methods, grants, deleted, ended, refused>>

(* ------------------------------- refreshing ------------------------------- *)

\* The row a rotation retires: in the statement that reads it, so that one presenter gets it.
\* What a browser presents: its cookie, another tab's, or a copy of one already used.
Presented(b, r) ==
    r \in Kept /\ (rows[r].rotated \/ \E x \in Browsers : tab[x].refresh = r)
Retired(r) == rows' = [rows EXCEPT ![r].rotated = TRUE]

\* Mutant: what was read decides, and the update takes the row whatever it says by then.
TakesAny(r) == ~rows[r].revoked
Takes(r) == ~rows[r].rotated

\* rotate, its first statement: the row is retired even where it turns out revoked or lapsed.
Rotate(b, r) ==
    /\ At(b, "idle") /\ Presented(b, r) /\ Takes(r) /\ Spend("refreshes")
    /\ Retired(r)
    /\ IF rows[r].revoked \/ lapsed(r) THEN Done(b)
       ELSE req' = [req EXCEPT ![b] = [Idle EXCEPT !.pc = "retired", !.row = r,
                        !.user = rows[r].user, !.ws = rows[r].ws, !.fam = rows[r].fam]]
    /\ UNCHANGED <<clock, methods, grants, deleted, tab, ended, refused>>

\* A token already rotated: the whole family goes.
Replay(b, r) ==
    /\ At(b, "idle") /\ Presented(b, r) /\ rows[r].rotated /\ Spend("refreshes")
    /\ Revoking(OfFamily(rows[r].fam)) /\ Ends(OfFamily(rows[r].fam))
    /\ UNCHANGED <<clock, methods, grants, deleted, tab, req, refused>>

\* Its second: the successor, in the same family.
Succeed(b) ==
    /\ At(b, "retired") /\ req[b].user \notin deleted
    /\ insert(req[b].user, req[b].ws, req[b].fam)
    /\ req' = [req EXCEPT ![b].pc = "rotated", ![b].row = Len(rows) + 1]
    /\ UNCHANGED <<clock, methods, grants, deleted, tab, ended, refused, left>>

\* refresh: the roles as they are now, and a session with none of them ends.
NoRoles(b) == roles_for_workspace(req[b].user, req[b].ws) = {}
Refresh(b) ==
    LET roles == roles_for_workspace(req[b].user, req[b].ws) IN
    /\ At(b, "rotated") /\ req[b].user \notin deleted /\ ~NoRoles(b) /\ Done(b)
    /\ Answered(b, mint(req[b].user, req[b].ws, roles, req[b].fam), req[b].row)
    /\ UNCHANGED <<clock, rows, methods, grants, deleted, ended, refused>>

Revokes(b) == {i \in Kept : i = req[b].row}

Refuse(b) ==
    /\ At(b, "rotated") /\ req[b].user \notin deleted /\ NoRoles(b) /\ Done(b)
    /\ Revoking(Revokes(b))
    /\ refused' = refused \cup {req[b].row}
    /\ UNCHANGED <<clock, methods, grants, deleted, tab, ended, left>>

\* The account went meanwhile: the insert, or the read of it, is refused.
Orphaned(b) ==
    /\ req[b].pc \in {"known", "chosen", "retired", "rotated", "moving"} /\ req[b].user \in deleted
    /\ Done(b)
    /\ UNCHANGED <<clock, rows, methods, grants, deleted, tab, ended, refused, left>>

\* The pod dies, or the browser goes, between two statements of a request.
Drop(b) ==
    /\ req[b].pc # "idle" /\ Spend("drops") /\ Done(b)
    /\ UNCHANGED <<clock, rows, methods, grants, deleted, tab, ended, refused>>

(* ---------------------------- ending sessions ----------------------------- *)

\* logout: the family the access token names, where it is still good.
Logout(b) ==
    /\ At(b, "idle") /\ Spend("logouts")
    /\ tab' = [tab EXCEPT ![b] = [access |-> NoAccess, refresh |-> NoRefresh]]
    /\ LET S == IF authenticate(b) THEN OfFamily(claims(b).fam) \cap OfUser(claims(b).user) ELSE {}
       IN Revoking(S) /\ Ends(S)
    /\ UNCHANGED <<clock, methods, grants, deleted, req, refused>>

\* select_workspace: the new family first, then the old one ends.
Select(b, w) ==
    LET c == claims(b) IN
    /\ At(b, "idle") /\ authenticate(b) /\ Spend("selects") /\ c.user \notin deleted
    /\ w \in memberships(c.user) /\ roles_for_workspace(c.user, w) # {}
    /\ req' = [req EXCEPT ![b] = [Idle EXCEPT !.pc = "moving", !.user = c.user, !.ws = w,
                   !.roles = roles_for_workspace(c.user, w), !.fam = c.fam]]
    /\ UNCHANGED <<clock, rows, methods, grants, deleted, tab, ended, refused>>

Move(b) ==
    /\ At(b, "moving") /\ req[b].user \notin deleted
    /\ issue(req[b].user, req[b].ws)
    /\ req' = [req EXCEPT ![b].pc = "selected", ![b].row = Len(rows) + 1]
    /\ UNCHANGED <<clock, methods, grants, deleted, tab, ended, refused, left>>

Selected(b) ==
    LET S == OfFamily(req[b].fam) \cap OfUser(req[b].user) IN
    /\ At(b, "selected") /\ Done(b)
    /\ Revoking(S) /\ Ends(S)
    /\ Answered(b, mint(req[b].user, req[b].ws, req[b].roles, req[b].row), req[b].row)
    /\ UNCHANGED <<clock, methods, grants, deleted, refused>>

(* ------------------------------- the account ------------------------------ *)

\* target_user: the caller, somebody of the caller's workspace, or anybody for an admin.
target_user(c, u) ==
    u \notin deleted /\ (c.user = u \/ "system_admin" \in c.roles \/ grants[u][c.ws] # {})

\* One's own, or with the authority to manage users.
may_manage(c, u) == (c.user = u \/ c.user \in Managers) /\ target_user(c, u)

\* set_password: one's own is proved with the current password, held by whoever knows it.
SetPassword(b, u, m, proved) ==
    LET c == claims(b) IN
    /\ At(b, "idle") /\ authenticate(b) /\ may_manage(c, u) /\ Spend("changes")
    /\ c.user = u => proved
    /\ m \in methods[u]
    /\ req' = [req EXCEPT ![b] = [Idle EXCEPT !.pc = "changed", !.user = c.user, !.target = u,
                   !.fam = c.fam]]
    /\ UNCHANGED <<clock, rows, methods, grants, deleted, tab, ended, refused>>

\* Every other session the account holds ends: revoke_all_but, revoke_all_for_user.
Changed(b) ==
    LET r == req[b]
        S == {i \in OfUser(r.target) : r.user = r.target => rows[i].fam # r.fam} IN
    /\ At(b, "changed") /\ Done(b)
    /\ Revoking(S) /\ Ends(S)
    /\ UNCHANGED <<clock, methods, grants, deleted, tab, refused, left>>

\* prove_own: how one's own account is signed in to changes with a password of it only.
\* add_identity: an address that is taken is refused by its uniqueness.
AddIdentity(b, u, m, proved) ==
    LET c == claims(b) IN
    /\ At(b, "idle") /\ authenticate(b) /\ may_manage(c, u) /\ Spend("changes")
    /\ c.user = u => proved
    /\ \A v \in Accounts : m \notin methods[v]
    /\ methods' = [methods EXCEPT ![u] = @ \cup {m}]
    /\ UNCHANGED <<clock, rows, grants, deleted, tab, req, ended, refused>>

\* remove_identity: the statement counts what its snapshot holds, and deletes its own row.
RemoveIdentity(b, u, m, proved) ==
    LET c == claims(b) IN
    /\ At(b, "idle") /\ authenticate(b) /\ may_manage(c, u) /\ Spend("changes")
    /\ c.user = u => proved
    /\ m \in methods[u] /\ methods[u] # {m}
    /\ req' = [req EXCEPT ![b] = [Idle EXCEPT !.pc = "removing", !.user = c.user, !.target = u,
                   !.method = m]]
    /\ UNCHANGED <<clock, rows, methods, grants, deleted, tab, ended, refused>>

Removing(b) ==
    LET r == req[b] IN
    /\ At(b, "removing")
    /\ IF r.method \in methods[r.target]
       THEN /\ methods' = [methods EXCEPT ![r.target] = @ \ {r.method}]
            /\ req' = [req EXCEPT ![b].pc = "removed"]
       ELSE Done(b) /\ UNCHANGED methods
    /\ UNCHANGED <<clock, rows, grants, deleted, tab, ended, refused, left>>

\* A removed sign-in may be one somebody else was using: every session ends with it.
Removed(b) ==
    LET S == OfUser(req[b].target) IN
    /\ At(b, "removed") /\ Done(b)
    /\ Revoking(S) /\ Ends(S)
    /\ UNCHANGED <<clock, methods, grants, deleted, tab, refused, left>>

\* revoke_workspace_role, grant_workspace_role, for this module: the names are taken
\* away or given back.
Regrant(u, w) ==
    /\ u \notin deleted /\ Spend("grants")
    /\ grants' = [grants EXCEPT ![u][w] = Roles \ @]
    /\ UNCHANGED <<clock, rows, methods, deleted, tab, req, ended, refused>>

\* delete: the account's refresh tokens and sign-ins go with it.
DeleteUser(b, u) ==
    LET c == claims(b) IN
    /\ At(b, "idle") /\ authenticate(b) /\ c.user \in Managers /\ Spend("changes")
    /\ c.user # u /\ target_user(c, u)
    /\ deleted' = deleted \cup {u}
    /\ methods' = [methods EXCEPT ![u] = {}]
    /\ grants' = [grants EXCEPT ![u] = [w \in Workspaces |-> {}]]
    /\ rows' = [i \in DOMAIN rows |-> IF rows[i].user = u THEN [rows[i] EXCEPT !.gone = TRUE] ELSE rows[i]]
    /\ UNCHANGED <<clock, tab, req, ended, refused>>

(* --------------------------------- time ----------------------------------- *)

\* sweep_expired: rotated and revoked rows are kept until they lapse.
sweep_expired ==
    /\ \E i \in Kept : lapsed(i)
    /\ rows' = [i \in DOMAIN rows |-> IF lapsed(i) THEN [rows[i] EXCEPT !.gone = TRUE] ELSE rows[i]]
    /\ UNCHANGED <<clock, methods, grants, deleted, tab, req, ended, refused, left>>

Tick ==
    /\ clock < MaxTime /\ clock' = clock + 1
    /\ UNCHANGED <<rows, methods, grants, deleted, tab, req, ended, refused, left>>

Next ==
    \/ Tick \/ sweep_expired
    \/ \E u \in Accounts, w \in Workspaces : Regrant(u, w)
    \/ \E b \in Browsers :
       \/ \E u \in Accounts, m \in Methods : Login(b, u, m)
       \/ \E w \in Workspaces : Choose(b, w) \/ Select(b, w)
       \/ Orphaned(b) \/ Issue(b) \/ Succeed(b) \/ Refresh(b) \/ Refuse(b) \/ Move(b) \/ Drop(b)
       \/ \E r \in DOMAIN rows : Rotate(b, r) \/ Replay(b, r)
       \/ Logout(b) \/ Selected(b) \/ Changed(b) \/ Removing(b) \/ Removed(b)
       \/ \E u \in Accounts, m \in Methods, proved \in BOOLEAN :
             \/ SetPassword(b, u, m, proved) \/ AddIdentity(b, u, m, proved)
             \/ RemoveIdentity(b, u, m, proved)
       \/ \E u \in Accounts : DeleteUser(b, u)

Spec == Init /\ [][Next]_vars

(* ------------------------------- properties ------------------------------- *)

ReqStates == {"idle", "known", "chosen", "retired", "rotated", "moving", "selected", "changed",
              "removing", "removed"}
RowRec == [user : Accounts, ws : Workspaces, fam : Nat, rotated : BOOLEAN, revoked : BOOLEAN,
           gone : BOOLEAN, exp : Nat]

TypeOK ==
    /\ clock \in 0..MaxTime /\ deleted \subseteq Accounts
    /\ rows \in Seq(RowRec) /\ \A i \in DOMAIN rows : rows[i].fam <= i
    /\ methods \in [Accounts -> SUBSET Methods]
    /\ grants \in [Accounts -> [Workspaces -> SUBSET Roles]]
    /\ tab \in [Browsers -> [access : [user : Accounts \cup {None}, ws : Workspaces \cup {None},
                                     fam : Nat, roles : SUBSET (Roles \cup {"system_admin"}),
                                     exp : Nat],
                            refresh : Nat]]
    /\ req \in [Browsers -> [pc : ReqStates, user : Accounts \cup {None},
                            ws : Workspaces \cup {None}, row : Nat, fam : Nat,
                            roles : SUBSET (Roles \cup {"system_admin"}),
                            target : Accounts \cup {None}, method : Methods \cup {None}]]
    /\ ended \subseteq Nat /\ refused \subseteq DOMAIN rows
    /\ left \in [Uses -> Nat]

\* Two presentations of one refresh token never both get a successor, so a family has at
\* most one token that was not used, and none while one is being exchanged
\* (session/postgres.rs, rotate).
OneUnused ==
    \A i, j \in Kept : rows[i].fam = rows[j].fam /\ ~rows[i].rotated /\ ~rows[j].rotated
                          => i = j /\ ~Between(rows[i].fam)

\* A family revoked while no rotation of it was between its two statements gives no
\* session again, whoever presents what of it and whenever.
EndedStays == \A f \in ended : \A i \in OfFamily(f) : ~usable(i)

\* A refresh that found the account without a role ends its session.
RefusedStays == \A r \in refused : \A i \in OfFamily(rows[r].fam) : ~usable(i)

\* The two cookies of a browser are of one family, so signing out ends what its refresh
\* token would go on.
CookiesAgree ==
    \A b \in Browsers : tab[b].refresh # NoRefresh =>
       /\ tab[b].refresh \in DOMAIN rows
       /\ rows[tab[b].refresh].fam = tab[b].access.fam
       /\ rows[tab[b].refresh].user = tab[b].access.user
       /\ rows[tab[b].refresh].ws = tab[b].access.ws

\* What the tokens of a browser promise, together: one use of each, an end that lasts, and
\* two cookies of one session.
SessionsSound == TypeOK /\ OneUnused /\ EndedStays /\ RefusedStays /\ CookiesAgree
=============================================================================
