---------------------------- MODULE SignInProofs ----------------------------
(***************************************************************************)
(* Proofs about SignIn: for any number of browsers, accounts and rows, a   *)
(* refresh token has one successor, an ended family stays ended and the    *)
(* cookies of a browser are of one session.  The invariant follows a row   *)
(* from the statement that retires its predecessor to the browser that is  *)
(* answered with it: until then nobody presents it, so it is unused.       *)
(***************************************************************************)
EXTENDS SignIn, SequenceTheorems, TLAPS

-----------------------------------------------------------------------------
(* The inductive invariant                                                 *)

\* Everything a family has left is used, revoked or deleted, and nothing of it
\* is on its way.
Dead(f) ==
    /\ ~Between(f)
    /\ \A i \in DOMAIN rows : rows[i].fam = f => rows[i].rotated \/ rows[i].revoked \/ rows[i].gone

\* One account and one workspace for each family.
FamilyOne ==
    \A i, j \in DOMAIN rows :
        rows[i].fam = rows[j].fam => rows[i].user = rows[j].user /\ rows[i].ws = rows[j].ws

\* One unused row in a family.
UnusedOne ==
    \A i, j \in DOMAIN rows :
        rows[i].fam = rows[j].fam /\ ~rows[i].rotated /\ ~rows[j].rotated => i = j

\* A request carries what its row says.
Carries(b) ==
    /\ req[b].row \in DOMAIN rows
    /\ rows[req[b].row].user = req[b].user /\ rows[req[b].row].ws = req[b].ws

\* Between the two statements of a rotation the family has no unused row, and
\* no other request is there.
RetiredInv ==
    \A b \in Browsers : At(b, "retired") =>
        /\ Carries(b) /\ rows[req[b].row].fam = req[b].fam
        /\ \A i \in DOMAIN rows : rows[i].fam = req[b].fam => rows[i].rotated
        /\ \A c \in Browsers : At(c, "retired") /\ req[c].fam = req[b].fam => c = b

\* A successor nobody was answered with is unused, and one request's.
RotatedInv ==
    \A b \in Browsers : At(b, "rotated") =>
        /\ Carries(b) /\ rows[req[b].row].fam = req[b].fam /\ req[b].fam < req[b].row
        /\ ~rows[req[b].row].rotated
        /\ \A x \in Browsers : tab[x].refresh # req[b].row
        /\ \A c \in Browsers : At(c, "rotated") /\ req[c].row = req[b].row => c = b

\* A workspace chosen begins a family.
SelectedInv ==
    \A b \in Browsers : At(b, "selected") => Carries(b) /\ rows[req[b].row].fam = req[b].row

DeadInv ==
    /\ \A f \in ended : f <= Len(rows) /\ Dead(f)
    /\ \A r \in refused : Dead(rows[r].fam)

\* What a request in each of its states has to go on with.
Going ==
    \A b \in Browsers :
        /\ req[b].pc \in {"known", "chosen", "retired", "rotated", "moving", "selected"} =>
              req[b].user \in Accounts
        /\ req[b].pc \in {"chosen", "retired", "rotated", "moving", "selected"} =>
              req[b].ws \in Workspaces
        /\ req[b].pc \in {"changed", "removing", "removed"} => req[b].target \in Accounts

Inv ==
    /\ TypeOK /\ FamilyOne /\ UnusedOne /\ RetiredInv /\ RotatedInv /\ SelectedInv /\ DeadInv
    /\ CookiesAgree /\ Going

-----------------------------------------------------------------------------
(* Rows, requests and budgets                                              *)

AccessRec == [user : Accounts \cup {None}, ws : Workspaces \cup {None}, fam : Nat,
              roles : SUBSET (Roles \cup {"system_admin"}), exp : Nat]
TabRec == [access : AccessRec, refresh : Nat]
ReqRec == [pc : ReqStates, user : Accounts \cup {None}, ws : Workspaces \cup {None}, row : Nat,
           fam : Nat, roles : SUBSET (Roles \cup {"system_admin"}),
           target : Accounts \cup {None}, method : Methods \cup {None}]

\* The states of a request whose row the invariant follows.
Holding == {"retired", "rotated", "selected"}

\* No row is added, used or moved; some may be revoked or deleted.
Marked ==
    /\ rows' \in Seq(RowRec) /\ Len(rows') = Len(rows) /\ DOMAIN rows' = DOMAIN rows
    /\ \A i \in DOMAIN rows :
         /\ rows'[i].user = rows[i].user /\ rows'[i].ws = rows[i].ws /\ rows'[i].fam = rows[i].fam
         /\ rows'[i].rotated = rows[i].rotated
         /\ rows[i].revoked => rows'[i].revoked
         /\ rows[i].gone => rows'[i].gone

LEMMA Typed ==
  ASSUME TypeOK
  PROVE  /\ clock \in Nat /\ clock <= MaxTime /\ deleted \subseteq Accounts
         /\ rows \in Seq(RowRec) /\ Len(rows) \in Nat /\ DOMAIN rows = 1..Len(rows)
         /\ \A i \in DOMAIN rows : rows[i] \in RowRec /\ rows[i].fam <= i
         /\ tab \in [Browsers -> TabRec] /\ req \in [Browsers -> ReqRec]
         /\ ended \subseteq Nat /\ refused \subseteq DOMAIN rows /\ left \in [Uses -> Nat]
         /\ methods \in [Accounts -> SUBSET Methods]
         /\ grants \in [Accounts -> [Workspaces -> SUBSET Roles]]
  <1>1. rows \in Seq(RowRec)
    BY DEF TypeOK
  <1>2. Len(rows) \in Nat /\ DOMAIN rows = 1..Len(rows) /\ rows \in [1..Len(rows) -> RowRec]
    BY <1>1, LenProperties
  <1>3. clock \in Nat /\ clock <= MaxTime
    BY SignInAssumption DEF TypeOK
  <1> QED  BY <1>1, <1>2, <1>3 DEF TypeOK, TabRec, AccessRec, ReqRec

LEMMA TypeFrame ==
  ASSUME clock' \in Nat, clock' <= MaxTime, deleted' \subseteq Accounts,
         rows' \in Seq(RowRec), \A i \in DOMAIN rows' : rows'[i].fam <= i,
         tab' \in [Browsers -> TabRec], req' \in [Browsers -> ReqRec],
         ended' \subseteq Nat, refused' \subseteq DOMAIN rows', left' \in [Uses -> Nat],
         methods' \in [Accounts -> SUBSET Methods],
         grants' \in [Accounts -> [Workspaces -> SUBSET Roles]]
  PROVE  TypeOK'
  <1>1. clock' \in 0..MaxTime
    BY SignInAssumption
  <1> QED  BY <1>1 DEF TypeOK, TabRec, AccessRec, ReqRec

LEMMA MarkedTypes ==
  ASSUME TypeOK, Marked
  PROVE  rows' \in Seq(RowRec) /\ \A i \in DOMAIN rows' : rows'[i].fam <= i
  BY Typed DEF Marked

LEMMA RevokingIs ==
  ASSUME TypeOK, NEW S, Revoking(S)
  PROVE  Marked /\ \A i \in DOMAIN rows : i \in S => rows'[i].revoked
  <1> DEFINE e(i) == IF i \in S THEN [rows[i] EXCEPT !.revoked = TRUE] ELSE rows[i]
  <1>0. Len(rows) \in Nat /\ DOMAIN rows = 1..Len(rows)
    BY Typed
  <1>1. rows' = [i \in 1..Len(rows) |-> e(i)]
    BY <1>0 DEF Revoking
  <1>2. \A i \in 1..Len(rows) : e(i) \in RowRec
    <2> TAKE i \in 1..Len(rows)
    <2>1. rows[i] \in RowRec
      BY <1>0, Typed
    <2> QED  BY <2>1 DEF RowRec
  <1>3. rows' \in Seq(RowRec) /\ DOMAIN rows' = 1..Len(rows)
    <2> HIDE DEF e
    <2>1. [i \in 1..Len(rows) |-> e(i)] \in Seq(RowRec)
      BY <1>0, <1>2, IsASeq
    <2> QED  BY <1>1, <2>1
  <1>4. Len(rows') = Len(rows)
    BY <1>0, <1>3, LenProperties
  <1>5. \A i \in DOMAIN rows : rows[i] \in RowRec /\ rows'[i] = e(i)
    BY <1>0, <1>1, Typed
  <1> QED  BY <1>0, <1>3, <1>4, <1>5 DEF Marked, RowRec

\* The same for rows that are deleted.
LEMMA DeletingIs ==
  ASSUME TypeOK, NEW S,
         rows' = [i \in DOMAIN rows |-> IF i \in S THEN [rows[i] EXCEPT !.gone = TRUE] ELSE rows[i]]
  PROVE  Marked
  <1> DEFINE e(i) == IF i \in S THEN [rows[i] EXCEPT !.gone = TRUE] ELSE rows[i]
  <1>0. Len(rows) \in Nat /\ DOMAIN rows = 1..Len(rows)
    BY Typed
  <1>1. rows' = [i \in 1..Len(rows) |-> e(i)]
    BY <1>0
  <1>2. \A i \in 1..Len(rows) : e(i) \in RowRec
    <2> TAKE i \in 1..Len(rows)
    <2>1. rows[i] \in RowRec
      BY <1>0, Typed
    <2> QED  BY <2>1 DEF RowRec
  <1>3. rows' \in Seq(RowRec) /\ DOMAIN rows' = 1..Len(rows)
    <2> HIDE DEF e
    <2>1. [i \in 1..Len(rows) |-> e(i)] \in Seq(RowRec)
      BY <1>0, <1>2, IsASeq
    <2> QED  BY <1>1, <2>1
  <1>4. Len(rows') = Len(rows)
    BY <1>0, <1>3, LenProperties
  <1>5. \A i \in DOMAIN rows : rows[i] \in RowRec /\ rows'[i] = e(i)
    BY <1>0, <1>1, Typed
  <1> QED  BY <1>0, <1>3, <1>4, <1>5 DEF Marked, RowRec

LEMMA SameMarked ==
  ASSUME TypeOK, UNCHANGED rows
  PROVE  Marked
  BY Typed DEF Marked

LEMMA ReqTo ==
  ASSUME TypeOK, NEW b \in Browsers, NEW r \in ReqRec, req' = [req EXCEPT ![b] = r]
  PROVE  /\ req' \in [Browsers -> ReqRec] /\ req'[b] = r
         /\ \A c \in Browsers : c # b => req'[c] = req[c]
  BY Typed

LEMMA IdleReq == Idle \in ReqRec /\ Idle.pc = "idle"
  BY DEF Idle, ReqRec, ReqStates

LEMMA SpendIs ==
  ASSUME TypeOK, NEW f \in Uses, Spend(f)
  PROVE  left' \in [Uses -> Nat]
  <1>1. left \in [Uses -> Nat] /\ left[f] \in Nat /\ left[f] > 0 /\ left' = [left EXCEPT ![f] = @ - 1]
    BY Typed DEF Spend
  <1>2. left[f] - 1 \in Nat
    BY <1>1
  <1> QED  BY <1>1, <1>2

-----------------------------------------------------------------------------
(* What every step but an insert and a rotation does to the invariant      *)

\* A family that is over stays over while no row is added or used and no
\* request comes between the two statements of a rotation.
LEMMA DeadKept ==
  ASSUME TypeOK, Marked,
         \A c \in Browsers : req'[c] = req[c] \/ req'[c].pc \notin Holding,
         NEW f, Dead(f)
  PROVE  Dead(f)'
  BY DEF Dead, Between, At, Marked, Holding

LEMMA Frame ==
  ASSUME Inv, TypeOK', Going', Marked, CookiesAgree',
         \A c \in Browsers : req'[c] = req[c] \/ req'[c].pc \notin Holding,
         \A c, x \in Browsers : At(c, "rotated") /\ req'[c] = req[c] => tab'[x].refresh # req[c].row,
         \A f \in ended' : f \in ended \/ (f <= Len(rows) /\ Dead(f)'),
         \A r \in refused' : r \in refused \/ Dead(rows[r].fam)'
  PROVE  Inv'
  <1>0. TypeOK /\ FamilyOne /\ UnusedOne /\ RetiredInv /\ RotatedInv /\ SelectedInv /\ DeadInv
    BY DEF Inv
  <1>1. FamilyOne' /\ UnusedOne'
    BY <1>0 DEF FamilyOne, UnusedOne, Marked
  <1>2. \A c \in Browsers : req'[c].pc \in Holding =>
          req'[c] = req[c] /\ (Carries(c) => Carries(c)')
    BY DEF Carries, Marked
  <1>3. RetiredInv'
    BY <1>0, <1>2 DEF RetiredInv, At, Marked, Holding, Carries
  <1>4. RotatedInv'
    BY <1>0, <1>2 DEF RotatedInv, At, Marked, Holding, Carries
  <1>5. SelectedInv'
    BY <1>0, <1>2 DEF SelectedInv, At, Marked, Holding, Carries
  <1>6. DeadInv'
    <2>1. \A f : Dead(f) => Dead(f)'
      BY <1>0, DeadKept
    <2>2. \A r \in refused : rows'[r].fam = rows[r].fam
      BY <1>0, Typed DEF Marked
    <2>3. \A f \in ended' : f <= Len(rows') /\ Dead(f)'
      BY <1>0, <2>1 DEF DeadInv, Marked
    <2>4. \A r \in refused : Dead(rows[r].fam)'
      BY <1>0, <2>1, <2>2 DEF DeadInv
    <2>5. \A r \in refused' : Dead(rows[r].fam)'
      BY <2>4
    <2> QED  BY <2>3, <2>5 DEF DeadInv
  <1> QED  BY <1>1, <1>3, <1>4, <1>5, <1>6 DEF Inv

\* The parts of the invariant a step starts from.
LEMMA Parts ==
  ASSUME Inv
  PROVE  /\ TypeOK /\ FamilyOne /\ UnusedOne /\ RetiredInv /\ RotatedInv /\ SelectedInv
         /\ DeadInv /\ CookiesAgree /\ Going
         /\ \A c, x \in Browsers : At(c, "rotated") => tab[x].refresh # req[c].row
  BY DEF Inv, RotatedInv

LEMMA CookiesKept ==
  ASSUME Inv, Marked, UNCHANGED tab
  PROVE  CookiesAgree'
  <1>1. \A b \in Browsers : tab[b].refresh # NoRefresh => tab[b].refresh \in DOMAIN rows
    BY DEF Inv, CookiesAgree
  <1> QED  BY <1>1 DEF Inv, CookiesAgree, Marked

\* A step that leaves the rows, the cookies and the history alone and brings no
\* request between two statements that follow a row.
LEMMA Quiet ==
  ASSUME Inv, UNCHANGED <<rows, tab, ended, refused>>, Going',
         clock' \in Nat, clock' <= MaxTime, deleted' \subseteq Accounts,
         req' \in [Browsers -> ReqRec], left' \in [Uses -> Nat],
         methods' \in [Accounts -> SUBSET Methods],
         grants' \in [Accounts -> [Workspaces -> SUBSET Roles]],
         \A c \in Browsers : req'[c] = req[c] \/ req'[c].pc \notin Holding
  PROVE  Inv'
  <1>1. TypeOK'
    BY Parts, Typed, TypeFrame
  <1>2. Marked
    BY Parts, SameMarked
  <1>3. CookiesAgree'
    BY <1>2, CookiesKept
  <1>4. /\ \A f \in ended' : f \in ended \/ (f <= Len(rows) /\ Dead(f)')
        /\ \A r \in refused' : r \in refused \/ Dead(rows[r].fam)'
    OBVIOUS
  <1>5. \A c, x \in Browsers : At(c, "rotated") /\ req'[c] = req[c] => tab'[x].refresh # req[c].row
    BY Parts
  <1> QED  BY <1>1, <1>2, <1>3, <1>4, <1>5, Frame

\* A request that goes on, or is over.
LEMMA GoingTo ==
  ASSUME Inv, NEW b \in Browsers, NEW r \in ReqRec, req' = [req EXCEPT ![b] = r],
         r.pc \in {"known", "chosen", "retired", "rotated", "moving", "selected"} => r.user \in Accounts,
         r.pc \in {"chosen", "retired", "rotated", "moving", "selected"} => r.ws \in Workspaces,
         r.pc \in {"changed", "removing", "removed"} => r.target \in Accounts
  PROVE  Going'
  <1>1. req'[b] = r /\ \A c \in Browsers : c # b => req'[c] = req[c]
    BY Parts, ReqTo
  <1> QED  BY <1>1, Parts DEF Going

LEMMA GoingSame ==
  ASSUME Inv, UNCHANGED req
  PROVE  Going'
  BY Parts DEF Going

LEMMA RolesTyped ==
  ASSUME TypeOK, NEW u \in Accounts, NEW w \in Workspaces
  PROVE  roles_for_workspace(u, w) \in SUBSET (Roles \cup {"system_admin"})
  BY Typed DEF roles_for_workspace

\* A step of one request that only takes it to where nothing of its row is
\* followed, and that may cost one of what is left.
LEMMA QuietRequest ==
  ASSUME Inv, NEW b \in Browsers, NEW r \in ReqRec, req' = [req EXCEPT ![b] = r],
         r.pc \notin Holding,
         r.pc \in {"known", "chosen", "moving"} => r.user \in Accounts,
         r.pc \in {"chosen", "moving"} => r.ws \in Workspaces,
         r.pc \in {"changed", "removing", "removed"} => r.target \in Accounts,
         UNCHANGED <<rows, tab, ended, refused, clock, grants, deleted>>,
         left' \in [Uses -> Nat], methods' \in [Accounts -> SUBSET Methods]
  PROVE  Inv'
  <1>1. /\ req' \in [Browsers -> ReqRec]
        /\ \A c \in Browsers : req'[c] = req[c] \/ req'[c].pc \notin Holding
    BY Parts, ReqTo
  <1>2. Going'
    BY GoingTo DEF Holding
  <1> QED  BY <1>1, <1>2, Parts, Typed, Quiet

-----------------------------------------------------------------------------
(* The steps, one after another                                            *)

LEMMA LoginStep ==
  ASSUME Inv, NEW b \in Browsers, NEW u \in Accounts, NEW m \in Methods, Login(b, u, m)
  PROVE  Inv'
  <1> DEFINE r == [Idle EXCEPT !.pc = "known", !.user = u]
  <1>1. r \in ReqRec /\ r.pc = "known" /\ r.user = u
    BY DEF Idle, ReqRec, ReqStates
  <1>2. /\ req' = [req EXCEPT ![b] = r] /\ UNCHANGED <<rows, tab, ended, refused, clock, grants, deleted, methods>>
        /\ left' \in [Uses -> Nat]
    BY Parts, SpendIs DEF Login, Uses
  <1> HIDE DEF r
  <1> QED  BY <1>1, <1>2, Parts, Typed, QuietRequest DEF Holding

\* The request is over and nothing else has happened.
LEMMA DoneStep ==
  ASSUME Inv, NEW b \in Browsers, Done(b), left' \in [Uses -> Nat],
         UNCHANGED <<rows, tab, ended, refused, clock, grants, deleted, methods>>
  PROVE  Inv'
  BY Parts, Typed, IdleReq, QuietRequest DEF Done, Holding

LEMMA ChooseStep ==
  ASSUME Inv, NEW b \in Browsers, NEW w \in Workspaces, Choose(b, w)
  PROVE  Inv'
  <1> DEFINE u == req[b].user
             r == [req[b] EXCEPT !.pc = "chosen", !.ws = w, !.roles = roles_for_workspace(u, w)]
  <1>0. u \in Accounts /\ req[b] \in ReqRec
    BY Parts, Typed DEF Choose, Going, At
  <1>1. UNCHANGED <<rows, tab, ended, refused, clock, grants, deleted, methods, left>> /\ left \in [Uses -> Nat]
    BY Parts, Typed DEF Choose
  <1>2. CASE Done(b)
    BY <1>1, <1>2, DoneStep
  <1>3. CASE ~Done(b)
    <2>1. roles_for_workspace(u, w) \in SUBSET (Roles \cup {"system_admin"})
      BY <1>0, Parts, RolesTyped
    <2>2. r \in ReqRec /\ r.pc = "chosen" /\ r.user = u /\ r.ws = w
      BY <1>0, <2>1 DEF ReqRec, ReqStates
    <2>3. req' = [req EXCEPT ![b] = r]
      BY <1>0, <1>3, Parts, Typed DEF Choose
    <2> HIDE DEF r, u
    <2> QED  BY <1>0, <1>1, <2>2, <2>3, Parts, Typed, QuietRequest DEF Holding
  <1> QED  BY <1>2, <1>3

LEMMA OrphanedStep ==
  ASSUME Inv, NEW b \in Browsers, Orphaned(b)
  PROVE  Inv'
  BY Parts, Typed, DoneStep DEF Orphaned

LEMMA DropStep ==
  ASSUME Inv, NEW b \in Browsers, Drop(b)
  PROVE  Inv'
  BY Parts, SpendIs, DoneStep DEF Drop, Uses

\* What the access cookie names, where it is good.
LEMMA ClaimsTyped ==
  ASSUME TypeOK, NEW b \in Browsers, authenticate(b)
  PROVE  claims(b) \in AccessRec /\ claims(b).user \in Accounts
  BY Typed DEF authenticate, validate, claims, TabRec, AccessRec

LEMMA SelectStep ==
  ASSUME Inv, NEW b \in Browsers, NEW w \in Workspaces, Select(b, w)
  PROVE  Inv'
  <1> DEFINE c == claims(b)
             ro == roles_for_workspace(c.user, w)
             r == [Idle EXCEPT !.pc = "moving", !.user = c.user, !.ws = w, !.roles = ro, !.fam = c.fam]
  <1>0. c \in AccessRec /\ c.user \in Accounts
    BY Parts, ClaimsTyped DEF Select
  <1>1. ro \in SUBSET (Roles \cup {"system_admin"}) /\ c.fam \in Nat
    BY <1>0, Parts, RolesTyped DEF AccessRec
  <1>2. /\ req' = [req EXCEPT ![b] = r] /\ UNCHANGED <<rows, tab, ended, refused, clock, grants, deleted, methods>>
        /\ left' \in [Uses -> Nat]
    BY Parts, SpendIs DEF Select, Uses
  <1>3. r \in ReqRec /\ r.pc = "moving" /\ r.user = c.user /\ r.ws = w
    <2> HIDE DEF c, ro
    <2> QED  BY <1>0, <1>1 DEF Idle, ReqRec, ReqStates
  <1> HIDE DEF r, c
  <1> QED  BY <1>0, <1>2, <1>3, Parts, Typed, QuietRequest DEF Holding

LEMMA SetPasswordStep ==
  ASSUME Inv, NEW b \in Browsers, NEW u \in Accounts, NEW m \in Methods, NEW proved \in BOOLEAN,
         SetPassword(b, u, m, proved)
  PROVE  Inv'
  <1> DEFINE c == claims(b)
             r == [Idle EXCEPT !.pc = "changed", !.user = c.user, !.target = u, !.fam = c.fam]
  <1>0. c \in AccessRec /\ c.user \in Accounts
    BY Parts, ClaimsTyped DEF SetPassword
  <1>2. /\ req' = [req EXCEPT ![b] = r] /\ UNCHANGED <<rows, tab, ended, refused, clock, grants, deleted, methods>>
        /\ left' \in [Uses -> Nat]
    BY Parts, SpendIs DEF SetPassword, Uses
  <1>3. r \in ReqRec /\ r.pc = "changed" /\ r.target = u
    <2>1. c.fam \in Nat
      BY <1>0 DEF AccessRec
    <2> HIDE DEF c
    <2> QED  BY <1>0, <2>1 DEF Idle, ReqRec, ReqStates
  <1> HIDE DEF r, c
  <1> QED  BY <1>0, <1>2, <1>3, Parts, Typed, QuietRequest DEF Holding

LEMMA AddIdentityStep ==
  ASSUME Inv, NEW b \in Browsers, NEW u \in Accounts, NEW m \in Methods, NEW proved \in BOOLEAN,
         AddIdentity(b, u, m, proved)
  PROVE  Inv'
  <1>1. /\ UNCHANGED <<rows, tab, ended, refused, clock, grants, deleted, req>>
        /\ left' \in [Uses -> Nat]
    BY Parts, SpendIs DEF AddIdentity, Uses
  <1>2. methods' \in [Accounts -> SUBSET Methods]
    BY Parts, Typed DEF AddIdentity
  <1> QED  BY <1>1, <1>2, Parts, Typed, Quiet, GoingSame

LEMMA RemoveIdentityStep ==
  ASSUME Inv, NEW b \in Browsers, NEW u \in Accounts, NEW m \in Methods, NEW proved \in BOOLEAN,
         RemoveIdentity(b, u, m, proved)
  PROVE  Inv'
  <1> DEFINE c == claims(b)
             r == [Idle EXCEPT !.pc = "removing", !.user = c.user, !.target = u, !.method = m]
  <1>0. c \in AccessRec /\ c.user \in Accounts
    BY Parts, ClaimsTyped DEF RemoveIdentity
  <1>2. /\ req' = [req EXCEPT ![b] = r] /\ UNCHANGED <<rows, tab, ended, refused, clock, grants, deleted, methods>>
        /\ left' \in [Uses -> Nat]
    BY Parts, SpendIs DEF RemoveIdentity, Uses
  <1>3. r \in ReqRec /\ r.pc = "removing" /\ r.target = u
    <2> HIDE DEF c
    <2> QED  BY <1>0 DEF Idle, ReqRec, ReqStates
  <1> HIDE DEF r, c
  <1> QED  BY <1>0, <1>2, <1>3, Parts, Typed, QuietRequest DEF Holding

LEMMA RemovingStep ==
  ASSUME Inv, NEW b \in Browsers, Removing(b)
  PROVE  Inv'
  <1>0. /\ req[b].target \in Accounts /\ req[b] \in ReqRec
        /\ UNCHANGED <<rows, tab, ended, refused, clock, grants, deleted, left>>
        /\ methods' \in [Accounts -> SUBSET Methods] /\ left' \in [Uses -> Nat]
    BY Parts, Typed DEF Removing, Going, At
  <1>1. CASE Done(b)
    BY <1>0, <1>1, Parts, Typed, IdleReq, QuietRequest DEF Done, Holding
  <1>2. CASE ~Done(b)
    <2> DEFINE r == [req[b] EXCEPT !.pc = "removed"]
    <2>1. r \in ReqRec /\ r.pc = "removed" /\ r.target = req[b].target
      BY <1>0 DEF ReqRec, ReqStates
    <2>2. req' = [req EXCEPT ![b] = r]
      BY <1>0, <1>2, Parts, Typed DEF Removing
    <2> HIDE DEF r
    <2> QED  BY <1>0, <2>1, <2>2, Parts, QuietRequest DEF Holding
  <1> QED  BY <1>1, <1>2

LEMMA RegrantStep ==
  ASSUME Inv, NEW u \in Accounts, NEW w \in Workspaces, Regrant(u, w)
  PROVE  Inv'
  <1>1. UNCHANGED <<rows, tab, ended, refused, clock, deleted, req, methods>> /\ left' \in [Uses -> Nat]
    BY Parts, SpendIs DEF Regrant, Uses
  <1>2. grants' \in [Accounts -> [Workspaces -> SUBSET Roles]]
    BY Parts, Typed DEF Regrant
  <1> QED  BY <1>1, <1>2, Parts, Typed, Quiet, GoingSame

LEMMA TickStep ==
  ASSUME Inv, Tick
  PROVE  Inv'
  <1>1. UNCHANGED <<rows, tab, ended, refused, grants, deleted, req, methods, left>>
    BY DEF Tick
  <1>2. clock' \in Nat /\ clock' <= MaxTime
    BY Parts, Typed, SignInAssumption DEF Tick
  <1> QED  BY <1>1, <1>2, Parts, Typed, Quiet, GoingSame

-----------------------------------------------------------------------------
(* Sessions that end                                                       *)

\* A revocation of whole families ends those of them nothing is on its way of.
LEMMA EndsIs ==
  ASSUME Inv, NEW S \in SUBSET Kept, Revoking(S), Ends(S),
         \A i \in S, j \in Kept : rows[j].fam = rows[i].fam => j \in S,
         \A c \in Browsers : req'[c] = req[c] \/ req'[c].pc \notin Holding
  PROVE  /\ \A f \in ended' : f \in ended \/ (f <= Len(rows) /\ Dead(f)')
         /\ ended' \subseteq Nat
  <1>1. Marked /\ \A i \in DOMAIN rows : i \in S => rows'[i].revoked
    BY Parts, RevokingIs
  <1>2. ASSUME NEW f \in ended', f \notin ended
        PROVE  f \in Nat /\ f <= Len(rows) /\ Dead(f)'
    <2>1. PICK i \in S : f = rows[i].fam /\ ~Between(f)
      BY <1>2 DEF Ends
    <2>2. i \in DOMAIN rows /\ f \in Nat /\ f <= i /\ i <= Len(rows) /\ i \in Nat /\ Len(rows) \in Nat
      BY <2>1, Parts, Typed DEF Kept, RowRec
    <2>3. ~Between(f)'
      BY <2>1, <1>1 DEF Between, At, Holding
    <2>4. \A j \in DOMAIN rows' : rows'[j].fam = f => rows'[j].revoked \/ rows'[j].gone
      BY <1>1, <2>1 DEF Kept, Marked
    <2> QED  BY <2>2, <2>3, <2>4 DEF Dead
  <1> QED  BY <1>2, Parts, Typed

\* One account's rows of a family are all of it.
LEMMA WholeFamily ==
  ASSUME Inv, NEW f, NEW u
  PROVE  \A i \in OfFamily(f) \cap OfUser(u), j \in Kept :
            rows[j].fam = rows[i].fam => j \in OfFamily(f) \cap OfUser(u)
  BY Parts DEF FamilyOne, OfFamily, OfUser, Kept

\* A request that ends by revoking whole families, the cookies left alone.
LEMMA EndingStep ==
  ASSUME Inv, NEW b \in Browsers, Done(b) \/ UNCHANGED req,
         NEW S \in SUBSET Kept, Revoking(S), Ends(S),
         \A i \in S, j \in Kept : rows[j].fam = rows[i].fam => j \in S,
         UNCHANGED <<clock, methods, grants, deleted, refused, tab>>, left' \in [Uses -> Nat]
  PROVE  Inv'
  <1>1. /\ req' \in [Browsers -> ReqRec] /\ Going'
        /\ \A c \in Browsers : req'[c] = req[c] \/ req'[c].pc \notin Holding
    <2>1. CASE UNCHANGED req
      BY <2>1, Parts, Typed, GoingSame
    <2>2. CASE Done(b)
      BY <2>2, Parts, ReqTo, IdleReq, GoingTo DEF Done, Holding
    <2> QED  BY <2>1, <2>2
  <1>2. Marked
    BY Parts, RevokingIs
  <1>3. /\ \A f \in ended' : f \in ended \/ (f <= Len(rows) /\ Dead(f)')
        /\ ended' \subseteq Nat
    BY <1>1, EndsIs
  <1>4. refused' \subseteq DOMAIN rows'
    BY <1>2, Parts, Typed DEF Marked
  <1>5. TypeOK'
    BY <1>1, <1>2, <1>3, <1>4, Parts, Typed, MarkedTypes, TypeFrame
  <1>6. CookiesAgree'
    BY <1>2, CookiesKept
  <1>7. \A c, x \in Browsers : At(c, "rotated") /\ req'[c] = req[c] => tab'[x].refresh # req[c].row
    BY Parts
  <1> QED  BY <1>1, <1>2, <1>3, <1>5, <1>6, <1>7, Frame

LEMMA ReplayStep ==
  ASSUME Inv, NEW b \in Browsers, NEW r \in DOMAIN rows, Replay(b, r)
  PROVE  Inv'
  <1>1. left' \in [Uses -> Nat]
    BY Parts, SpendIs DEF Replay, Uses
  <1> DEFINE S == OfFamily(rows[r].fam)
  <1>2. S \in SUBSET Kept /\ \A i \in S, j \in Kept : rows[j].fam = rows[i].fam => j \in S
    BY DEF OfFamily
  <1>3. Revoking(S) /\ Ends(S) /\ UNCHANGED <<clock, methods, grants, deleted, refused, tab, req>>
    BY DEF Replay
  <1> HIDE DEF S
  <1> QED  BY <1>1, <1>2, <1>3, EndingStep

LEMMA ChangedStep ==
  ASSUME Inv, NEW b \in Browsers, Changed(b)
  PROVE  Inv'
  <1> DEFINE r == req[b]
             S == {i \in OfUser(r.target) : r.user = r.target => rows[i].fam # r.fam}
  <1>1. left' \in [Uses -> Nat]
    BY Parts, Typed DEF Changed
  <1>2. S \in SUBSET Kept /\ \A i \in S, j \in Kept : rows[j].fam = rows[i].fam => j \in S
    BY Parts DEF FamilyOne, OfUser, Kept
  <1>3. Revoking(S) /\ Ends(S) /\ UNCHANGED <<clock, methods, grants, deleted, refused, tab>> /\ Done(b)
    BY DEF Changed
  <1> HIDE DEF S
  <1> QED  BY <1>1, <1>2, <1>3, EndingStep

LEMMA RemovedStep ==
  ASSUME Inv, NEW b \in Browsers, Removed(b)
  PROVE  Inv'
  <1> DEFINE S == OfUser(req[b].target)
  <1>1. left' \in [Uses -> Nat]
    BY Parts, Typed DEF Removed
  <1>2. S \in SUBSET Kept /\ \A i \in S, j \in Kept : rows[j].fam = rows[i].fam => j \in S
    BY Parts DEF FamilyOne, OfUser, Kept
  <1>3. Revoking(S) /\ Ends(S) /\ UNCHANGED <<clock, methods, grants, deleted, refused, tab>> /\ Done(b)
    BY DEF Removed
  <1> HIDE DEF S
  <1> QED  BY <1>1, <1>2, <1>3, EndingStep

\* Rows deleted, for good or with their account.
LEMMA DeletedStep ==
  ASSUME Inv, Marked, UNCHANGED <<clock, tab, req, ended, refused>>,
         deleted' \subseteq Accounts, left' \in [Uses -> Nat],
         methods' \in [Accounts -> SUBSET Methods],
         grants' \in [Accounts -> [Workspaces -> SUBSET Roles]]
  PROVE  Inv'
  <1>1. refused' \subseteq DOMAIN rows'
    BY Parts, Typed DEF Marked
  <1>2. TypeOK'
    BY <1>1, Parts, Typed, MarkedTypes, TypeFrame
  <1>3. CookiesAgree' /\ Going'
    BY CookiesKept, GoingSame
  <1>4. /\ \A f \in ended' : f \in ended \/ (f <= Len(rows) /\ Dead(f)')
        /\ \A r \in refused' : r \in refused \/ Dead(rows[r].fam)'
        /\ \A c \in Browsers : req'[c] = req[c] \/ req'[c].pc \notin Holding
        /\ \A c, x \in Browsers : At(c, "rotated") /\ req'[c] = req[c] => tab'[x].refresh # req[c].row
    BY Parts
  <1> QED  BY <1>2, <1>3, <1>4, Frame

LEMMA DeleteUserStep ==
  ASSUME Inv, NEW b \in Browsers, NEW u \in Accounts, DeleteUser(b, u)
  PROVE  Inv'
  <1>1. left' \in [Uses -> Nat] /\ UNCHANGED <<clock, tab, req, ended, refused>>
    BY Parts, SpendIs DEF DeleteUser, Uses
  <1>2. /\ deleted' \subseteq Accounts /\ methods' \in [Accounts -> SUBSET Methods]
        /\ grants' \in [Accounts -> [Workspaces -> SUBSET Roles]]
    BY Parts, Typed DEF DeleteUser
  <1>3. Marked
    <2> DEFINE S == {i \in DOMAIN rows : rows[i].user = u}
    <2>1. rows' = [i \in DOMAIN rows |-> IF i \in S THEN [rows[i] EXCEPT !.gone = TRUE] ELSE rows[i]]
      BY DEF DeleteUser
    <2> HIDE DEF S
    <2> QED  BY <2>1, Parts, DeletingIs
  <1> QED  BY <1>1, <1>2, <1>3, DeletedStep

LEMMA SweepStep ==
  ASSUME Inv, sweep_expired
  PROVE  Inv'
  <1>1. UNCHANGED <<clock, tab, req, ended, refused, deleted, methods, grants, left>>
    BY DEF sweep_expired
  <1>2. Marked
    <2> DEFINE S == {i \in DOMAIN rows : lapsed(i)}
    <2>1. rows' = [i \in DOMAIN rows |-> IF i \in S THEN [rows[i] EXCEPT !.gone = TRUE] ELSE rows[i]]
      BY DEF sweep_expired
    <2> HIDE DEF S
    <2> QED  BY <2>1, Parts, DeletingIs
  <1> QED  BY <1>1, <1>2, Parts, Typed, DeletedStep

\* The session a refresh refuses is the last of its family.
LEMMA RefuseStep ==
  ASSUME Inv, NEW b \in Browsers, Refuse(b)
  PROVE  Inv'
  <1>0. PICK k : k = req[b].row
    OBVIOUS
  <1>f. PICK f : f = rows[k].fam
    OBVIOUS
  <1> DEFINE S == {i \in Kept : i = k}
  <1>1. /\ At(b, "rotated") /\ Revoking(S) /\ refused' = refused \cup {k} /\ Done(b)
        /\ UNCHANGED <<clock, methods, grants, deleted, tab, ended, left>>
    BY <1>0 DEF Refuse, Revokes
  <1>2. Marked /\ \A i \in DOMAIN rows : i \in S => rows'[i].revoked
    <2> HIDE DEF S
    <2> QED  BY <1>1, Parts, RevokingIs
  <1>3. /\ k \in DOMAIN rows /\ ~rows[k].rotated
        /\ \A i \in DOMAIN rows : rows[i].fam = f /\ ~rows[i].rotated => i = k
        /\ ~Between(f)
    BY <1>0, <1>f, <1>1, Parts DEF RotatedInv, UnusedOne, Carries, RetiredInv, Between
  <1>4. /\ req' \in [Browsers -> ReqRec] /\ Going'
        /\ \A c \in Browsers : req'[c] = req[c] \/ req'[c].pc \notin Holding
    BY <1>1, Parts, ReqTo, IdleReq, GoingTo DEF Done, Holding
  <1>5. Dead(f)' /\ rows'[k].fam = f
    <2>1. k \in Kept => rows'[k].revoked
      BY <1>2, <1>3
    <2>2. rows'[k].revoked \/ rows'[k].gone
      BY <1>2, <1>3, <2>1 DEF Kept, Marked
    <2>3. \A i \in DOMAIN rows' : rows'[i].fam = f /\ i # k => rows'[i].rotated
      BY <1>2, <1>3 DEF Marked
    <2>4. ~Between(f)'
      BY <1>3, <1>4 DEF Between, At, Holding
    <2> QED  BY <1>2, <1>3, <1>f, <2>2, <2>3, <2>4 DEF Dead, Marked
  <1>6. refused' \subseteq DOMAIN rows'
    BY <1>1, <1>2, <1>3, Parts, Typed DEF Marked
  <1>7. TypeOK'
    BY <1>1, <1>2, <1>4, <1>6, Parts, Typed, MarkedTypes, TypeFrame
  <1>8. CookiesAgree'
    BY <1>1, <1>2, CookiesKept
  <1>9. /\ \A g \in ended' : g \in ended \/ (g <= Len(rows) /\ Dead(g)')
        /\ \A c, x \in Browsers : At(c, "rotated") /\ req'[c] = req[c] => tab'[x].refresh # req[c].row
        /\ \A r \in refused' : r \in refused \/ Dead(rows[r].fam)'
    BY <1>0, <1>1, <1>5, Parts
  <1> QED  BY <1>2, <1>4, <1>7, <1>8, <1>9, Frame

-----------------------------------------------------------------------------
(* Cookies                                                                 *)

LEMMA AnsweredIs ==
  ASSUME TypeOK, NEW b \in Browsers, NEW t \in AccessRec, NEW r \in Nat, Answered(b, t, r)
  PROVE  /\ tab' \in [Browsers -> TabRec] /\ left' \in [Uses -> Nat]
         /\ \A x \in Browsers : tab'[x] = tab[x] \/ (x = b /\ tab'[x] = [access |-> t, refresh |-> r])
  <1>1. [access |-> t, refresh |-> r] \in TabRec
    BY DEF TabRec
  <1>2. CASE tab' = [tab EXCEPT ![b] = [access |-> t, refresh |-> r]] /\ UNCHANGED left
    BY <1>1, <1>2, Typed
  <1>3. CASE Spend("lost") /\ UNCHANGED tab
    BY <1>3, Typed, SpendIs DEF Uses
  <1> QED  BY <1>2, <1>3 DEF Answered

LEMMA MintTyped ==
  ASSUME TypeOK, NEW u \in Accounts, NEW w \in Workspaces, NEW f \in Nat,
         NEW ro \in SUBSET (Roles \cup {"system_admin"})
  PROVE  /\ mint(u, w, ro, f) \in AccessRec
         /\ mint(u, w, ro, f).user = u /\ mint(u, w, ro, f).ws = w /\ mint(u, w, ro, f).fam = f
  <1>1. clock + AccessLife \in Nat
    BY Typed, SignInAssumption
  <1> QED  BY <1>1 DEF mint, AccessRec

\* Both cookies of a browser are replaced by two of one row, or by none.
LEMMA CookiesAnswered ==
  ASSUME Inv, \A i \in DOMAIN rows : /\ i \in DOMAIN rows' /\ rows'[i].fam = rows[i].fam
                                     /\ rows'[i].user = rows[i].user /\ rows'[i].ws = rows[i].ws,
         NEW b \in Browsers, NEW t \in AccessRec, NEW r \in Nat,
         r # 0 => /\ r \in DOMAIN rows' /\ rows'[r].fam = t.fam
                  /\ rows'[r].user = t.user /\ rows'[r].ws = t.ws,
         \A x \in Browsers : tab'[x] = tab[x] \/ (x = b /\ tab'[x] = [access |-> t, refresh |-> r])
  PROVE  CookiesAgree'
  <1> SUFFICES ASSUME NEW x \in Browsers, tab'[x].refresh # 0
               PROVE  /\ tab'[x].refresh \in DOMAIN rows'
                      /\ rows'[tab'[x].refresh].fam = tab'[x].access.fam
                      /\ rows'[tab'[x].refresh].user = tab'[x].access.user
                      /\ rows'[tab'[x].refresh].ws = tab'[x].access.ws
    BY DEF CookiesAgree, NoRefresh
  <1>1. CASE tab'[x] = tab[x]
    BY <1>1, Parts DEF CookiesAgree, NoRefresh
  <1>2. CASE tab'[x] = [access |-> t, refresh |-> r]
    BY <1>2
  <1> QED  BY <1>1, <1>2

LEMMA LogoutStep ==
  ASSUME Inv, NEW b \in Browsers, Logout(b)
  PROVE  Inv'
  <1> DEFINE S == IF authenticate(b) THEN OfFamily(claims(b).fam) \cap OfUser(claims(b).user) ELSE {}
             t == [access |-> NoAccess, refresh |-> NoRefresh]
  <1>1. /\ Revoking(S) /\ Ends(S) /\ tab' = [tab EXCEPT ![b] = t]
        /\ UNCHANGED <<clock, methods, grants, deleted, req, refused>> /\ left' \in [Uses -> Nat]
    BY Parts, SpendIs DEF Logout, Uses
  <1>2. S \in SUBSET Kept /\ \A i \in S, j \in Kept : rows[j].fam = rows[i].fam => j \in S
    BY WholeFamily DEF OfFamily, OfUser
  <1>3. Marked
    <2> HIDE DEF S
    <2> QED  BY <1>1, Parts, RevokingIs
  <1>4. /\ \A f \in ended' : f \in ended \/ (f <= Len(rows) /\ Dead(f)')
        /\ ended' \subseteq Nat
    <2> HIDE DEF S
    <2> QED  BY <1>1, <1>2, EndsIs
  <1>5. NoAccess \in AccessRec /\ NoRefresh \in Nat
    BY DEF NoAccess, NoRefresh, AccessRec
  <1>6. t \in TabRec
    BY <1>5 DEF TabRec
  <1>7. tab' \in [Browsers -> TabRec] /\ \A x \in Browsers : tab'[x] = tab[x] \/ (x = b /\ tab'[x] = t)
    <2> HIDE DEF t
    <2> QED  BY <1>1, <1>6, Parts, Typed
  <1>8. refused' \subseteq DOMAIN rows'
    BY <1>1, <1>3, Parts, Typed DEF Marked
  <1>9. TypeOK'
    BY <1>1, <1>3, <1>4, <1>7, <1>8, Parts, Typed, MarkedTypes, TypeFrame
  <1>10. CookiesAgree'
    BY <1>3, <1>5, <1>7, CookiesAnswered DEF Marked, NoRefresh
  <1>11. Going'
    BY <1>1, GoingSame
  <1>12. \A c, x \in Browsers : At(c, "rotated") /\ req'[c] = req[c] => tab'[x].refresh # req[c].row
    <2>1. \A c \in Browsers : At(c, "rotated") => req[c].row # 0
      BY Parts, Typed DEF RotatedInv, Carries
    <2> QED  BY <1>7, <2>1, Parts DEF NoRefresh
  <1>13. /\ \A c \in Browsers : req'[c] = req[c] \/ req'[c].pc \notin Holding
         /\ \A r \in refused' : r \in refused \/ Dead(rows[r].fam)'
    BY <1>1
  <1> QED  BY <1>3, <1>4, <1>9, <1>10, <1>11, <1>12, <1>13, Frame

LEMMA SelectedStep ==
  ASSUME Inv, NEW b \in Browsers, Selected(b)
  PROVE  Inv'
  <1>0. PICK q \in ReqRec : q = req[b]
    BY Parts, Typed
  <1> DEFINE S == OfFamily(q.fam) \cap OfUser(q.user)
             t == mint(q.user, q.ws, q.roles, q.row)
  <1>1. /\ At(b, "selected") /\ Done(b) /\ Revoking(S) /\ Ends(S) /\ Answered(b, t, q.row)
        /\ UNCHANGED <<clock, methods, grants, deleted, refused>>
    BY <1>0 DEF Selected
  <1>2. S \in SUBSET Kept /\ \A i \in S, j \in Kept : rows[j].fam = rows[i].fam => j \in S
    BY WholeFamily DEF OfFamily, OfUser
  <1>3. Marked
    <2> HIDE DEF S
    <2> QED  BY <1>1, Parts, RevokingIs
  <1>4. /\ req' \in [Browsers -> ReqRec] /\ Going'
        /\ req'[b] = Idle /\ \A c \in Browsers : c # b => req'[c] = req[c]
        /\ \A c \in Browsers : req'[c] = req[c] \/ req'[c].pc \notin Holding
    BY <1>1, Parts, ReqTo, IdleReq, GoingTo DEF Done, Holding
  <1>5. /\ \A f \in ended' : f \in ended \/ (f <= Len(rows) /\ Dead(f)')
        /\ ended' \subseteq Nat
    <2> HIDE DEF S
    <2> QED  BY <1>1, <1>2, <1>4, EndsIs
  <1>6. /\ q.user \in Accounts /\ q.ws \in Workspaces /\ q.row \in DOMAIN rows /\ q.row \in Nat
        /\ rows[q.row].user = q.user /\ rows[q.row].ws = q.ws /\ rows[q.row].fam = q.row
        /\ q.roles \in SUBSET (Roles \cup {"system_admin"})
    BY <1>0, <1>1, Parts DEF Going, SelectedInv, Carries, At, ReqRec
  <1>7. t \in AccessRec /\ t.user = q.user /\ t.ws = q.ws /\ t.fam = q.row
    BY <1>6, Parts, MintTyped
  <1>8. /\ tab' \in [Browsers -> TabRec] /\ left' \in [Uses -> Nat]
        /\ \A x \in Browsers : tab'[x] = tab[x] \/ (x = b /\ tab'[x] = [access |-> t, refresh |-> q.row])
    <2> HIDE DEF t
    <2> QED  BY <1>1, <1>6, <1>7, Parts, AnsweredIs
  <1>9. refused' \subseteq DOMAIN rows'
    BY <1>1, <1>3, Parts, Typed DEF Marked
  <1>10. TypeOK'
    BY <1>1, <1>3, <1>4, <1>5, <1>8, <1>9, Parts, Typed, MarkedTypes, TypeFrame
  <1>11. CookiesAgree'
    <2> HIDE DEF t
    <2> QED  BY <1>3, <1>6, <1>7, <1>8, CookiesAnswered DEF Marked
  <1>12. \A c, x \in Browsers : At(c, "rotated") /\ req'[c] = req[c] => tab'[x].refresh # req[c].row
    <2>1. \A c \in Browsers : At(c, "rotated") => req[c].row # q.row
      BY <1>6, Parts, Typed DEF RotatedInv, Carries, ReqRec
    <2> HIDE DEF t
    <2> QED  BY <1>8, <2>1, Parts
  <1>13. \A r \in refused' : r \in refused \/ Dead(rows[r].fam)'
    BY <1>1
  <1> QED  BY <1>3, <1>4, <1>5, <1>10, <1>11, <1>12, <1>13, Frame

LEMMA RefreshStep ==
  ASSUME Inv, NEW b \in Browsers, Refresh(b)
  PROVE  Inv'
  <1>0. PICK q \in ReqRec : q = req[b]
    BY Parts, Typed
  <1> DEFINE ro == roles_for_workspace(q.user, q.ws)
             t == mint(q.user, q.ws, ro, q.fam)
  <1>1. /\ At(b, "rotated") /\ Done(b) /\ Answered(b, t, q.row)
        /\ UNCHANGED <<clock, rows, methods, grants, deleted, ended, refused>>
    BY <1>0 DEF Refresh
  <1>3. Marked
    BY <1>1, Parts, SameMarked
  <1>4. /\ req' \in [Browsers -> ReqRec] /\ Going'
        /\ req'[b] = Idle /\ \A c \in Browsers : c # b => req'[c] = req[c]
        /\ \A c \in Browsers : req'[c] = req[c] \/ req'[c].pc \notin Holding
    BY <1>1, Parts, ReqTo, IdleReq, GoingTo DEF Done, Holding
  <1>6. /\ q.user \in Accounts /\ q.ws \in Workspaces /\ q.row \in DOMAIN rows /\ q.row \in Nat
        /\ rows[q.row].user = q.user /\ rows[q.row].ws = q.ws /\ rows[q.row].fam = q.fam /\ q.fam \in Nat
    BY <1>0, <1>1, Parts DEF Going, RotatedInv, Carries, At, ReqRec
  <1>7. t \in AccessRec /\ t.user = q.user /\ t.ws = q.ws /\ t.fam = q.fam
    <2>1. ro \in SUBSET (Roles \cup {"system_admin"})
      BY <1>6, Parts, RolesTyped
    <2> HIDE DEF ro
    <2> QED  BY <1>6, <2>1, Parts, MintTyped
  <1>8. /\ tab' \in [Browsers -> TabRec] /\ left' \in [Uses -> Nat]
        /\ \A x \in Browsers : tab'[x] = tab[x] \/ (x = b /\ tab'[x] = [access |-> t, refresh |-> q.row])
    <2> HIDE DEF t
    <2> QED  BY <1>1, <1>6, <1>7, Parts, AnsweredIs
  <1>10. TypeOK'
    BY <1>1, <1>4, <1>8, Parts, Typed, TypeFrame
  <1>11. CookiesAgree'
    <2> HIDE DEF t
    <2> QED  BY <1>1, <1>6, <1>7, <1>8, CookiesAnswered
  <1>12. \A c, x \in Browsers : At(c, "rotated") /\ req'[c] = req[c] => tab'[x].refresh # req[c].row
    <2>1. \A c \in Browsers : At(c, "rotated") /\ c # b => req[c].row # q.row
      BY <1>0, <1>1, Parts DEF RotatedInv
    <2>2. req'[b] # req[b]
      BY <1>1, <1>4, IdleReq DEF At
    <2> HIDE DEF t
    <2> QED  BY <1>4, <1>8, <2>1, <2>2, Parts
  <1>13. /\ \A r \in refused' : r \in refused \/ Dead(rows[r].fam)'
         /\ \A f \in ended' : f \in ended \/ (f <= Len(rows) /\ Dead(f)')
    BY <1>1
  <1> QED  BY <1>3, <1>4, <1>10, <1>11, <1>12, <1>13, Frame

-----------------------------------------------------------------------------
(* Rows that are added                                                     *)

LEMMA InsertIs ==
  ASSUME TypeOK, NEW u \in Accounts, NEW w \in Workspaces, NEW f \in Nat, f <= Len(rows) + 1,
         insert(u, w, f)
  PROVE  /\ rows' \in Seq(RowRec) /\ Len(rows') = Len(rows) + 1 /\ DOMAIN rows' = 1..(Len(rows) + 1)
         /\ \A i \in DOMAIN rows : i \in DOMAIN rows' /\ rows'[i] = rows[i]
         /\ rows'[Len(rows) + 1].user = u /\ rows'[Len(rows) + 1].ws = w
         /\ rows'[Len(rows) + 1].fam = f /\ ~rows'[Len(rows) + 1].rotated
         /\ \A i \in DOMAIN rows' : rows'[i].fam <= i /\ (i \in DOMAIN rows \/ i = Len(rows) + 1)
  <1> DEFINE r == Row(u, w, f)
  <1>1. /\ r \in RowRec /\ r.user = u /\ r.ws = w /\ r.fam = f /\ ~r.rotated
    <2>1. clock + RefreshLife \in Nat
      BY Typed, SignInAssumption
    <2> QED  BY <2>1 DEF Row, RowRec
  <1>2. rows' = Append(rows, r)
    BY DEF insert
  <1> HIDE DEF r
  <1>3. /\ rows' \in Seq(RowRec) /\ Len(rows') = Len(rows) + 1
        /\ \A i \in 1..Len(rows) : rows'[i] = rows[i]
        /\ rows'[Len(rows) + 1] = r
    BY <1>1, <1>2, Typed, AppendProperties
  <1>4. DOMAIN rows' = 1..(Len(rows) + 1)
    BY <1>3, LenProperties
  <1>5. \A i \in DOMAIN rows' : i \in DOMAIN rows \/ i = Len(rows) + 1
    <2>1. Len(rows) \in Nat /\ DOMAIN rows = 1..Len(rows)
      BY Typed
    <2> QED  BY <1>4, <2>1
  <1> QED  BY <1>1, <1>3, <1>4, <1>5, Typed

\* A family begun: nothing of the others changes.
LEMMA NewFamily ==
  ASSUME Inv, NEW u \in Accounts, NEW w \in Workspaces, issue(u, w),
         TypeOK', Going', CookiesAgree', UNCHANGED <<ended, refused>>,
         \A c \in Browsers :
            \/ req'[c] = req[c]
            \/ req'[c].pc \notin Holding
            \/ req'[c].pc = "selected" /\ req'[c].row = Len(rows) + 1 /\ req'[c].user = u /\ req'[c].ws = w,
         \A c, x \in Browsers : At(c, "rotated") /\ req'[c] = req[c] => tab'[x].refresh # req[c].row
  PROVE  Inv'
  <1> DEFINE n == Len(rows) + 1
  <1>0. TypeOK /\ FamilyOne /\ UnusedOne /\ RetiredInv /\ RotatedInv /\ SelectedInv /\ DeadInv
    BY Parts
  <1>1. /\ n \in Nat /\ n \notin DOMAIN rows /\ Len(rows') = n /\ n \in DOMAIN rows'
        /\ \A i \in DOMAIN rows : i \in DOMAIN rows' /\ rows'[i] = rows[i] /\ rows[i].fam # n
        /\ \A i \in DOMAIN rows' : i \in DOMAIN rows \/ i = n
        /\ rows'[n].user = u /\ rows'[n].ws = w /\ rows'[n].fam = n /\ ~rows'[n].rotated
        /\ n > Len(rows) /\ Len(rows) \in Nat
    <2>1. n \in Nat /\ n <= Len(rows) + 1 /\ insert(u, w, n)
      BY <1>0, Typed DEF issue
    <2>2. \A i \in DOMAIN rows : rows[i].fam # n
      BY <1>0, Typed DEF RowRec
    <2>3. n \notin DOMAIN rows /\ Len(rows) \in Nat /\ n > Len(rows)
      BY <1>0, Typed
    <2>4. n \in 1..(Len(rows) + 1)
      BY <1>0, Typed
    <2> QED  BY <1>0, <2>1, <2>2, <2>3, <2>4, InsertIs
  <1> HIDE DEF n
  <1>2. FamilyOne'
    BY <1>0, <1>1 DEF FamilyOne
  <1>3. UnusedOne'
    BY <1>0, <1>1 DEF UnusedOne
  <1>4. \A c \in Browsers : req'[c].pc \in {"retired", "rotated"} => req'[c] = req[c]
    BY DEF Holding
  <1>5. \A c \in Browsers : req'[c] = req[c] /\ Carries(c) => Carries(c)'
    BY <1>1 DEF Carries
  <1>6. RetiredInv'
    <2> SUFFICES ASSUME NEW b \in Browsers, At(b, "retired")'
                 PROVE  /\ Carries(b)' /\ (rows[req[b].row].fam = req[b].fam)'
                        /\ \A i \in DOMAIN rows' : rows'[i].fam = req'[b].fam => rows'[i].rotated
                        /\ \A c \in Browsers : At(c, "retired")' /\ req'[c].fam = req'[b].fam => c = b
      BY DEF RetiredInv
    <2>1. req'[b] = req[b] /\ At(b, "retired") /\ Carries(b) /\ rows[req[b].row].fam = req[b].fam
      BY <1>0, <1>4 DEF At, RetiredInv
    <2>2. req[b].fam # n
      BY <1>1, <2>1 DEF Carries
    <2>3. \A i \in DOMAIN rows' : rows'[i].fam = req'[b].fam => rows'[i].rotated
      BY <1>0, <1>1, <2>1, <2>2 DEF RetiredInv
    <2>4. \A c \in Browsers : At(c, "retired")' /\ req'[c].fam = req'[b].fam => c = b
      BY <1>0, <1>4, <2>1 DEF RetiredInv, At
    <2> QED  BY <1>1, <1>5, <2>1, <2>3, <2>4 DEF Carries
  <1>7. RotatedInv'
    <2> SUFFICES ASSUME NEW b \in Browsers, At(b, "rotated")'
                 PROVE  /\ Carries(b)' /\ (rows[req[b].row].fam = req[b].fam)' /\ (req[b].fam < req[b].row)'
                        /\ ~rows'[req'[b].row].rotated
                        /\ \A x \in Browsers : tab'[x].refresh # req'[b].row
                        /\ \A c \in Browsers : At(c, "rotated")' /\ req'[c].row = req'[b].row => c = b
      BY DEF RotatedInv
    <2>1. /\ req'[b] = req[b] /\ At(b, "rotated") /\ Carries(b) /\ rows[req[b].row].fam = req[b].fam
          /\ req[b].fam < req[b].row /\ ~rows[req[b].row].rotated
      BY <1>0, <1>4 DEF At, RotatedInv
    <2>2. rows'[req[b].row] = rows[req[b].row]
      BY <1>1, <2>1 DEF Carries
    <2>3. \A c \in Browsers : At(c, "rotated")' /\ req'[c].row = req'[b].row => c = b
      BY <1>0, <1>4, <2>1 DEF RotatedInv, At
    <2> QED  BY <1>5, <2>1, <2>2, <2>3
  <1>8. SelectedInv'
    <2> SUFFICES ASSUME NEW b \in Browsers, At(b, "selected")'
                 PROVE  Carries(b)' /\ (rows[req[b].row].fam = req[b].row)'
      BY DEF SelectedInv
    <2>1. CASE req'[b] = req[b]
      <3>1. Carries(b) /\ rows[req[b].row].fam = req[b].row
        BY <1>0, <2>1 DEF SelectedInv, At
      <3> QED  BY <1>1, <1>5, <2>1, <3>1 DEF Carries
    <2>2. CASE req'[b].row = n /\ req'[b].user = u /\ req'[b].ws = w
      BY <1>1, <2>2 DEF Carries
    <2> QED  BY <2>1, <2>2 DEF At, Holding, n
  <1>9. DeadInv'
    <2>1. ASSUME NEW f, Dead(f), f # n  PROVE Dead(f)'
      BY <1>1, <1>4, <2>1 DEF Dead, Between, At
    <2>2. \A f \in ended : f # n /\ f <= n
      BY <1>0, <1>1, Typed DEF DeadInv
    <2>3. \A r \in refused : rows[r].fam # n /\ rows'[r].fam = rows[r].fam
      BY <1>0, <1>1, Typed
    <2>4. \A f \in ended' : f <= Len(rows') /\ Dead(f)'
      BY <1>0, <1>1, <2>1, <2>2 DEF DeadInv
    <2>5. \A r \in refused : Dead(rows[r].fam)'
      <3> TAKE r \in refused
      <3>1. PICK f : f = rows[r].fam
        OBVIOUS
      <3>2. Dead(f)' /\ rows'[r].fam = f
        BY <1>0, <2>1, <2>3, <3>1 DEF DeadInv
      <3> QED  BY <3>2
    <2> QED  BY <2>4, <2>5 DEF DeadInv
  <1> QED  BY <1>2, <1>3, <1>6, <1>7, <1>8, <1>9 DEF Inv

LEMMA IssueStep ==
  ASSUME Inv, NEW b \in Browsers, Issue(b)
  PROVE  Inv'
  <1>0. PICK q \in ReqRec : q = req[b]
    BY Parts, Typed
  <1>a. PICK n \in Nat : n = Len(rows) + 1
    BY Parts, Typed
  <1> DEFINE t == mint(q.user, q.ws, q.roles, n)
  <1>1. /\ At(b, "chosen") /\ issue(q.user, q.ws) /\ Done(b) /\ Answered(b, t, n)
        /\ UNCHANGED <<clock, methods, grants, deleted, ended, refused>>
    BY <1>0, <1>a DEF Issue
  <1>2. q.user \in Accounts /\ q.ws \in Workspaces /\ q.roles \in SUBSET (Roles \cup {"system_admin"})
    BY <1>0, <1>1, Parts DEF Going, At, ReqRec
  <1>3. /\ rows' \in Seq(RowRec) /\ DOMAIN rows' = 1..n /\ n \in DOMAIN rows'
        /\ \A i \in DOMAIN rows : i \in DOMAIN rows' /\ rows'[i] = rows[i]
        /\ rows'[n].user = q.user /\ rows'[n].ws = q.ws /\ rows'[n].fam = n
        /\ \A i \in DOMAIN rows' : rows'[i].fam <= i
    <2>1. insert(q.user, q.ws, n) /\ n <= Len(rows) + 1
      BY <1>1, <1>a DEF issue
    <2>2. n \in 1..n
      BY <1>a, Parts, Typed
    <2> QED  BY <1>2, <1>a, <2>1, <2>2, Parts, InsertIs
  <1>4. /\ req' \in [Browsers -> ReqRec] /\ Going'
        /\ \A c \in Browsers : req'[c] = req[c] \/ req'[c].pc \notin Holding
    BY <1>1, Parts, ReqTo, IdleReq, GoingTo DEF Done, Holding
  <1>5. t \in AccessRec /\ t.user = q.user /\ t.ws = q.ws /\ t.fam = n
    BY <1>2, Parts, MintTyped
  <1> HIDE DEF t
  <1>6. /\ tab' \in [Browsers -> TabRec] /\ left' \in [Uses -> Nat]
        /\ \A x \in Browsers : tab'[x] = tab[x] \/ (x = b /\ tab'[x] = [access |-> t, refresh |-> n])
    BY <1>1, <1>5, Parts, AnsweredIs
  <1>7. refused' \subseteq DOMAIN rows'
    BY <1>1, <1>3, Parts, Typed
  <1>8. TypeOK'
    BY <1>1, <1>3, <1>4, <1>6, <1>7, Parts, Typed, TypeFrame
  <1>9. CookiesAgree'
    BY <1>3, <1>5, <1>6, CookiesAnswered
  <1>10. \A c, x \in Browsers : At(c, "rotated") /\ req'[c] = req[c] => tab'[x].refresh # req[c].row
    <2>1. \A c \in Browsers : At(c, "rotated") => req[c].row # n
      BY <1>a, Parts, Typed DEF RotatedInv, Carries
    <2> QED  BY <1>6, <2>1, Parts
  <1> QED  BY <1>1, <1>2, <1>4, <1>8, <1>9, <1>10, NewFamily

LEMMA MoveStep ==
  ASSUME Inv, NEW b \in Browsers, Move(b)
  PROVE  Inv'
  <1>0. PICK q \in ReqRec : q = req[b]
    BY Parts, Typed
  <1>a. PICK n \in Nat : n = Len(rows) + 1
    BY Parts, Typed
  <1> DEFINE r == [q EXCEPT !.pc = "selected", !.row = n]
  <1>1. /\ At(b, "moving") /\ issue(q.user, q.ws) /\ req' = [req EXCEPT ![b] = r]
        /\ UNCHANGED <<clock, methods, grants, deleted, tab, ended, refused, left>>
    BY <1>0, <1>a, Parts, Typed DEF Move
  <1>2. q.user \in Accounts /\ q.ws \in Workspaces
    BY <1>0, <1>1, Parts DEF Going, At
  <1>b. r \in ReqRec /\ r.pc = "selected" /\ r.row = n /\ r.user = q.user /\ r.ws = q.ws
    BY DEF ReqRec, ReqStates
  <1> HIDE DEF r
  <1>3. /\ rows' \in Seq(RowRec)
        /\ \A i \in DOMAIN rows : i \in DOMAIN rows' /\ rows'[i] = rows[i]
        /\ \A i \in DOMAIN rows' : rows'[i].fam <= i
    <2>1. insert(q.user, q.ws, n) /\ n <= Len(rows) + 1
      BY <1>1, <1>a DEF issue
    <2> QED  BY <1>2, <1>a, <2>1, Parts, InsertIs
  <1>4. /\ req' \in [Browsers -> ReqRec] /\ Going' /\ req'[b] = r
        /\ \A c \in Browsers : c # b => req'[c] = req[c]
    BY <1>1, <1>2, <1>b, Parts, ReqTo, GoingTo
  <1>7. refused' \subseteq DOMAIN rows'
    BY <1>1, <1>3, Parts, Typed
  <1>8. TypeOK'
    BY <1>1, <1>3, <1>4, <1>7, Parts, Typed, TypeFrame
  <1>9. CookiesAgree'
    BY <1>1, <1>3, Parts DEF CookiesAgree
  <1>10. \A c, x \in Browsers : At(c, "rotated") /\ req'[c] = req[c] => tab'[x].refresh # req[c].row
    BY <1>1, Parts
  <1>11. \A c \in Browsers :
            \/ req'[c] = req[c]
            \/ req'[c].pc \notin Holding
            \/ /\ req'[c].pc = "selected" /\ req'[c].row = Len(rows) + 1
               /\ req'[c].user = q.user /\ req'[c].ws = q.ws
    BY <1>a, <1>b, <1>4
  <1> QED  BY <1>1, <1>2, <1>8, <1>9, <1>4, <1>10, <1>11, NewFamily

-----------------------------------------------------------------------------
(* A rotation                                                              *)

\* The row is used, and while it is followed nothing of its family is left
\* unused.
LEMMA RotateStep ==
  ASSUME Inv, NEW b \in Browsers, NEW k \in DOMAIN rows, Rotate(b, k)
  PROVE  Inv'
  <1>0. /\ TypeOK /\ FamilyOne /\ UnusedOne /\ RetiredInv /\ RotatedInv /\ SelectedInv /\ DeadInv
        /\ CookiesAgree /\ Going
    BY Parts
  <1> DEFINE f == rows[k].fam
             r == [Idle EXCEPT !.pc = "retired", !.row = k, !.user = rows[k].user,
                      !.ws = rows[k].ws, !.fam = rows[k].fam]
  <1>1. /\ At(b, "idle") /\ ~rows[k].rotated /\ k \in Kept
        /\ \E x \in Browsers : tab[x].refresh = k
        /\ rows' = [rows EXCEPT ![k].rotated = TRUE]
        /\ UNCHANGED <<clock, methods, grants, deleted, tab, ended, refused>>
        /\ Done(b) \/ (~rows[k].revoked /\ req' = [req EXCEPT ![b] = r])
        /\ left' \in [Uses -> Nat]
    <2>1. left' \in [Uses -> Nat]
      BY <1>0, SpendIs DEF Rotate, Uses
    <2> QED  BY <2>1 DEF Rotate, Takes, Presented, Retired
  <1>2. rows[k] \in RowRec /\ k \in Nat /\ Len(rows) \in Nat /\ DOMAIN rows = 1..Len(rows)
    BY <1>0, Typed
  <1>3. /\ r \in ReqRec /\ r.pc = "retired" /\ r.row = k /\ r.user = rows[k].user
        /\ r.ws = rows[k].ws /\ r.fam = f /\ r.user \in Accounts /\ r.ws \in Workspaces
    BY <1>2 DEF Idle, ReqRec, ReqStates, RowRec
  <1> HIDE DEF r
  <1>4. /\ rows' \in Seq(RowRec) /\ Len(rows') = Len(rows) /\ DOMAIN rows' = DOMAIN rows
        /\ rows'[k] = [rows[k] EXCEPT !.rotated = TRUE]
        /\ \A i \in DOMAIN rows : i # k => rows'[i] = rows[i]
    <2>1. [rows[k] EXCEPT !.rotated = TRUE] \in RowRec
      BY <1>2 DEF RowRec
    <2>2. rows' = [rows EXCEPT ![k] = [rows[k] EXCEPT !.rotated = TRUE]]
      BY <1>1
    <2>3. rows \in Seq(RowRec) /\ k \in 1..Len(rows)
      BY <1>0, <1>2, Typed
    <2> DEFINE e == [rows[k] EXCEPT !.rotated = TRUE]
    <2>4. e \in RowRec /\ rows' = [rows EXCEPT ![k] = e]
      BY <2>1, <2>2
    <2> HIDE DEF e
    <2>5. rows' \in Seq(RowRec) /\ Len(rows') = Len(rows)
          /\ \A j \in 1..Len(rows) : rows'[j] = IF j = k THEN e ELSE rows[j]
      BY <2>3, <2>4, ExceptSeq
    <2>6. DOMAIN rows' = 1..Len(rows)
      BY <2>5, LenProperties
    <2> QED  BY <1>2, <2>3, <2>5, <2>6 DEF e
  <1>5. \A i \in DOMAIN rows :
          /\ rows'[i].user = rows[i].user /\ rows'[i].ws = rows[i].ws /\ rows'[i].fam = rows[i].fam
          /\ rows'[i].revoked = rows[i].revoked /\ rows'[i].gone = rows[i].gone
          /\ rows'[i].rotated = (rows[i].rotated \/ i = k)
    <2> TAKE i \in DOMAIN rows
    <2>1. CASE i = k
      BY <1>1, <1>2, <1>4, <2>1 DEF RowRec
    <2>2. CASE i # k
      <3>1. rows[i] \in RowRec
        BY <1>0, Typed
      <3> QED  BY <1>4, <2>2, <3>1 DEF RowRec
    <2> QED  BY <2>1, <2>2
  <1>6. /\ req' \in [Browsers -> ReqRec] /\ Going'
        /\ req'[b] = Idle \/ (req'[b] = r /\ ~rows[k].revoked)
        /\ \A c \in Browsers : c # b => req'[c] = req[c]
    <2>1. CASE Done(b)
      BY <1>0, <2>1, ReqTo, IdleReq, GoingTo DEF Done
    <2>2. CASE ~rows[k].revoked /\ req' = [req EXCEPT ![b] = r]
      BY <1>0, <1>3, <2>2, ReqTo, GoingTo
    <2> QED  BY <1>1, <2>1, <2>2
  <1>7. TypeOK'
    <2>1. \A i \in DOMAIN rows' : rows'[i].fam <= i
      BY <1>0, <1>4, <1>5, Typed
    <2>2. refused' \subseteq DOMAIN rows'
      BY <1>0, <1>1, <1>4, Typed
    <2> QED  BY <1>0, <1>1, <1>4, <1>6, <2>1, <2>2, Typed, TypeFrame
  <1>8. FamilyOne' /\ UnusedOne'
    <2>1. FamilyOne'
      BY <1>0, <1>4, <1>5 DEF FamilyOne
    <2>2. \A i \in DOMAIN rows' : ~rows'[i].rotated => ~rows[i].rotated /\ rows'[i].fam = rows[i].fam
      BY <1>4, <1>5
    <2>3. UnusedOne'
      BY <1>0, <1>4, <2>2 DEF UnusedOne
    <2> QED  BY <2>1, <2>3
  <1>9. \A i \in DOMAIN rows : rows[i].fam = f => rows'[i].rotated
    BY <1>0, <1>1, <1>5 DEF UnusedOne
  <1>10. \A c \in Browsers : At(c, "retired") => req[c].fam # f
    BY <1>0, <1>1 DEF RetiredInv
  <1>11. \A c \in Browsers : c # b /\ Carries(c) => Carries(c)'
    BY <1>4, <1>5, <1>6 DEF Carries
  <1>12. RetiredInv'
    <2> SUFFICES ASSUME NEW c \in Browsers, req'[c].pc = "retired"
                 PROVE  /\ Carries(c)' /\ rows'[req'[c].row].fam = req'[c].fam
                        /\ \A i \in DOMAIN rows' : rows'[i].fam = req'[c].fam => rows'[i].rotated
                        /\ \A d \in Browsers : req'[d].pc = "retired" /\ req'[d].fam = req'[c].fam => d = c
      BY DEF RetiredInv, At
    <2>1. CASE c = b
      <3>1. req'[b] = r
        BY <1>6, <2>1, IdleReq
      <3>2. \A d \in Browsers : req'[d].pc = "retired" /\ req'[d].fam = f => d = b
        BY <1>6, <1>10 DEF At
      <3> QED  BY <1>3, <1>4, <1>5, <1>9, <2>1, <3>1, <3>2 DEF Carries
    <2>2. CASE c # b
      <3>1. /\ req'[c] = req[c] /\ At(c, "retired") /\ Carries(c) /\ rows[req[c].row].fam = req[c].fam
            /\ \A i \in DOMAIN rows : rows[i].fam = req[c].fam => rows[i].rotated
            /\ req[c].fam # f
        BY <1>0, <1>6, <1>10, <2>2 DEF RetiredInv, At
      <3>2. \A d \in Browsers : req'[d].pc = "retired" /\ req'[d].fam = req[c].fam => d = c
        BY <1>0, <1>3, <1>6, <3>1, IdleReq DEF RetiredInv, At
      <3>3. rows'[req[c].row].fam = rows[req[c].row].fam
        BY <1>5, <3>1 DEF Carries
      <3>4. \A i \in DOMAIN rows' : rows'[i].fam = req[c].fam => rows'[i].rotated
        BY <1>4, <1>5, <3>1
      <3> QED  BY <1>11, <2>2, <3>1, <3>2, <3>3, <3>4
    <2> QED  BY <2>1, <2>2
  <1>13. RotatedInv'
    <2> SUFFICES ASSUME NEW c \in Browsers, req'[c].pc = "rotated"
                 PROVE  /\ Carries(c)' /\ rows'[req'[c].row].fam = req'[c].fam /\ req'[c].fam < req'[c].row
                        /\ ~rows'[req'[c].row].rotated
                        /\ \A x \in Browsers : tab'[x].refresh # req'[c].row
                        /\ \A d \in Browsers : req'[d].pc = "rotated" /\ req'[d].row = req'[c].row => d = c
      BY DEF RotatedInv, At
    <2>1. c # b
      BY <1>3, <1>6, IdleReq
    <2>2. /\ req'[c] = req[c] /\ At(c, "rotated") /\ Carries(c) /\ rows[req[c].row].fam = req[c].fam
          /\ req[c].fam < req[c].row /\ ~rows[req[c].row].rotated
          /\ \A x \in Browsers : tab[x].refresh # req[c].row
      BY <1>0, <1>6, <2>1 DEF RotatedInv, At
    <2>3. req[c].row # k
      BY <1>1, <2>2
    <2>4. \A d \in Browsers : req'[d].pc = "rotated" /\ req'[d].row = req[c].row => d = c
      BY <1>0, <1>3, <1>6, <2>2, IdleReq DEF RotatedInv, At
    <2>5. rows'[req[c].row] = rows[req[c].row]
      BY <1>4, <2>2, <2>3 DEF Carries
    <2> QED  BY <1>1, <1>11, <2>1, <2>2, <2>4, <2>5
  <1>14. SelectedInv'
    <2> SUFFICES ASSUME NEW c \in Browsers, req'[c].pc = "selected"
                 PROVE  Carries(c)' /\ rows'[req'[c].row].fam = req'[c].row
      BY DEF SelectedInv, At
    <2>1. c # b
      BY <1>3, <1>6, IdleReq
    <2>2. req'[c] = req[c] /\ Carries(c) /\ rows[req[c].row].fam = req[c].row
      BY <1>0, <1>6, <2>1 DEF SelectedInv, At
    <2>3. rows'[req[c].row].fam = rows[req[c].row].fam
      BY <1>5, <2>2 DEF Carries
    <2> QED  BY <1>11, <2>1, <2>2, <2>3
  <1>15. DeadInv'
    <2>1. ASSUME NEW g, Dead(g)  PROVE Dead(g)'
      <3>1. \A i \in DOMAIN rows' : rows'[i].fam = g => rows'[i].rotated \/ rows'[i].revoked \/ rows'[i].gone
        BY <1>4, <1>5, <2>1 DEF Dead
      <3>2. ~Between(g)'
        <4> SUFFICES ASSUME NEW c \in Browsers, req'[c].pc = "retired", req'[c].fam = g  PROVE FALSE
          BY DEF Between, At
        <4>1. CASE c = b
          <5>1. req'[b] = r /\ ~rows[k].revoked
            BY <1>6, <4>1, IdleReq
          <5>2. rows[k].fam = g /\ ~rows[k].gone
            BY <1>1, <1>3, <4>1, <5>1 DEF Kept
          <5> QED  BY <1>1, <2>1, <5>1, <5>2 DEF Dead
        <4>2. CASE c # b
          BY <1>6, <2>1, <4>2 DEF Dead, Between, At
        <4> QED  BY <4>1, <4>2
      <3> QED  BY <3>1, <3>2 DEF Dead
    <2>2. \A g \in ended' : g <= Len(rows') /\ Dead(g)'
      BY <1>0, <1>1, <1>4, <2>1 DEF DeadInv
    <2>3. \A q \in refused : Dead(rows[q].fam)'
      <3> TAKE q \in refused
      <3>1. PICK g : g = rows[q].fam
        OBVIOUS
      <3>2. Dead(g)' /\ rows'[q].fam = g
        BY <1>0, <1>5, <2>1, <3>1, Typed DEF DeadInv
      <3> QED  BY <3>2
    <2> QED  BY <1>1, <2>2, <2>3 DEF DeadInv
  <1>16. CookiesAgree'
    BY <1>0, <1>1, <1>4, <1>5 DEF CookiesAgree
  <1> QED  BY <1>6, <1>7, <1>8, <1>12, <1>13, <1>14, <1>15, <1>16 DEF Inv

\* The successor of the row that was used: the one unused row of its family.
LEMMA SucceedStep ==
  ASSUME Inv, NEW b \in Browsers, Succeed(b)
  PROVE  Inv'
  <1>0. /\ TypeOK /\ FamilyOne /\ UnusedOne /\ RetiredInv /\ RotatedInv /\ SelectedInv /\ DeadInv
        /\ CookiesAgree /\ Going
    BY Parts
  <1>q. PICK q \in ReqRec : q = req[b]
    BY <1>0, Typed
  <1>n. PICK n \in Nat : n = Len(rows) + 1
    BY <1>0, Typed
  <1> DEFINE r == [q EXCEPT !.pc = "rotated", !.row = n]
  <1>1. /\ At(b, "retired") /\ insert(q.user, q.ws, q.fam) /\ req' = [req EXCEPT ![b] = r]
        /\ UNCHANGED <<clock, methods, grants, deleted, tab, ended, refused, left>>
    BY <1>q, <1>n, <1>0, Typed DEF Succeed
  <1>2. /\ q.user \in Accounts /\ q.ws \in Workspaces /\ q.row \in DOMAIN rows /\ rows[q.row].fam = q.fam
        /\ rows[q.row].user = q.user /\ rows[q.row].ws = q.ws
        /\ \A i \in DOMAIN rows : rows[i].fam = q.fam => rows[i].rotated
        /\ \A c \in Browsers : At(c, "retired") /\ req[c].fam = q.fam => c = b
    BY <1>q, <1>0, <1>1 DEF Going, At, RetiredInv, Carries
  <1>3. /\ r \in ReqRec /\ r.pc = "rotated" /\ r.row = n /\ r.user = q.user /\ r.ws = q.ws /\ r.fam = q.fam
    BY DEF ReqRec, ReqStates
  <1> HIDE DEF r
  <1>4. q.fam \in Nat /\ q.fam <= Len(rows) /\ q.fam < n /\ Len(rows) \in Nat /\ n \notin DOMAIN rows
    BY <1>0, <1>2, <1>n, Typed DEF ReqRec
  <1>5. /\ rows' \in Seq(RowRec) /\ Len(rows') = n /\ n \in DOMAIN rows'
        /\ \A i \in DOMAIN rows : i \in DOMAIN rows' /\ rows'[i] = rows[i]
        /\ \A i \in DOMAIN rows' : rows'[i].fam <= i /\ (i \in DOMAIN rows \/ i = n)
        /\ rows'[n].user = q.user /\ rows'[n].ws = q.ws /\ rows'[n].fam = q.fam /\ ~rows'[n].rotated
    <2>1. q.fam <= Len(rows) + 1 /\ n \in 1..(Len(rows) + 1)
      BY <1>4, <1>n
    <2> QED  BY <1>0, <1>1, <1>2, <1>4, <1>n, <2>1, InsertIs
  <1>6. /\ req' \in [Browsers -> ReqRec] /\ Going' /\ req'[b] = r
        /\ \A c \in Browsers : c # b => req'[c] = req[c]
    BY <1>0, <1>1, <1>2, <1>3, ReqTo, GoingTo
  <1>7. TypeOK'
    <2>1. refused' \subseteq DOMAIN rows'
      BY <1>0, <1>1, <1>5, Typed
    <2> QED  BY <1>0, <1>1, <1>5, <1>6, <2>1, Typed, TypeFrame
  <1>8. FamilyOne'
    <2>1. \A i \in DOMAIN rows : rows[i].fam = q.fam => rows[i].user = q.user /\ rows[i].ws = q.ws
      BY <1>0, <1>2 DEF FamilyOne
    <2> QED  BY <1>0, <1>5, <2>1 DEF FamilyOne
  <1>9. UnusedOne'
    BY <1>0, <1>2, <1>5 DEF UnusedOne
  <1>10. \A c \in Browsers : c # b /\ Carries(c) => Carries(c)' /\ rows'[req'[c].row] = rows[req[c].row]
    BY <1>5, <1>6 DEF Carries
  <1>11. RetiredInv'
    <2> SUFFICES ASSUME NEW c \in Browsers, req'[c].pc = "retired"
                 PROVE  /\ Carries(c)' /\ rows'[req'[c].row].fam = req'[c].fam
                        /\ \A i \in DOMAIN rows' : rows'[i].fam = req'[c].fam => rows'[i].rotated
                        /\ \A d \in Browsers : req'[d].pc = "retired" /\ req'[d].fam = req'[c].fam => d = c
      BY DEF RetiredInv, At
    <2>1. c # b
      BY <1>3, <1>6
    <2>2. /\ req'[c] = req[c] /\ At(c, "retired") /\ Carries(c) /\ rows[req[c].row].fam = req[c].fam
          /\ \A i \in DOMAIN rows : rows[i].fam = req[c].fam => rows[i].rotated
          /\ req[c].fam # q.fam
      BY <1>0, <1>2, <1>6, <2>1 DEF RetiredInv, At
    <2>3. \A d \in Browsers : req'[d].pc = "retired" /\ req'[d].fam = req[c].fam => d = c
      BY <1>0, <1>3, <1>6, <2>2 DEF RetiredInv, At
    <2>4. \A i \in DOMAIN rows' : rows'[i].fam = req[c].fam => rows'[i].rotated
      BY <1>5, <2>2
    <2> QED  BY <1>10, <2>1, <2>2, <2>3, <2>4
  <1>12. RotatedInv'
    <2> SUFFICES ASSUME NEW c \in Browsers, req'[c].pc = "rotated"
                 PROVE  /\ Carries(c)' /\ rows'[req'[c].row].fam = req'[c].fam /\ req'[c].fam < req'[c].row
                        /\ ~rows'[req'[c].row].rotated
                        /\ \A x \in Browsers : tab'[x].refresh # req'[c].row
                        /\ \A d \in Browsers : req'[d].pc = "rotated" /\ req'[d].row = req'[c].row => d = c
      BY DEF RotatedInv, At
    <2>1. \A d \in Browsers : At(d, "rotated") => req[d].row # n
      BY <1>0, <1>4 DEF RotatedInv, Carries
    <2>2. CASE c = b
      <3>1. \A x \in Browsers : tab'[x].refresh # n
        <4>1. \A x \in Browsers : tab[x].refresh # 0 => tab[x].refresh \in DOMAIN rows
          BY <1>0 DEF CookiesAgree, NoRefresh
        <4>2. n # 0
          BY <1>4, <1>n
        <4> QED  BY <1>1, <1>4, <4>1, <4>2
      <3>2. \A d \in Browsers : req'[d].pc = "rotated" /\ req'[d].row = n => d = b
        BY <1>6, <2>1 DEF At
      <3> QED  BY <1>3, <1>4, <1>5, <1>6, <2>2, <3>1, <3>2 DEF Carries
    <2>3. CASE c # b
      <3>1. /\ req'[c] = req[c] /\ At(c, "rotated") /\ Carries(c) /\ rows[req[c].row].fam = req[c].fam
            /\ req[c].fam < req[c].row /\ ~rows[req[c].row].rotated
            /\ \A x \in Browsers : tab[x].refresh # req[c].row
        BY <1>0, <1>6, <2>3 DEF RotatedInv, At
      <3>2. \A d \in Browsers : req'[d].pc = "rotated" /\ req'[d].row = req[c].row => d = c
        BY <1>0, <1>3, <1>6, <2>1, <3>1 DEF RotatedInv, At
      <3> QED  BY <1>1, <1>10, <2>3, <3>1, <3>2
    <2> QED  BY <2>2, <2>3
  <1>13. SelectedInv'
    <2> SUFFICES ASSUME NEW c \in Browsers, req'[c].pc = "selected"
                 PROVE  Carries(c)' /\ rows'[req'[c].row].fam = req'[c].row
      BY DEF SelectedInv, At
    <2>1. c # b
      BY <1>3, <1>6
    <2>2. req'[c] = req[c] /\ Carries(c) /\ rows[req[c].row].fam = req[c].row
      BY <1>0, <1>6, <2>1 DEF SelectedInv, At
    <2> QED  BY <1>10, <2>1, <2>2
  <1>14. DeadInv'
    <2>1. ASSUME NEW g, Dead(g)  PROVE Dead(g)'
      <3>1. g # q.fam
        BY <1>1, <1>q, <2>1 DEF Dead, Between
      <3>2. \A i \in DOMAIN rows' : rows'[i].fam = g => rows'[i].rotated \/ rows'[i].revoked \/ rows'[i].gone
        BY <1>5, <2>1, <3>1 DEF Dead
      <3>3. ~Between(g)'
        BY <1>3, <1>6, <2>1 DEF Dead, Between, At
      <3> QED  BY <3>2, <3>3 DEF Dead
    <2>2. \A g \in ended' : g <= Len(rows') /\ Dead(g)'
      <3>1. \A g \in ended : g \in Nat /\ g <= Len(rows) /\ Dead(g)
        BY <1>0, Typed DEF DeadInv
      <3> QED  BY <1>1, <1>4, <1>5, <1>n, <2>1, <3>1
    <2>3. \A k \in refused : Dead(rows[k].fam)'
      <3> TAKE k \in refused
      <3>1. PICK g : g = rows[k].fam
        OBVIOUS
      <3>2. Dead(g)' /\ rows'[k].fam = g
        BY <1>0, <1>5, <2>1, <3>1, Typed DEF DeadInv
      <3> QED  BY <3>2
    <2> QED  BY <1>1, <2>2, <2>3 DEF DeadInv
  <1>15. CookiesAgree'
    BY <1>0, <1>1, <1>5 DEF CookiesAgree
  <1> QED  BY <1>6, <1>7, <1>8, <1>9, <1>11, <1>12, <1>13, <1>14, <1>15 DEF Inv

-----------------------------------------------------------------------------
(* The theorems                                                            *)

\* The inductive invariant holds in every reachable state.
THEOREM Invariance == Spec => []Inv
  <1>1. Init => Inv
    <2> SUFFICES ASSUME Init  PROVE Inv
      OBVIOUS
    <2>1. /\ rows = <<>> /\ rows \in Seq(RowRec) /\ DOMAIN rows = {} /\ Len(rows) = 0
      BY EmptySeq DEF Init
    <2>2. NoAccess \in AccessRec /\ NoRefresh \in Nat /\ [access |-> NoAccess, refresh |-> NoRefresh] \in TabRec
      BY DEF NoAccess, NoRefresh, AccessRec, TabRec
    <2>3. tab \in [Browsers -> TabRec] /\ req \in [Browsers -> ReqRec] /\ \A b \in Browsers : req[b] = Idle
      BY <2>2, IdleReq DEF Init
    <2>4. TypeOK
      BY <2>1, <2>3, SignInAssumption DEF Init, TypeOK, TabRec, AccessRec, ReqRec
    <2>5. CookiesAgree
      BY DEF Init, CookiesAgree
    <2>6. Going /\ RetiredInv /\ RotatedInv /\ SelectedInv
      BY <2>3, IdleReq DEF Going, RetiredInv, RotatedInv, SelectedInv, At
    <2>7. FamilyOne /\ UnusedOne /\ DeadInv
      BY <2>1 DEF Init, FamilyOne, UnusedOne, DeadInv
    <2> QED  BY <2>4, <2>5, <2>6, <2>7 DEF Inv
  <1>2. Inv /\ [Next]_vars => Inv'
    <2> SUFFICES ASSUME Inv, [Next]_vars  PROVE Inv'
      OBVIOUS
    <2>1. CASE UNCHANGED vars
      <3>1. UNCHANGED <<rows, tab, ended, refused, clock, deleted, req, methods, grants, left>>
        BY <2>1 DEF vars
      <3> QED  BY <3>1, Parts, Typed, Quiet, GoingSame
    <2>2. CASE Tick \/ sweep_expired
      BY <2>2, TickStep, SweepStep
    <2>3. CASE \E u \in Accounts, w \in Workspaces : Regrant(u, w)
      BY <2>3, RegrantStep
    <2>4. ASSUME NEW b \in Browsers, NEW u \in Accounts, NEW m \in Methods, Login(b, u, m)
          PROVE  Inv'
      BY <2>4, LoginStep
    <2>5. ASSUME NEW b \in Browsers, NEW w \in Workspaces, Choose(b, w) \/ Select(b, w)
          PROVE  Inv'
      BY <2>5, ChooseStep, SelectStep
    <2>6. ASSUME NEW b \in Browsers,
                 Orphaned(b) \/ Issue(b) \/ Succeed(b) \/ Refresh(b) \/ Refuse(b) \/ Move(b) \/ Drop(b)
          PROVE  Inv'
      BY <2>6, OrphanedStep, IssueStep, SucceedStep, RefreshStep, RefuseStep, MoveStep, DropStep
    <2>7. ASSUME NEW b \in Browsers, NEW r \in DOMAIN rows, Rotate(b, r) \/ Replay(b, r)
          PROVE  Inv'
      BY <2>7, RotateStep, ReplayStep
    <2>8. ASSUME NEW b \in Browsers,
                 Logout(b) \/ Selected(b) \/ Changed(b) \/ Removing(b) \/ Removed(b)
          PROVE  Inv'
      BY <2>8, LogoutStep, SelectedStep, ChangedStep, RemovingStep, RemovedStep
    <2>9. ASSUME NEW b \in Browsers, NEW u \in Accounts, NEW m \in Methods, NEW proved \in BOOLEAN,
                 \/ SetPassword(b, u, m, proved) \/ AddIdentity(b, u, m, proved)
                 \/ RemoveIdentity(b, u, m, proved)
          PROVE  Inv'
      BY <2>9, SetPasswordStep, AddIdentityStep, RemoveIdentityStep
    <2>10. ASSUME NEW b \in Browsers, NEW u \in Accounts, DeleteUser(b, u)
           PROVE  Inv'
      BY <2>10, DeleteUserStep
    <2> QED  BY <2>1, <2>2, <2>3, <2>4, <2>5, <2>6, <2>7, <2>8, <2>9, <2>10 DEF Next
  <1> QED  BY <1>1, <1>2, PTL DEF Spec

\* For any number of browsers and accounts, whatever answers are lost, copies
\* presented again and requests dropped half way: a refresh token has one
\* successor, a family that was ended or refused gives no session again, and
\* the cookies of a browser are of one session.
THEOREM Sessions == Spec => []SessionsSound
  <1>1. Inv => SessionsSound
    <2> SUFFICES ASSUME Inv  PROVE SessionsSound
      OBVIOUS
    <2>1. OneUnused
      BY Parts DEF OneUnused, UnusedOne, RetiredInv, Between, Kept
    <2>2. EndedStays /\ RefusedStays
      BY Parts DEF EndedStays, RefusedStays, DeadInv, Dead, usable, OfFamily, Kept
    <2> QED  BY <2>1, <2>2, Parts DEF SessionsSound
  <1> QED  BY <1>1, Invariance, PTL
=============================================================================
