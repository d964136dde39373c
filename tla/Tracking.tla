------------------------------- MODULE Tracking ------------------------------
(***************************************************************************)
(* One configured model kept current with the catalog, the values set for it *)
(* at each place, the questions asked about it, and its account's key:       *)
(* keeping a catalog, the tracking pass, approving what waits, configuring   *)
(* and deleting the model (api/tracking.rs, catalog.rs, models.rs,           *)
(* settings/postgres.rs, core/catalog.rs, core/model_settings.rs).  Versions *)
(* are numbered by release, values by how much they ask; a version's facts   *)
(* are which values it takes.  A step of a request is one statement or       *)
(* transaction.                                                              *)
(***************************************************************************)
EXTENDS Integers, Sequences, FiniteSets

CONSTANTS Versions, Settled, Accepts, Places, Hosts, Asks, Calls, Faults, First, Starts, None, Kept,
    MaxSnapshots

Requests == 1..Asks
Values == UNION {Accepts[v] : v \in Versions}
Ops == {"keep", "startup", "tracks", "approve", "set", "unset", "create", "delete", "link", "unlink",
        "forget", "seal", "move", "env", "leave"}

\* What is taken of the constants: First is the catalog a deployment starts with.
TrackingAssumption ==
    /\ Versions \subseteq Nat \ {0} /\ Settled \subseteq Versions /\ First \subseteq Versions
    /\ Accepts \in [Versions -> SUBSET Nat] /\ \A v \in Versions : Accepts[v] # {}
    /\ Asks \in Nat /\ Faults \in Nat /\ Kept \in Nat \ {0} /\ MaxSnapshots \in Nat
    /\ \A c \in Calls : c.do \in Ops /\ c.held \subseteq Versions

VARIABLES snapshots,  \* catalog_snapshots as kept: the versions each lists, or None once forgotten
          model,      \* the model's row, or None
          over,       \* setting_overrides for the model, by place: a value, as what and who set it, or None
          items,      \* action items about it, in the order raised
          account,    \* its account: its host, the one its key is sealed for, whether it names a variable
          linked,     \* whether a chain names the model
          ask,        \* requests, numbered as they are asked
          faults      \* processes that may still die

vars == <<snapshots, model, over, items, account, linked, ask, faults>>

Least(S) == CHOOSE n \in S : \A m \in S : n <= m
Row(v, s, tracks) == [v |-> v, prev |-> 0, snapshot |-> s, tracks |-> tracks, pending |-> 0,
    shown |-> {}]
Unasked == [pc |-> "unasked", call |-> None, after |-> {}, said |-> None, held |-> {},
            snapshot |-> 0, on |-> 0, pending |-> 0, tracks |-> FALSE, next |-> 0, changes |-> {},
            todo |-> {}, then |-> "done"]

Init ==
    /\ snapshots = <<First>>
    /\ \E s \in Starts : model = s.model /\ over = s.over /\ items = s.items
    /\ \E h \in Hosts : account = [host |-> h, key |-> None, env |-> FALSE]
    /\ linked = FALSE /\ ask = [q \in Requests |-> Unasked] /\ faults = Faults

At(q, pc) == ask[q].pc = pc
Goes(q, r) == ask' = [ask EXCEPT ![q] = r]
Moves(q, pc) == Goes(q, [ask[q] EXCEPT !.pc = pc])
Says(q, what) == Goes(q, [ask[q] EXCEPT !.pc = "done", !.said = IF @ = None THEN what ELSE @])
\* What a request does not write.
Unsaved == UNCHANGED <<snapshots, model, over, items, account, linked, faults>>
Elsewhere == UNCHANGED <<snapshots, account, linked, faults>>

Live == {s \in DOMAIN snapshots : snapshots[s] # None}
Newest == CHOOSE s \in Live : \A t \in Live : t <= s

\* newest_in_line: settled versions while any is left; none for one the catalog no longer has.
newest_in_line(held, v) ==
    LET pool == IF held \cap Settled = {} THEN held ELSE held \cap Settled
    IN CHOOSE n \in pool : \A m \in pool : m <= n

valid_for(x, v) == x \in Accepts[v]
Far(x, y) == IF x < y THEN y - x ELSE x - y
\* The closest value the version takes, the lower on a tie.
adjust(x, v) ==
    CHOOSE y \in Accepts[v] : \A z \in Accepts[v] :
        Far(x, y) < Far(x, z) \/ (Far(x, y) = Far(x, z) /\ y <= z)
\* What an upgrade to the version would change.
adjustments(v) ==
    {[at |-> p, from |-> over[p].value, to |-> adjust(over[p].value, v)] :
        p \in {o \in Places : over[o] # None /\ ~valid_for(over[o].value, v)}}

(* ------------------------------- a request -------------------------------- *)

Begins(do) ==
    CASE do = "keep" -> "digest" [] do = "startup" -> "newest" [] do = "approve" -> "read"
      [] do = "set" -> "facts" [] do = "create" -> "lookup" [] do = "link" -> "count"
      [] do \in {"seal", "move", "env"} -> "account" [] OTHER -> do
Ask(q, c) ==
    /\ At(q, "unasked") /\ \A r \in 1..q - 1 : ~At(r, "unasked")
    /\ Goes(q, [Unasked EXCEPT !.pc = Begins(c.do), !.call = c,
           !.after = {r \in Requests : At(r, "done")}])
    /\ Unsaved

\* The process dies between two of its steps.
Dies(q) ==
    /\ ~At(q, "unasked") /\ ~At(q, "done") /\ faults > 0 /\ faults' = faults - 1
    /\ Goes(q, [ask[q] EXCEPT !.pc = "done", !.said = "died"])
    /\ UNCHANGED <<snapshots, model, over, items, account, linked>>

(* ------------------------------- the catalog ------------------------------ *)

\* keep: nothing new where the newest says the same; then the pass over what is linked.
keep(q) ==
    /\ At(q, "digest")
    /\ IF snapshots[Newest] = ask[q].call.held THEN Says(q, "same") ELSE Moves(q, "insert")
    /\ Unsaved
InsertSnapshot(q) ==
    /\ At(q, "insert") /\ Len(snapshots) < MaxSnapshots
    /\ snapshots' = Append(snapshots, ask[q].call.held) /\ Moves(q, "newest")
    /\ UNCHANGED <<model, over, items, account, linked, faults>>

\* forget_old_snapshots: but those a model names, and the newest few.
forget_old_snapshots(q) ==
    /\ At(q, "forget") /\ Says(q, "ok")
    /\ snapshots' = [s \in DOMAIN snapshots |->
                       IF s \in Live /\ Cardinality({t \in Live : t > s}) >= Kept
                          /\ (model = None \/ model.snapshot # s) THEN None ELSE snapshots[s]]
    /\ UNCHANGED <<model, over, items, account, linked, faults>>

(* ------------------------------ the tracking pass ------------------------- *)

track(q) ==
    /\ At(q, "newest")
    /\ Goes(q, [ask[q] EXCEPT !.pc = "linked", !.snapshot = Newest, !.held = snapshots[Newest]])
    /\ Unsaved

\* The row as it is read, and what is to be done about it.
Read(q) ==
    LET r == [ask[q] EXCEPT !.on = model.v, !.pending = model.pending, !.tracks = model.tracks,
                            !.next = newest_in_line(ask[q].held, model.v)]
    IN
    /\ At(q, "linked")
    /\ IF model = None \/ model.v \notin ask[q].held THEN Says(q, "none")
       ELSE IF r.next = model.v
       THEN Goes(q, [r EXCEPT !.pc = IF model.pending = 0 THEN "done" ELSE "clear"])
       ELSE Goes(q, [r EXCEPT !.pc = IF model.pending = r.next THEN "done" ELSE "adjust"])
    /\ Unsaved
Adjust(q) ==
    /\ At(q, "adjust")
    /\ LET changes == adjustments(ask[q].next) IN
       Goes(q, [ask[q] EXCEPT !.changes = changes,
                              !.pc = IF ask[q].tracks /\ changes = {} THEN "apply" ELSE "hold"])
    /\ Unsaved

\* hold: it waits, questions about an earlier version go, and somebody is asked.
hold(q) ==
    /\ At(q, "hold")
    /\ model' = IF model = None THEN None
                ELSE [model EXCEPT !.pending = ask[q].next, !.shown = ask[q].changes]
    /\ Goes(q, [ask[q] EXCEPT !.pc = "open", !.then = "raise"])
    /\ UNCHANGED over /\ UNCHANGED items /\ Elsewhere
raise(q) ==
    /\ At(q, "raise") /\ Says(q, "held")
    /\ items' = Append(items, [to |-> ask[q].next, state |-> "pending"])
    /\ UNCHANGED model /\ UNCHANGED over /\ Elsewhere

clear_pending(q) ==
    /\ At(q, "clear") /\ Moves(q, "open")
    /\ model' = IF model = None THEN None ELSE [model EXCEPT !.pending = 0, !.shown = {}]
    /\ UNCHANGED over /\ UNCHANGED items /\ Elsewhere

\* settle_items: the open ones as they are read, one by one.
OpenItems(q) ==
    /\ At(q, "open")
    /\ Goes(q, [ask[q] EXCEPT !.pc = "settle",
           !.todo = {i \in DOMAIN items : items[i].state = "pending"}])
    /\ Unsaved
settle_items(q) ==
    /\ At(q, "settle")
    /\ IF ask[q].todo = {}
       THEN (IF ask[q].then = "raise" THEN Moves(q, "raise") ELSE Says(q, "ok")) /\ UNCHANGED items
       ELSE LET i == Least(ask[q].todo) IN
            /\ items' = IF items[i].state = "pending" THEN [items EXCEPT ![i].state = "settled"]
                   ELSE items
            /\ Goes(q, [ask[q] EXCEPT !.todo = @ \ {i}])
    /\ UNCHANGED model /\ UNCHANGED over /\ Elsewhere

stillShown(change) == over[change.at] # None /\ over[change.at].value = change.from
\* apply: only from the version it was read on and over the values shown, or nothing is changed.
apply(q) ==
    LET r == ask[q] IN
    /\ At(q, "apply")
    /\ IF \/ model = None \/ model.v # r.on \/ r.snapshot \notin Live
          \/ \E c \in r.changes : ~stillShown(c)
       THEN Says(q, "changed") /\ UNCHANGED <<model, over>>
       ELSE /\ over' = [p \in Places |->
                          IF \E c \in r.changes : c.at = p
                          THEN [over[p] EXCEPT !.value = (CHOOSE c \in r.changes : c.at = p).to]
                              ELSE over[p]]
            /\ model' = [model EXCEPT !.v = r.next, !.prev = model.v, !.snapshot = r.snapshot,
                                      !.pending = 0, !.shown = {}]
            /\ Moves(q, "open")
    /\ UNCHANGED items /\ Elsewhere

\* approve: what waits, and what it would change as it stands now.
approve(q) ==
    /\ At(q, "read")
    /\ IF model = None \/ model.pending = 0 THEN Says(q, "nothing")
       ELSE Goes(q, [ask[q] EXCEPT !.pc = "entry", !.on = model.v, !.next = model.pending,
           !.changes = model.shown])
    /\ Unsaved
ReadEntry(q) ==
    /\ At(q, "entry")
    /\ IF ask[q].next \notin snapshots[Newest]
       THEN Goes(q, [ask[q] EXCEPT !.pc = "clear", !.said = "withdrawn"])
       ELSE Goes(q, [ask[q] EXCEPT !.pc = "compare", !.snapshot = Newest])
    /\ Unsaved
Compare(q) ==
    LET now == adjustments(ask[q].next) IN
    /\ At(q, "compare")
    /\ Goes(q, [ask[q] EXCEPT !.changes = now,
                   !.pc = IF now = ask[q].changes THEN "apply" ELSE "repropose"])
    /\ Unsaved
Repropose(q) ==
    /\ At(q, "repropose") /\ Says(q, "changed")
    /\ model' = IF model = None THEN None ELSE [model EXCEPT !.shown = ask[q].changes]
    /\ UNCHANGED over /\ UNCHANGED items /\ Elsewhere

(* ------------------------- the model and its values ----------------------- *)

\* set: a value the model's version takes, as it was read; and clear.
ReadFacts(q) ==
    /\ At(q, "facts")
    /\ IF model # None /\ valid_for(ask[q].call.value, model.v)
       THEN Goes(q, [ask[q] EXCEPT !.pc = "put", !.on = model.v]) ELSE Says(q, "refused")
    /\ Unsaved
set(q) ==
    /\ ask[q].pc \in {"put", "unset"} /\ Says(q, "ok")
    /\ over' = [over EXCEPT ![ask[q].call.at] =
                  IF At(q, "unset") THEN None
                  ELSE [value |-> ask[q].call.value, as |-> ask[q].call.value, by |-> q]]
    /\ UNCHANGED model /\ UNCHANGED items /\ Elsewhere

\* update_model: tracking turned on or off, and a pass.
update_model(q) ==
    /\ At(q, "tracks")
    /\ IF model = None THEN Says(q, "absent") /\ UNCHANGED model
       ELSE model' = [model EXCEPT !.tracks = ask[q].call.flag] /\ Moves(q, "newest")
    /\ UNCHANGED over /\ UNCHANGED items /\ Elsewhere

\* create_model: the version asked for, or the newest in its line for one that tracks.
create_model(q) ==
    LET c == ask[q].call IN
    /\ At(q, "lookup")
    /\ IF c.value \notin snapshots[Newest] THEN Says(q, "refused")
       ELSE Goes(q, [ask[q] EXCEPT !.pc = "create", !.snapshot = Newest,
                       !.next = IF c.flag THEN newest_in_line(snapshots[Newest], c.value)
                           ELSE c.value])
    /\ Unsaved
InsertModel(q) ==
    /\ At(q, "create") /\ model = None
    /\ IF ask[q].snapshot \in Live /\ account # None
       THEN model' = Row(ask[q].next, ask[q].snapshot, ask[q].call.flag) /\ Says(q, "ok")
       ELSE Says(q, "failed") /\ UNCHANGED model
    /\ UNCHANGED over /\ UNCHANGED items /\ Elsewhere

\* delete_model: not while a chain names it; its values go with it, and questions about it after.
delete_model(q) ==
    /\ At(q, "delete")
    /\ IF model = None \/ linked THEN Says(q, "refused") /\ UNCHANGED <<model, over>>
       ELSE model' = None /\ over' = [p \in Places |-> None] /\ Moves(q, "open")
    /\ UNCHANGED items /\ Elsewhere

\* write_links: the model is counted, and named by a chain.
write_links(q) ==
    /\ ask[q].pc \in {"count", "links"}
    /\ IF model = None THEN Says(q, "refused") /\ UNCHANGED linked
       ELSE IF At(q, "count") THEN Moves(q, "links") /\ UNCHANGED linked
       ELSE linked' = TRUE /\ Says(q, "ok")
    /\ UNCHANGED <<snapshots, model, over, items, account, faults>>
delete_chain(q) ==
    /\ At(q, "unlink") /\ linked' = FALSE /\ Says(q, "ok")
    /\ UNCHANGED <<snapshots, model, over, items, account, faults>>

(* ------------------------------- its account ------------------------------ *)

\* seal_account_key, update_account: what is refused, by the account as it was read.
ReadAccount(q) ==
    LET c == ask[q].call IN
    /\ At(q, "account")
    /\ IF \/ account = None
          \/ c.do = "seal" /\ c.at # account.host
          \/ c.do = "move" /\ account.key # None /\ c.at # account.host
          \/ c.do = "env" /\ account.key # None
       THEN Says(q, "refused") ELSE Moves(q, "account2")
    /\ Unsaved
WriteAccount(q) ==
    LET c == ask[q].call IN
    /\ At(q, "account2") /\ Says(q, "ok")
    /\ account' = IF account = None THEN None
                  ELSE IF c.do = "seal" THEN [account EXCEPT !.key = c.at, !.env = FALSE]
                  ELSE IF c.do = "move" THEN [account EXCEPT !.host = c.at]
                  ELSE [account EXCEPT !.env = TRUE]
    /\ UNCHANGED <<snapshots, model, over, items, linked, faults>>
delete_account(q) ==
    /\ At(q, "leave") /\ Says(q, IF model = None THEN "ok" ELSE "refused")
    /\ account' = IF model = None THEN None ELSE account
    /\ UNCHANGED <<snapshots, model, over, items, linked, faults>>

\* A step of a request that was asked.
Serve(q) ==
    \/ Dies(q) \/ keep(q) \/ InsertSnapshot(q) \/ forget_old_snapshots(q)
    \/ track(q) \/ Read(q) \/ Adjust(q) \/ hold(q) \/ raise(q) \/ clear_pending(q)
    \/ OpenItems(q) \/ settle_items(q) \/ apply(q)
    \/ approve(q) \/ ReadEntry(q) \/ Compare(q) \/ Repropose(q)
    \/ ReadFacts(q) \/ set(q) \/ update_model(q) \/ create_model(q) \/ InsertModel(q)
    \/ delete_model(q) \/ write_links(q) \/ delete_chain(q)
    \/ ReadAccount(q) \/ WriteAccount(q) \/ delete_account(q)

Next == \E q \in Requests : (\E c \in Calls : Ask(q, c)) \/ Serve(q)

Spec == Init /\ [][Next]_vars

(* ------------------------------- properties ------------------------------- *)

Asked == {q \in Requests : ~At(q, "unasked")}
Of(does) == {q \in Asked : ask[q].call.do \in does}
Alone(q) == \A r \in Asked \ {q} : r \in ask[q].after \/ q \in ask[r].after
Last(q) == Asked \ {q} \subseteq ask[q].after
Overlap(q, r) == q # r /\ r \notin ask[q].after /\ q \notin ask[r].after
Quiet == \A q \in Asked : At(q, "done")
Passes == {"keep", "startup", "tracks"}
\* Something of the kind ran beside something else.
Beside(does) == \E q \in Of(does) : ~Alone(q)
Waiting == {i \in DOMAIN items : items[i].state = "pending"}

\* A model is never on a version that refuses a value set for it (apply, "never a new version with
\* values it refuses") -- except where the code breaks that: a value checked against the version
\* the model moved from, by a request under way beside the pass or the approval that moved it.
CheckedBefore(q) ==
    /\ q # None /\ ask[q].on # model.v
    /\ \E r \in Of(Passes \cup {"approve"}) : Overlap(q, r)
ValuesTaken ==
    model # None =>
        \A p \in Places : over[p] # None =>
            valid_for(over[p].value, model.v) \/ CheckedBefore(over[p].by)

\* A value somebody set is changed only for a version that refuses it.
SetKept ==
    model # None =>
        \A p \in Places : over[p] # None /\ over[p].value # over[p].as =>
            \/ ~valid_for(over[p].as, model.v)
            \/ model.prev # 0 /\ ~valid_for(over[p].as, model.prev)

\* What waits has a question open, unless a process died asking or two passes ran at once.
NobodyUnasked ==
    Quiet /\ faults = Faults /\ model # None /\ model.pending # 0 => Waiting # {} \/ Beside(Passes)

\* A model that moved still has the version it moved from, unless a pass was beside what moved it.
VersionKept == model # None => model.prev # model.v \/ Beside(Passes)

\* A pass with nothing beside it leaves the model on the newest in its line, or that version
\* waiting; and one that tracks waits only on values the new version refuses.  The exception is the
\* code's, where docs/models.md ("Tracking the latest version") has the model move forward: a pass
\* leaves alone what it finds already waiting, though the values it waited for have been taken
\* back, or it waited as pinned and now tracks.
HeldFrom(q, next) ==
    ask[q].pending = next /\ (model.shown # {} \/ Of({"tracks", "approve"}) # {})
CatchesUp ==
    \A q \in Of(Passes) :
      At(q, "done") /\ ask[q].snapshot # 0 /\ ask[q].said # "died" /\ Last(q) /\ model # None =>
        LET held == snapshots[Newest]  next == newest_in_line(held, model.v) IN
        model.v \in held =>
            /\ model.pending = (IF next = model.v THEN 0 ELSE next)
            /\ next # model.v /\ model.tracks => adjustments(next) # {} \/ HeldFrom(q, next)

\* What a pass left waiting is not stuck: an approval with nothing beside it moves the model or
\* withdraws what waits, or shows what it would change as that stands now.
ApprovalEnds ==
    \A q \in Of({"approve"}) :
      At(q, "done") /\ ask[q].said # "died" /\ Last(q) /\ model # None =>
        model.pending = 0 \/ (ask[q].said = "changed" /\ model.shown = adjustments(model.pending))

\* An account's key is sealed for its host and is the only one it has, unless the account was
\* changed as the key was sealed.
AccountKeyed ==
    account # None /\ account.key # None =>
        (account.key = account.host /\ ~account.env) \/ Beside({"seal"})

TrackingSound ==
    /\ ValuesTaken /\ SetKept /\ NobodyUnasked /\ VersionKept
    /\ CatchesUp /\ ApprovalEnds /\ AccountKeyed
==============================================================================
