------------------------------ MODULE EventFeed ------------------------------
(***************************************************************************)
(* The event feed: events appended by many processes (store.rs), one       *)
(* LISTEN connection fanned out to every parked long poll (notify.rs), and *)
(* the poll that reads from its own cursor (api/events.rs).  An event's id *)
(* is a UUIDv7 taken before its insert commits: ids here are handed out in *)
(* clock order, commits happen in any order.  An event belongs to a        *)
(* session; a narrowed reader is shown the sessions of its reach.          *)
(***************************************************************************)
EXTENDS Integers, Sequences, FiniteSets

CONSTANTS Writers,     \* connections appending events
          Readers,     \* clients that poll
          Sessions,    \* conversations events are about
          Reach,       \* [Readers -> SUBSET Sessions]: what each may be shown
          Narrowed,    \* the readers whose reach was narrowed
          MaxEvents,   \* bound on events appended
          Limit,       \* events handed out by one poll
          Cap,         \* hints a subscriber may have waiting before it lags
          Drops        \* times the listener's connection may drop

ASSUME FeedAssumption ==
    /\ Limit \in Nat \ {0} /\ Cap \in Nat \ {0} /\ MaxEvents \in Nat /\ Drops \in Nat
    /\ Sessions # {} /\ Reach \in [Readers -> SUBSET Sessions] /\ Narrowed \subseteq Readers

VARIABLES clock,     \* the last id handed out
          about,     \* session of each id
          writers,   \* what each connection is doing
          committed, \* ids other connections can read
          channel,   \* notifications sent and not yet received by the listener
          listening, \* whether the LISTEN connection is up
          missed,    \* a notification was lost while it was not
          drops,
          readers    \* each client's poll; `late` is the history of what committed
                     \* where the poll no longer looks

vars == <<clock, about, writers, committed, channel, listening, missed, drops, readers>>

Ids == 1 .. MaxEvents

Init ==
    /\ clock = 0
    /\ about = [i \in Ids |-> CHOOSE s \in Sessions : TRUE]
    /\ writers = [w \in Writers |-> [pc |-> "idle", id |-> 0]]
    /\ committed = {}
    /\ channel = <<>>
    /\ listening = FALSE
    /\ missed = FALSE
    /\ drops = Drops
    /\ readers = [r \in Readers |-> [pc |-> "idle", cursor |-> 0, rx |-> <<>>,
                                     lagged |-> FALSE, seen |-> {}, late |-> {}]]

-----------------------------------------------------------------------------
(* Appending.                                                              *)

\* now_v7 and the insert, on a connection that has not committed yet.
append_on(w) ==
    /\ writers[w].pc = "idle" /\ clock < MaxEvents
    /\ clock' = clock + 1
    /\ \E s \in Sessions : about' = [about EXCEPT ![clock + 1] = s]
    /\ writers' = [writers EXCEPT ![w] = [pc |-> "inserted", id |-> clock + 1]]
    /\ UNCHANGED <<committed, channel, listening, missed, drops, readers>>

Notify(s) ==
    IF listening THEN channel' = Append(channel, s) /\ UNCHANGED missed
                 ELSE missed' = TRUE /\ UNCHANGED channel

\* An id that becomes readable below a cursor is out of since's reach, and one
\* that does so after a narrowed poll found nothing is out of the watermark's.
Behind(r, i) ==
    \/ i <= readers[r].cursor
    \/ r \in Narrowed /\ readers[r].pc \in {"empty", "parked", "mark"}
Store(i) ==
    /\ committed' = committed \cup {i}
    /\ readers' = [r \in Readers |->
          IF Behind(r, i) THEN [readers[r] EXCEPT !.late = @ \cup {i}] ELSE readers[r]]

\* Inside a caller's transaction the event and its notification commit together.
Commit(w) ==
    /\ writers[w].pc = "inserted"
    /\ Store(writers[w].id)
    /\ Notify(about[writers[w].id])
    /\ writers' = [writers EXCEPT ![w] = [pc |-> "idle", id |-> 0]]
    /\ UNCHANGED <<clock, about, listening, drops>>

\* append on a pool connection: the insert commits alone ...
append(w) ==
    /\ writers[w].pc = "inserted"
    /\ Store(writers[w].id)
    /\ writers' = [writers EXCEPT ![w].pc = "notify"]
    /\ UNCHANGED <<clock, about, channel, listening, missed, drops>>

\* ... and pg_notify is a statement after it.
PgNotify(w) ==
    /\ writers[w].pc = "notify"
    /\ Notify(about[writers[w].id])
    /\ writers' = [writers EXCEPT ![w] = [pc |-> "idle", id |-> 0]]
    /\ UNCHANGED <<clock, about, committed, listening, drops, readers>>

\* A transaction that fails takes its event and its announcement with it.
Rollback(w) ==
    /\ writers[w].pc = "inserted"
    /\ writers' = [writers EXCEPT ![w] = [pc |-> "idle", id |-> 0]]
    /\ UNCHANGED <<clock, about, committed, channel, listening, missed, drops, readers>>

-----------------------------------------------------------------------------
(* The bus.                                                                *)

\* listen_loop subscribes, at the start and again after each failure.
Listen ==
    /\ ~listening
    /\ listening' = TRUE
    /\ UNCHANGED <<clock, about, writers, committed, channel, missed, drops, readers>>

\* The connection drops: what was on its way is lost.
Drop ==
    /\ listening /\ drops > 0
    /\ listening' = FALSE
    /\ drops' = drops - 1
    /\ missed' = (missed \/ channel # <<>>)
    /\ channel' = <<>>
    /\ UNCHANGED <<clock, about, writers, committed, readers>>

\* Subscribing comes before the first query.
Subscribed(r) == readers[r].pc \in {"query", "empty", "parked"}

\* One notification broadcast to every subscriber; one already full lags.
listen_loop ==
    /\ channel # <<>>
    /\ channel' = Tail(channel)
    /\ readers' = [r \in Readers |->
          IF ~Subscribed(r) THEN readers[r]
          ELSE IF Len(readers[r].rx) = Cap
               THEN [readers[r] EXCEPT !.rx = Append(Tail(@), Head(channel)), !.lagged = TRUE]
               ELSE [readers[r] EXCEPT !.rx = Append(@, Head(channel))]]
    /\ UNCHANGED <<clock, about, writers, committed, listening, missed, drops>>

-----------------------------------------------------------------------------
(* The poll.                                                               *)

Shown(r, i) == r \in Narrowed => about[i] \in Reach[r]
\* Mutant: the newest first.
FirstOf_newest(S) == {i \in S : Cardinality({j \in S : j >= i}) <= Limit}
\* order by id limit.
FirstOf(S) == {i \in S : Cardinality({j \in S : j <= i}) <= Limit}

\* What is newer than the cursor and may be shown; of it, the oldest to the limit.
Fresh(r) == {i \in committed : i > readers[r].cursor /\ Shown(r, i)}
since(r) == FirstOf(Fresh(r))

Put(r, rec) == readers' = [readers EXCEPT ![r] = rec]
Rest(r) == [readers[r] EXCEPT !.pc = "idle", !.rx = <<>>, !.lagged = FALSE]

\* Handed what was found, the cursor moved to the last of it.
Last(S, i) == i \in S /\ \A j \in S : j <= i
Hand(r) ==
    \E i \in Ids : /\ Last(since(r), i)
                  /\ Put(r, [Rest(r) EXCEPT !.cursor = i, !.seen = @ \cup since(r)])

\* The next query reads from the cursor on: what committed above it is not late.
Look(poll) == [poll EXCEPT !.pc = "query", !.late = {i \in @ : i <= poll.cursor}]

\* A poll begins; from here it hears what is announced.
subscribe(r) ==
    /\ readers[r].pc = "idle"
    /\ Put(r, Look(Rest(r)))
    /\ UNCHANGED <<clock, about, writers, committed, channel, listening, missed, drops>>

\* The first query, and the one after each hint or lag: parked if empty.
Query(r) ==
    /\ readers[r].pc = "query"
    /\ IF Fresh(r) # {} THEN Hand(r) ELSE Put(r, [readers[r] EXCEPT !.pc = "empty"])
    /\ UNCHANGED <<clock, about, writers, committed, channel, listening, missed, drops>>

\* Nothing was found: the poll parks on its receiver.
Park(r) ==
    /\ readers[r].pc = "empty"
    /\ Put(r, [readers[r] EXCEPT !.pc = "parked"])
    /\ UNCHANGED <<clock, about, writers, committed, channel, listening, missed, drops>>

\* A hint wakes the poll to query again; hints dropped do too, since the
\* stream cannot be trusted then.  (The filter on another conversation's hints
\* only saves a query: a poll here takes the workspace's.)
wait_for(r) ==
    /\ readers[r].pc = "parked"
    /\ \/ readers[r].lagged /\ Put(r, Look([readers[r] EXCEPT !.lagged = FALSE]))
       \/ /\ ~readers[r].lagged /\ readers[r].rx # <<>>
          /\ Put(r, Look([readers[r] EXCEPT !.rx = Tail(@)]))
    /\ UNCHANGED <<clock, about, writers, committed, channel, listening, missed, drops>>

\* Nothing in time, or shutting down: an empty answer, and for a narrowed
\* reader the watermark read next.
Timeout(r) ==
    /\ readers[r].pc = "parked"
    /\ Put(r, IF r \in Narrowed THEN [Rest(r) EXCEPT !.pc = "mark"] ELSE Rest(r))
    /\ UNCHANGED <<clock, about, writers, committed, channel, listening, missed, drops>>

\* The end of the window from the cursor, visible or not, is the new cursor.
watermark(r) ==
    /\ readers[r].pc = "mark"
    /\ LET window == FirstOf({i \in committed : i > readers[r].cursor}) IN
         \/ window = {} /\ Put(r, Rest(r))
         \/ \E i \in Ids : Last(window, i) /\ Put(r, [Rest(r) EXCEPT !.cursor = i])
    /\ UNCHANGED <<clock, about, writers, committed, channel, listening, missed, drops>>

-----------------------------------------------------------------------------
Write(w) == append_on(w) \/ Commit(w) \/ append(w) \/ PgNotify(w) \/ Rollback(w)
Poll(r) == subscribe(r) \/ Query(r) \/ Park(r) \/ wait_for(r) \/ Timeout(r) \/ watermark(r)
Next == (\E w \in Writers : Write(w)) \/ Listen \/ Drop \/ listen_loop \/ (\E r \in Readers : Poll(r))

Spec == Init /\ [][Next]_vars

\* The listener restarts and drains, a writer finishes, and a client polls
\* again whenever it is answered; the deadline of a poll always fires.
FairSpec ==
    /\ Spec /\ WF_vars(Listen) /\ WF_vars(listen_loop)
    /\ \A w \in Writers : WF_vars(Commit(w) \/ append(w) \/ PgNotify(w) \/ Rollback(w))
    /\ \A r \in Readers : WF_vars(Poll(r)) /\ WF_vars(Timeout(r))

-----------------------------------------------------------------------------
Polls == [pc : {"idle", "query", "empty", "parked", "mark"}, cursor : Nat, rx : Seq(Sessions),
          lagged : BOOLEAN, seen : SUBSET Ids, late : SUBSET Ids]

TypeOK ==
    /\ clock \in 0 .. MaxEvents /\ committed \subseteq 1 .. clock
    /\ about \in [Ids -> Sessions]
    /\ writers \in [Writers -> [pc : {"idle", "inserted", "notify"}, id : 0 .. MaxEvents]]
    /\ channel \in Seq(Sessions) /\ listening \in BOOLEAN /\ missed \in BOOLEAN
    /\ drops \in 0 .. Drops
    /\ readers \in [Readers -> Polls]
    /\ \A r \in Readers : readers[r].cursor <= clock /\ Len(readers[r].rx) <= Cap

\* A poll's cursor passes over nothing its reader may see and was not handed,
\* but for what committed where the poll no longer looked: "skips nothing that
\* has yet to arrive" (api/events.rs, store.rs watermark) is true but for those.
NothingSkipped ==
    \A r \in Readers : \A i \in committed \ readers[r].late :
        i <= readers[r].cursor /\ Shown(r, i) => i \in readers[r].seen

\* No event is handed to a reader twice: what it was handed is behind its
\* cursor, and may be shown to it.
HandedOnce ==
    \A r \in Readers : \A i \in readers[r].seen :
        i \in committed /\ i <= readers[r].cursor /\ Shown(r, i)

\* While no notification was lost, a poll parked on something it could be
\* handed has a hint waiting, lagged, or on its way: it never sleeps through an
\* event until its deadline (subscribe before the first query; requery on lag).
HintComing ==
    \A r \in Readers :
        readers[r].pc = "parked" /\ since(r) # {} /\ ~missed =>
            \/ readers[r].rx # <<>> \/ readers[r].lagged \/ channel # <<>>
            \/ \E w \in Writers : writers[w].pc = "notify"

\* A reader's cursor passes no event it was not handed, none is handed to it
\* twice, and an event it waits for has a hint on its way.
FeedSound == TypeOK /\ NothingSkipped /\ HandedOnce /\ HintComing
=============================================================================
