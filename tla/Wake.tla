-------------------------------- MODULE Wake --------------------------------
(***************************************************************************)
(* Waking an agent later (wake.rs): `sleep`, which suspends a conversation *)
(* behind a hold and an item in its owner's queue, and `set-timer`, which  *)
(* does not.  Either is a wakeup job with a due time; when it ends, a note *)
(* is written into the conversation and a turn queued to answer it.  One   *)
(* conversation; its turns run one at a time and park under a hold.  Time  *)
(* is left out: a wakeup may come due whenever it is pending.              *)
(***************************************************************************)
EXTENDS Integers, FiniteSets, FiniteSetsExt

CONSTANTS Messages,   \* what people send, numbered in the order they arrive
          Sender,     \* [Messages -> people]
          Waits,      \* sleeps and timers the turns may ask for
          Ticks,      \* processes running the wakeup loop
          Budget,     \* how often each fault may happen
          None

WakeAssumption == Messages \subseteq Nat /\ IsFiniteSet(Messages) /\ None \notin Messages

VARIABLES ts,       \* the state of each turn: a message's, or a wait's note's
          running,  \* the turn being run
          opened,   \* messages whose turn has put up its reply
          absorbed, \* the note that answers a message, if one does
          notes,    \* what each wait's note answers, for whom; times written
          waits,    \* each wait: its request, hold, item and wakeup job
          ticks,    \* what each wakeup loop is firing
          waking,   \* sleeps somebody pressed Wake now on, before the settle
          answers,  \* times each message was answered
          left

vars == <<ts, running, opened, absorbed, notes, waits, ticks, waking, answers, left>>

Turns == Messages \cup Waits
Init ==
    /\ ts = [x \in Turns |-> "none"]
    /\ running = None
    /\ opened = {}
    /\ absorbed = [m \in Messages |-> None]
    /\ notes = [w \in Waits |-> [answers |-> {}, asker |-> None, written |-> 0]]
    /\ waits = [w \in Waits |-> [kind |-> "timer", pc |-> "none", by |-> None, hold |-> FALSE,
                                 item |-> "none", job |-> "none", lease |-> None]]
    /\ ticks = [t \in Ticks |-> [pc |-> "idle", w |-> None]]
    /\ waking = {}
    /\ answers = [m \in Messages |-> 0]
    /\ left = Budget

Spend(f) == left[f] > 0 /\ left' = [left EXCEPT ![f] = @ - 1]
Asleep == \E w \in Waits : waits[w].hold
Handling(x) == \E w \in Waits : waits[w].by = x /\ waits[w].pc \in {"hold", "item", "enqueue"}

-----------------------------------------------------------------------------
(* The conversation's turns, as work.rs runs them.                         *)

\* Somebody writes; a turn is queued to answer it.
Send(m) ==
    /\ ts[m] = "none" /\ \A n \in Messages : n < m => ts[n] # "none"
    /\ ts' = [ts EXCEPT ![m] = "queued"]
    /\ UNCHANGED <<running, opened, absorbed, notes, waits, ticks, waking, answers, left>>

\* A turn taken: under a hold it parks, one whose message a note answers
\* finishes without a word, and any other runs, its reply put up.
TakeTurn(x) ==
    /\ running = None /\ ts[x] = "queued"
    /\ IF Asleep THEN ts' = [ts EXCEPT ![x] = "parked"] /\ UNCHANGED <<running, opened>>
       ELSE IF x \in Messages /\ absorbed[x] # None
            THEN ts' = [ts EXCEPT ![x] = "done"] /\ UNCHANGED <<running, opened>>
            ELSE /\ ts' = [ts EXCEPT ![x] = "running"]
                 /\ running' = x
                 /\ opened' = IF x \in Messages THEN opened \cup {x} ELSE opened
    /\ UNCHANGED <<absorbed, notes, waits, ticks, waking, answers, left>>

\* The turn ends; what it answers is its message, or what its note answers.
Finish ==
    /\ running # None /\ ~Handling(running)
    /\ ts' = [ts EXCEPT ![running] = "done"]
    /\ answers' = [m \in Messages |->
                     IF m = running \/ (running \in Waits /\ m \in notes[running].answers)
                     THEN answers[m] + 1 ELSE answers[m]]
    /\ running' = None
    /\ UNCHANGED <<opened, absorbed, notes, waits, ticks, waking, left>>

\* The lease lapses under a runtime still at work; the turn is queued again.
Lapse ==
    /\ running # None /\ Spend("lapse")
    /\ ts' = [ts EXCEPT ![running] = "queued"]
    /\ running' = None
    /\ UNCHANGED <<opened, absorbed, notes, waits, ticks, waking, answers>>

-----------------------------------------------------------------------------
(* Asking to wait, relayed by the runtime under its lease.                 *)

\* wait: the lease and the request checked; a sleep only where no sleep's
\* hold stands and somebody can be told of it.
Ask(w, kind) ==
    /\ running # None /\ waits[w].pc = "none"
    /\ kind = "sleep" => ~Asleep
    /\ waits' = [waits EXCEPT ![w].kind = kind, ![w].by = running,
                              ![w].pc = IF kind = "sleep" THEN "hold" ELSE "enqueue"]
    /\ UNCHANGED <<ts, running, opened, absorbed, notes, ticks, waking, answers, left>>

TakeHold(w) ==
    /\ waits[w].pc = "hold"
    /\ waits' = [waits EXCEPT ![w].hold = TRUE, ![w].pc = "item"]
    /\ UNCHANGED <<ts, running, opened, absorbed, notes, ticks, waking, answers, left>>

\* The item; where it cannot be raised the hold goes too.
RaiseItem(w) ==
    /\ waits[w].pc = "item"
    /\ \/ /\ waits' = [waits EXCEPT ![w].item = "pending", ![w].pc = "enqueue"]
          /\ UNCHANGED left
       \/ /\ Spend("item")
          /\ waits' = [waits EXCEPT ![w].hold = FALSE, ![w].pc = "done"]
    /\ UNCHANGED <<ts, running, opened, absorbed, notes, ticks, waking, answers>>

\* The wakeup, due later.  Where it cannot be queued the request fails, and
\* the hold and the item stand.
Enqueue(w) ==
    /\ waits[w].pc = "enqueue"
    /\ \/ /\ waits' = [waits EXCEPT ![w].job = "pending", ![w].pc = "done"]
          /\ UNCHANGED left
       \/ /\ Spend("enqueue")
          /\ waits' = [waits EXCEPT ![w].pc = "done"]
    /\ UNCHANGED <<ts, running, opened, absorbed, notes, ticks, waking, answers>>

\* cancel-timer: only one still pending, in this conversation.
cancel(w) ==
    /\ running # None /\ waits[w].kind = "timer" /\ waits[w].job = "pending"
    /\ waits' = [waits EXCEPT ![w].job = "deleted"]
    /\ UNCHANGED <<ts, running, opened, absorbed, notes, ticks, waking, answers, left>>

-----------------------------------------------------------------------------
(* Ending a wait.                                                          *)

\* The messages from people that nothing answers or has begun to.
Waiting == {m \in Messages : ts[m] \notin {"none", "done"} /\ m \notin opened /\ absorbed[m] = None}

\* For a sleep, the ones the first sender sent: the turn is theirs.
Queued(kind) ==
    IF kind = "sleep" /\ Waiting # {}
    THEN {m \in Waiting : Sender[m] = Sender[Min(Waiting)]} ELSE {}
Asker(kind) == IF kind = "sleep" /\ Waiting # {} THEN Sender[Min(Waiting)] ELSE None

\* Mutant: the messages are not marked as answered by the note.
write_tx_unmarked(w, resumed) ==
    /\ notes' = [notes EXCEPT ![w] = [answers |-> Queued(waits[w].kind), asker |-> Asker(waits[w].kind),
                                      written |-> @.written + 1]]
    /\ ts' = [x \in Turns |-> IF x = w \/ (resumed /\ ts[x] = "parked") THEN "queued" ELSE ts[x]]
    /\ UNCHANGED absorbed

\* The note, the messages it answers, and the turn to answer them, written
\* together with the resume of what parked behind a sleep.
write_tx(w, resumed) ==
    /\ notes' = [notes EXCEPT ![w] = [answers |-> Queued(waits[w].kind), asker |-> Asker(waits[w].kind),
                                      written |-> @.written + 1]]
    /\ absorbed' = [m \in Messages |-> IF m \in Queued(waits[w].kind) THEN w ELSE absorbed[m]]
    /\ ts' = [x \in Turns |-> IF x = w \/ (resumed /\ ts[x] = "parked") THEN "queued" ELSE ts[x]]

\* A sleep ended, by whichever of the two finds its item pending.
settle(w) ==
    IF waits[w].item = "pending"
    THEN /\ write_tx(w, TRUE)
         /\ waits' = [waits EXCEPT ![w].item = "settled", ![w].hold = FALSE]
    ELSE UNCHANGED <<notes, absorbed, ts, waits>>

\* Wake now: the sleep's wakeup read while it is pending, and then settled.
wake_now(w) ==
    /\ waits[w].kind = "sleep" /\ waits[w].job = "pending" /\ w \notin waking
    /\ waking' = waking \cup {w}
    /\ UNCHANGED <<ts, running, opened, absorbed, notes, waits, ticks, answers, left>>

WakeSettle(w) ==
    /\ w \in waking
    /\ waking' = waking \ {w}
    /\ settle(w)
    /\ UNCHANGED <<running, opened, ticks, answers, left>>

\* The loop claims a wakeup that is due.
Claim(t) ==
    \E w \in Waits :
        /\ ticks[t].pc = "idle" /\ waits[w].job = "pending"
        /\ waits' = [waits EXCEPT ![w].job = "running", ![w].lease = t]
        /\ ticks' = [ticks EXCEPT ![t] = [pc |-> waits[w].kind, w |-> w]]
        /\ UNCHANGED <<ts, running, opened, absorbed, notes, waking, answers, left>>

Idle(t) == ticks' = [ticks EXCEPT ![t] = [pc |-> "idle", w |-> None]]

\* A sleep's firing: settled, and the job closed by a statement of its own.
fire(t) ==
    /\ ticks[t].pc = "sleep"
    /\ settle(ticks[t].w)
    /\ ticks' = [ticks EXCEPT ![t].pc = "close"]
    /\ UNCHANGED <<running, opened, waking, answers, left>>

Close(t) ==
    /\ ticks[t].pc = "close"
    /\ waits' = IF waits[ticks[t].w].lease = t
                THEN [waits EXCEPT ![ticks[t].w].job = "done", ![ticks[t].w].lease = None] ELSE waits
    /\ Idle(t)
    /\ UNCHANGED <<ts, running, opened, absorbed, notes, waking, answers, left>>

\* A timer's firing: note, turn and completion commit together, matched on the
\* lease it was claimed with, or not at all.
fire_timer_on(t) ==
    /\ ticks[t].pc = "timer"
    /\ IF waits[ticks[t].w].lease = t
       THEN /\ write_tx(ticks[t].w, FALSE)
            /\ waits' = [waits EXCEPT ![ticks[t].w].job = "done", ![ticks[t].w].lease = None]
       ELSE UNCHANGED <<notes, absorbed, ts, waits>>
    /\ Idle(t)
    /\ UNCHANGED <<running, opened, waking, answers, left>>

\* A firing's lease lapses and it is offered again while the first goes on.
Reap(w) ==
    /\ waits[w].job = "running" /\ Spend("reap")
    /\ waits' = [waits EXCEPT ![w].job = "pending", ![w].lease = None]
    /\ UNCHANGED <<ts, running, opened, absorbed, notes, ticks, waking, answers>>

\* A firing that fails, or whose process dies: the job is offered again.
Fail(t) ==
    /\ ticks[t].pc # "idle" /\ Spend("fail")
    /\ waits' = IF waits[ticks[t].w].lease = t
                THEN [waits EXCEPT ![ticks[t].w].job = "pending", ![ticks[t].w].lease = None] ELSE waits
    /\ Idle(t)
    /\ UNCHANGED <<ts, running, opened, absorbed, notes, waking, answers>>

-----------------------------------------------------------------------------
Turn == (\E x \in Turns : TakeTurn(x)) \/ Finish
Arrange(w) == TakeHold(w) \/ RaiseItem(w) \/ Enqueue(w)
Asking == \E w \in Waits : cancel(w) \/ wake_now(w) \/ \E k \in {"sleep", "timer"} : Ask(w, k)
Fire(t) == Claim(t) \/ fire(t) \/ Close(t) \/ fire_timer_on(t)
Faults == Lapse \/ (\E w \in Waits : Reap(w)) \/ \E t \in Ticks : Fail(t)

Next == \/ \E m \in Messages : Send(m)
        \/ Turn \/ Asking \/ Faults
        \/ \E w \in Waits : Arrange(w) \/ WakeSettle(w)
        \/ \E t \in Ticks : Fire(t)

Spec == Init /\ [][Next]_vars

\* Turns are taken and finish, handlers and the wakeup loop go on.
FairSpec == Spec /\ WF_vars(Turn) /\ (\A w \in Waits : WF_vars(Arrange(w)))
                 /\ (\A t \in Ticks : WF_vars(Fire(t)))

-----------------------------------------------------------------------------
TypeOK ==
    /\ ts \in [Turns -> {"none", "queued", "parked", "running", "done"}]
    /\ running \in Turns \cup {None}
    /\ absorbed \in [Messages -> Waits \cup {None}]
    /\ \A w \in Waits : /\ waits[w].job \in {"none", "pending", "running", "done", "deleted"}
                        /\ waits[w].item \in {"none", "pending", "settled"}
                        /\ (waits[w].job = "running") = (waits[w].lease # None)

\* A wait ends in one note: a timer reaped while it fires, a sleep that comes
\* due as somebody wakes it, a process that dies before it closes the job.
NotedOnce == \A w \in Waits : notes[w].written <= 1

\* A message sent while the agent sleeps is answered once: by the wake turn or
\* by its own, given back when the hold lifts, never by both (write_tx before
\* the resume, in the settle's transaction).
AnsweredOnce == \A m \in Messages : answers[m] <= 1

\* A wake turn answers one person, and is theirs: it carries that person's
\* connections, never one person's on another's words.
OneAsker == \A w \in Waits : \A m \in notes[w].answers : Sender[m] = notes[w].asker

\* A timer whose cancelling was confirmed never fires.
CancelledSilent == \A w \in Waits : waits[w].job = "deleted" => notes[w].written = 0
=============================================================================
