------------------------------ MODULE Triggers ------------------------------
(***************************************************************************)
(* Turns nobody asked for: the pipeline every trigger fires through        *)
(* (trigger.rs), the loops that take schedules as they come due            *)
(* (schedule/worker.rs), and the deliveries that reach a hook's path       *)
(* (webhooks.rs, webhook/), signed ones and mail.  A worker is a schedule  *)
(* loop or a request being handled; what it does between two awaits is one *)
(* step.  Time is counted in ticks, Sub of them to a second.               *)
(***************************************************************************)
EXTENDS Integers, FiniteSets, FiniteSetsExt, Sequences, SequencesExt

CONSTANTS Scheds, Hooks, Mails, \* triggers of kind schedule, webhook (hmac), email
          Workers, Admins,
          Packets,   \* signed deliveries: [t, body, named, sent]
          Letters,   \* messages mailed: [t, id, user, domain, origin, written]
          Senders,   \* [Mails -> who the trigger allows], on top of authentication
          Periods,   \* what a schedule may be edited to: ticks between firings
          Sub,       \* ticks to a second
          Tolerance, \* TIMESTAMP_TOLERANCE_SECS
          Hour, Keep,\* ticks of the hourly window, and a firing is remembered for
          MaxPerHour, MaxConcurrent,
          Budget,    \* how often each fault, edit or delivery may happen
          MaxTime,   \* bound on the clock
          None

TriggersAssumption == {Sub, Hour, Keep, MaxPerHour, MaxConcurrent} \subseteq Nat \ {0}

Triggers == Scheds \cup Hooks \cup Mails

VARIABLES now,
          sched,      \* [Scheds -> [there, enabled, period, next, lost]]; next: [at, period];
                      \* lost: whoever took its firing never wrote the one after it
          hook,       \* [Mails -> [scheme, secret]]: whether it keeps a secret
          window,     \* [Triggers -> [start, count]]
          running,    \* [Triggers -> its turns not yet finished]
          firings,    \* trigger_firings: [t, ext, at]
          deliveries, \* webhook_deliveries: [t, sig, until, by]
          starts,     \* the turns started, in order: [t, ext, sig, at, letter]
          told,       \* signatures somebody was told had been accepted already
          work,       \* what each worker is doing
          edit,       \* what each person editing a mail hook has read
          left

vars == <<now, sched, hook, window, running, firings, deliveries, starts, told, work, edit, left>>
Rows == <<sched, hook, window, running>>

Idle == [pc |-> "idle", t |-> None, ext |-> None, sig |-> None, until |-> None,
         next |-> None, claimed |-> FALSE, letter |-> None, result |-> None]

NoSched == [there |-> FALSE, enabled |-> FALSE, period |-> None, next |-> None, lost |-> FALSE]

Init ==
    /\ now = 0
    /\ sched = [s \in Scheds |-> NoSched]
    /\ hook = [m \in Mails |-> [scheme |-> "path", secret |-> FALSE]]
    /\ window = [t \in Triggers |-> [start |-> 0, count |-> 0]]
    /\ running = [t \in Triggers |-> 0]
    /\ firings = {} /\ deliveries = {} /\ starts = <<>> /\ told = {}
    /\ work = [w \in Workers |-> Idle]
    /\ edit = [a \in Admins |-> [pc |-> "idle", m |-> None, scheme |-> None, secret |-> FALSE]]
    /\ left = Budget

Spend(f) == left[f] > 0 /\ left' = [left EXCEPT ![f] = @ - 1]

-----------------------------------------------------------------------------
(* A schedule comes due.                                                   *)

\* The first firing after an instant: Cron's next_after, a fixed period here.
next_after(period, at) == [at |-> ((at \div period) + 1) * period, period |-> period]

Due(s) == sched[s].enabled /\ sched[s].next # None /\ sched[s].next.at <= now

\* take_due: one due row, the longest owed, and its next_at cleared; and the
\* successor of the firing owed, past ones passed over (advance).
take_due(w, s) ==
    /\ work[w].pc = "idle" /\ Due(s)
    /\ \A r \in Scheds : Due(r) => sched[s].next.at <= sched[r].next.at
    /\ sched' = [sched EXCEPT ![s].next = None]
    /\ work' = [work EXCEPT ![w] = [Idle EXCEPT !.pc = "seen", !.t = s, !.ext = sched[s].next.at,
                                     !.next = next_after(sched[s].period, now)]]
    /\ UNCHANGED <<now, hook, window, running, firings, deliveries, starts, told, edit, left>>

\* The successor of what is being fired is not written: unless it was saved
\* again meanwhile, the schedule points nowhere.
Dropped(t) == IF t \in Scheds THEN [sched EXCEPT ![t].lost = @ \/ (sched[t].there /\ sched[t].next = None)]
              ELSE sched

\* fire's last step, whatever the firing did; a failure of it is only logged.
record_run(w) ==
    LET s == work[w].t IN
    /\ work[w].pc = "settle" /\ s \in Scheds
    /\ \/ /\ sched' = IF sched[s].there
                       THEN [sched EXCEPT ![s].next = work[w].next, ![s].lost = FALSE] ELSE sched
          /\ UNCHANGED left
       \/ Spend("record") /\ sched' = Dropped(s)
    /\ work' = [work EXCEPT ![w] = Idle]
    /\ UNCHANGED <<now, hook, window, running, firings, deliveries, starts, told, edit>>

\* A schedule as it is saved, its next firing computed afresh.
Saved(p, on, next) == [there |-> TRUE, enabled |-> on, period |-> p, next |-> next, lost |-> FALSE]
Edits == UNCHANGED <<now, hook, window, running, firings, deliveries, starts, told, work, edit>>

create_schedule(s, p, on) ==
    /\ ~sched[s].there /\ Spend("create")
    /\ sched' = [sched EXCEPT ![s] = Saved(p, on, next_after(p, now))]
    /\ Edits
\* update_schedule: one turned off points nowhere.
update_schedule(s, p, on) ==
    /\ sched[s].there /\ Spend("edit")
    /\ sched' = [sched EXCEPT ![s] = Saved(p, on, IF on THEN next_after(p, now) ELSE None)]
    /\ Edits
delete_schedule(s) ==
    /\ sched[s].there /\ Spend("edit")
    /\ sched' = [sched EXCEPT ![s] = NoSched]
    /\ Edits

-----------------------------------------------------------------------------
(* A delivery arrives at a hook's path.                                    *)

Second(t) == t \div Sub
Sig(p) == <<p.t, p.body, p.sent>>

\* A signature verifies while its stamp is within the tolerance of this
\* second, and gives the instant a record of it is kept until.
verify(p) == Second(now) - p.sent \in -Tolerance .. Tolerance

\* Size, path, enabled, then the signature: everything refused here is
\* refused without a write.
deliver(w, p) ==
    /\ work[w].pc = "idle" /\ Spend("send")
    /\ verify(p)
    /\ work' = [work EXCEPT ![w] = [Idle EXCEPT !.pc = "remember", !.t = p.t, !.sig = Sig(p),
                                     !.ext = IF p.named THEN p.body ELSE None,
                                     !.until = (p.sent + Tolerance) * Sub]]
    /\ UNCHANGED <<now, Rows, firings, deliveries, starts, told, edit>>

\* remember: the insert is the check.  A second presentation is answered 409.
Remembered(x) == \E d \in deliveries : d.t = x.t /\ d.sig = x.sig
remember(w) ==
    /\ work[w].pc = "remember"
    /\ LET x == work[w]
       IN IF Remembered(x)
          THEN /\ told' = told \cup {x.sig}
               /\ work' = [work EXCEPT ![w] = Idle]
               /\ UNCHANGED deliveries
          ELSE /\ deliveries' = deliveries \cup {[t |-> x.t, sig |-> x.sig, until |-> x.until, by |-> w]}
               /\ work' = [work EXCEPT ![w].pc = "seen", ![w].claimed = TRUE]
               /\ UNCHANGED told
    /\ UNCHANGED <<now, Rows, firings, starts, edit, left>>

\* forget_expired, from the worker's tick.
forget_expired ==
    /\ \E d \in deliveries : d.until < now
    /\ deliveries' = {d \in deliveries : d.until >= now}
    /\ UNCHANGED <<now, Rows, firings, starts, told, work, edit, left>>

-----------------------------------------------------------------------------
(* Mail.  A domain is its labels, the suffix first.                        *)

\* Whether a domain that passed vouches for another: the same, or a parent
\* of it of two labels at least.
aligned(passed, from) ==
    passed # <<>> /\ (passed = from \/ (Len(passed) > 1 /\ IsStrictPrefix(passed, from)))

\* The receiving server's own results: SPF and DKIM pass for the domain the
\* message truly came from, DMARC where that is aligned with From.
Received(l) ==
    {[method |-> m, pass |-> TRUE, domain |-> l.origin] : m \in {"spf", "dkim"}}
        \cup {[method |-> "dmarc", pass |-> aligned(l.origin, l.domain), domain |-> l.domain]}

\* The topmost Authentication-Results only: DMARC passed, or DKIM or SPF for
\* a domain aligned with the one in From.
authenticated(headers, from) ==
    \E r \in Head(headers) : r.pass /\ (r.method = "dmarc" \/ aligned(r.domain, from))

\* The sender policy.
admit(l) ==
    /\ authenticated(<<Received(l), l.written>>, l.domain)
    /\ \E s \in Senders[l.t] :
          s = <<"*", <<>>>> \/ s = <<l.user, l.domain>> \/ s = <<"@", l.domain>>

\* Mail is known by its Message-ID.  A hook reached by its address alone
\* checks nothing; any other checks its secret, and an empty one never
\* matches.  Mail the policy refuses starts nothing.
receive(w, l) ==
    /\ work[w].pc = "idle" /\ admit(l) /\ Spend("send")
    /\ hook[l.t].scheme # "path" => hook[l.t].secret
    /\ work' = [work EXCEPT ![w] = [Idle EXCEPT !.pc = "seen", !.t = l.t, !.ext = l.id, !.letter = l]]
    /\ UNCHANGED <<now, Rows, firings, deliveries, starts, told, edit>>

-----------------------------------------------------------------------------
(* The pipeline every trigger fires through.                               *)

There(t) == t \in Scheds => sched[t].there
Recorded(t, ext) == \E f \in firings : f.t = t /\ f.ext = ext
Result(w, r) == work' = [work EXCEPT ![w].pc = "settle", ![w].result = r]

\* Seen before, asked first so a duplicate spends no allowance.
seen(w) ==
    /\ work[w].pc = "seen"
    /\ IF work[w].ext # None /\ Recorded(work[w].t, work[w].ext)
       THEN Result(w, "duplicate") ELSE work' = [work EXCEPT ![w].pc = "fire"]
    /\ UNCHANGED <<now, Rows, firings, deliveries, starts, told, edit, left>>

\* admit_in's condition: the hour is over, or has room.
window_open(t) == window[t].start + Hour < now \/ window[t].count < MaxPerHour
\* The hour started afresh, or the firing counted in it.
Counted(t) ==
    IF window[t].start + Hour < now THEN [start |-> now, count |-> 1]
    ELSE [window[t] EXCEPT !.count = @ + 1]

\* over_ceiling's first half: the trigger's turns not yet finished.
Busy(t) == running[t] >= MaxConcurrent

\* Mutant: what was recorded meanwhile is not asked about again.
Again_unasked(w) == FALSE
\* The record is written in the transaction that starts the turn; one there
\* already makes this the second copy.
Again(w) == work[w].ext # None /\ Recorded(work[w].t, work[w].ext)

\* fire's transaction, under the lock on the trigger's row: both halves of
\* the ceiling, the record, then the session, its message and its turn
\* (start_in).  A duplicate found here rolls the count back.
fire(w) ==
    LET x == work[w] t == work[w].t
    IN /\ x.pc = "fire"
       /\ \/ /\ There(t) /\ (Busy(t) \/ ~window_open(t))
             /\ Result(w, "over")
             /\ UNCHANGED <<window, running, firings, starts, left>>
          \/ /\ There(t) /\ ~Busy(t) /\ window_open(t) /\ Again(w)
             /\ Result(w, "duplicate")
             /\ UNCHANGED <<window, running, firings, starts, left>>
          \/ /\ There(t) /\ ~Busy(t) /\ window_open(t) /\ ~Again(w)
             /\ window' = [window EXCEPT ![t] = Counted(t)]
             /\ running' = [running EXCEPT ![t] = @ + 1]
             /\ firings' = IF x.ext = None THEN firings
                           ELSE firings \cup {[t |-> t, ext |-> x.ext, at |-> now]}
             /\ starts' = Append(starts, [t |-> t, ext |-> x.ext, sig |-> x.sig, at |-> now, letter |-> x.letter])
             /\ Result(w, "started")
             /\ UNCHANGED left
          \/ /\ Spend("fail") \* the store errs, and the transaction rolls back
             /\ Result(w, "failed")
             /\ UNCHANGED <<window, running, firings, starts>>
          \/ /\ ~There(t) \* no row to lock
             /\ Result(w, "failed")
             /\ UNCHANGED <<window, running, firings, starts, left>>
       /\ UNCHANGED <<now, sched, hook, deliveries, told, edit>>

\* A turn a trigger started ends.
finish(t) ==
    /\ running[t] > 0
    /\ running' = [running EXCEPT ![t] = @ - 1]
    /\ UNCHANGED <<now, sched, hook, window, firings, deliveries, starts, told, work, edit, left>>

\* forget_old_firings.
forget_old_firings ==
    /\ \E f \in firings : f.at + Keep < now
    /\ firings' = {f \in firings : f.at + Keep >= now}
    /\ UNCHANGED <<now, Rows, deliveries, starts, told, work, edit, left>>

-----------------------------------------------------------------------------
(* Answering a delivery.                                                   *)

\* The claim is released on every path that started nothing.
Releases(r) == r # "started"

\* deliver's last step: the claim given back where nothing started, then the
\* sender's answer.
answer(w) ==
    LET x == work[w]
    IN /\ x.pc = "settle" /\ x.t \notin Scheds
       /\ \/ /\ deliveries' = IF x.claimed /\ Releases(x.result)
                              THEN {d \in deliveries : ~(d.t = x.t /\ d.sig = x.sig /\ d.by = w)}
                              ELSE deliveries
             /\ UNCHANGED left
          \/ /\ x.claimed /\ Releases(x.result) /\ Spend("release")
             /\ UNCHANGED deliveries
       /\ work' = [work EXCEPT ![w] = Idle]
       /\ UNCHANGED <<now, sched, hook, window, running, firings, starts, told, edit>>

-----------------------------------------------------------------------------
(* A mail hook's scheme is changed, and its secret with it.                *)

\* update_trigger reads the hook, and so does rotate_secret, which one that
\* checks no secret refuses,
EditRead(a, m, scheme) ==
    /\ edit[a].pc = "idle" /\ Spend("edit")
    /\ scheme = "rotate" => hook[m].scheme # "path"
    /\ edit' = [edit EXCEPT ![a] = [pc |-> "secret", m |-> m, scheme |-> scheme, secret |-> hook[m].secret]]
    /\ UNCHANGED <<now, Rows, firings, deliveries, starts, told, work>>
\* makes a secret where the scheme needs one and there was none, or clears
\* one no longer checked,
EditSecret(a) ==
    /\ edit[a].pc = "secret"
    /\ hook' = [hook EXCEPT ![edit[a].m].secret =
                   IF (edit[a].scheme = "path") = edit[a].secret THEN ~edit[a].secret
                   ELSE IF edit[a].scheme = "rotate" THEN TRUE ELSE @]
    /\ edit' = [edit EXCEPT ![a].pc = "scheme"]
    /\ UNCHANGED <<now, sched, window, running, firings, deliveries, starts, told, work, left>>
\* and then writes the scheme.
EditScheme(a) ==
    /\ edit[a].pc = "scheme"
    /\ hook' = [hook EXCEPT ![edit[a].m].scheme = IF edit[a].scheme = "rotate" THEN @ ELSE edit[a].scheme]
    /\ edit' = [edit EXCEPT ![a].pc = "idle"]
    /\ UNCHANGED <<now, sched, window, running, firings, deliveries, starts, told, work, left>>

\* A process dies with what it was doing.
Crash(w) ==
    /\ work[w].pc # "idle" /\ Spend("crash")
    /\ work' = [work EXCEPT ![w] = Idle]
    /\ sched' = Dropped(work[w].t)
    /\ UNCHANGED <<now, hook, window, running, firings, deliveries, starts, told, edit>>

Tick ==
    /\ now < MaxTime /\ now' = now + 1
    /\ UNCHANGED <<Rows, firings, deliveries, starts, told, work, edit, left>>

Step(w) ==
    \/ \E s \in Scheds : take_due(w, s)
    \/ remember(w) \/ seen(w) \/ fire(w) \/ record_run(w) \/ answer(w)

Next ==
    \/ Tick \/ forget_expired \/ forget_old_firings
    \/ \E w \in Workers : Step(w) \/ Crash(w)
    \/ \E w \in Workers, p \in Packets : deliver(w, p)
    \/ \E w \in Workers, l \in Letters : receive(w, l)
    \/ \E s \in Scheds : \/ delete_schedule(s)
                         \/ \E p \in Periods, on \in BOOLEAN : create_schedule(s, p, on) \/ update_schedule(s, p, on)
    \/ \E t \in Triggers : finish(t)
    \/ \E a \in Admins : \/ EditSecret(a) \/ EditScheme(a)
                         \/ \E m \in Mails, scheme \in {"path", "basic", "rotate"} : EditRead(a, m, scheme)

Spec == Init /\ [][Next]_vars

-----------------------------------------------------------------------------
Active(w) == work[w].pc # "idle"
Started(sig) == \E i \in DOMAIN starts : starts[i].sig = sig

TypeOK ==
    /\ now \in 0 .. MaxTime
    /\ \A s \in Scheds : sched[s].next = None \/ sched[s].next.at \in Nat
    /\ \A t \in Triggers : window[t].count \in 0 .. MaxPerHour /\ running[t] \in 0 .. MaxConcurrent
    /\ \A w \in Workers : work[w].pc \in {"idle", "remember", "seen", "fire", "settle"}

\* What a sender calls one event -- a delivery's id, a message's, the time a
\* schedule was due -- starts one turn as long as firings are remembered,
\* however many copies race ("two copies racing are then one turn and one
\* Duplicate, never two turns").
EventOnce ==
    \A i, j \in DOMAIN starts :
        i < j /\ starts[i].t = starts[j].t /\ starts[i].ext = starts[j].ext /\ starts[i].ext # None
            => starts[i].at + Keep < starts[j].at

\* A fixed window admits at most twice the ceiling in any hour ("admits up to
\* twice the limit across a boundary").
HourCeiling ==
    \A t \in Triggers, h \in 0 .. now :
        Cardinality({i \in DOMAIN starts : starts[i].t = t /\ starts[i].at \in h .. h + Hour - 1}) <= 2 * MaxPerHour

\* A replay record outlives its request only where a turn started ("Releasing
\* is what keeps the claim meaning this delivery became a turn").
ClaimMeansTurn ==
    \A d \in deliveries : Started(d.sig) \/ \E w \in Workers : work[w].claimed /\ work[w].sig = d.sig

\* A schedule turned on is waiting for a firing or being fired; or its process
\* died on it, or failed to write the successor: "a schedule that stops rather
\* than one that fires twice" (schedule/postgres.rs:204; EventOnce is the
\* second half), until somebody saves it again.
Pointing ==
    \A s \in Scheds : sched[s].enabled =>
        sched[s].next # None \/ sched[s].lost \/ \E w \in Workers : Active(w) /\ work[w].t = s

\* A message starts a turn only where the domain it came from vouches for the
\* one it says it is from, and the trigger allows that sender.
MailVouched ==
    \A i \in DOMAIN starts : starts[i].letter # None =>
        LET l == starts[i].letter
        IN /\ aligned(l.origin, l.domain)
           /\ Senders[l.t] \cap {<<"*", <<>>>>, <<l.user, l.domain>>, <<"@", l.domain>>} # {}

\* A hook keeps a secret exactly when its scheme checks one (update_trigger).
SecretKept ==
    \A m \in Mails : (\A a \in Admins : edit[a].pc = "idle") => (hook[m].scheme = "path") = ~hook[m].secret
=============================================================================
