---------------------------- MODULE TurnReplies ----------------------------
(***************************************************************************)
(* The replies of one conversation: what a turn writes, from the message   *)
(* that asks for it to the transaction that closes it (sessions.rs,        *)
(* work.rs, worker/turn.rs, worker/sweeps.rs, chat/postgres.rs), and the   *)
(* messages the gateway hands to a turn already running (routing.rs).      *)
(*                                                                         *)
(* The queue is JobQueue's, seen through one serial key: one turn of the   *)
(* conversation runs at a time, and a claim is named by the pod that made  *)
(* it. A reply is a row, never reused; its words are events until the turn *)
(* closes, and what it said is whether any were shown.                     *)
(***************************************************************************)
EXTENDS Naturals, Sequences, FiniteSets

CONSTANTS
    Prompts,      \* the messages a person sends, in order
    Pods,         \* claims, each with its runtime
    Reaper,       \* the sweep that takes back lapsed leases
    Nobody,       \* no claim
    MaxAttempts, MaxReleases,
    Crashes,      \* how often a pod dies
    Stalls,       \* how often a lease lapses under a pod that goes on
    Retries,      \* how often a person asks again
    Parks,        \* how often a turn waits on an approval
    Backs         \* how often a runtime hands one back

PromptsAssumption ==
    /\ Prompts \subseteq Nat \ {0} /\ Nobody \notin Pods /\ Reaper \notin Pods
    /\ {MaxAttempts, MaxReleases, Crashes, Stalls, Retries, Parks, Backs} \subseteq Nat
    /\ MaxAttempts > 0

VARIABLES
    sent,      \* agent_messages: the messages written
    absorbed,  \* absorbed_by, a row's number or 0
    job,       \* the turn of each message
    rows,      \* agent_messages: the replies, by number
    told,      \* whether a chat.error says the turn came to nothing
    pod,       \* what each pod, and the sweep, is doing
    left       \* what remains of the bounds

vars == <<sent, absorbed, job, rows, told, pod, left>>

Procs == Pods \cup {Reaper}
Over == {"succeeded", "failed", "parked"}

Idle == [pc |-> "idle", p |-> 0, a |-> 0, id |-> 0, mine |-> 0, good |-> FALSE, parks |-> FALSE]
NoJob == [st |-> "none", holder |-> Nobody, tries |-> 0, rel |-> 0, answered |-> FALSE]

Init ==
    /\ sent = {} /\ absorbed = [p \in Prompts |-> 0]
    /\ job = [p \in Prompts |-> NoJob]
    /\ rows = <<>> /\ told = [p \in Prompts |-> FALSE]
    /\ pod = [w \in Procs |-> Idle]
    /\ left = [crash |-> Crashes, stall |-> Stalls, retry |-> Retries, park |-> Parks, back |-> Backs]

At(w, pc) == pod[w].pc = pc
Go(w, r) == pod' = [pod EXCEPT ![w] = r]
To(w, pc) == Go(w, [pod[w] EXCEPT !.pc = pc])
Spent(k) == left[k] > 0 /\ left' = [left EXCEPT ![k] = @ - 1]

Holds(w) == pod[w].p # 0 /\ job[pod[w].p].st = "running" /\ job[pod[w].p].holder = w
Closed(j, st) == [j EXCEPT !.st = st, !.holder = Nobody]

Ids == 1..Len(rows)
Here(i) == i \in Ids /\ rows[i].st # "deleted"
RepliesTo(p) == {i \in Ids : rows[i].p = p /\ Here(i)}
CurrentAttempt(p) ==
    IF RepliesTo(p) = {} THEN 1
    ELSE CHOOSE a \in {rows[i].a : i \in RepliesTo(p)} : \A i \in RepliesTo(p) : rows[i].a <= a
AttemptAt(p, a) == {i \in RepliesTo(p) : rows[i].a = a}
TheRow(p, a) == CHOOSE i \in AttemptAt(p, a) : TRUE

\* said_something asks the row, which is written only when the reply finishes.
SaidSomething(i) == rows[i].shown /\ rows[i].st # "open"

\* seal_interrupted: an unfinished reply is written down from its events.
Sealed(R, i) == IF R[i].st = "open" /\ R[i].shown THEN [R EXCEPT ![i].st = "sealed"] ELSE R

-----------------------------------------------------------------------------
(* Asking. *)

\* The guard against writing past a reply no turn was queued to fill.
Abandoned == \E i \in Ids : Here(i) /\ ~SaidSomething(i) /\ job[rows[i].p].st = "none"

\* send_message: the message is written...
Send(p) ==
    /\ p \notin sent /\ \A q \in Prompts : q < p => q \in sent
    /\ ~Abandoned
    /\ sent' = sent \cup {p}
    /\ UNCHANGED <<absorbed, job, rows, told, pod, left>>

\* ... and enqueue_turn, in a transaction of its own, queues its turn.
EnqueueTurn(p) ==
    /\ p \in sent /\ job[p].st = "none"
    /\ job' = [job EXCEPT ![p].st = "pending"]
    /\ UNCHANGED <<sent, absorbed, rows, told, pod, left>>

\* retry_turn, on a turn that failed.
RetryTurn(p) ==
    /\ job[p].st = "failed" /\ Spent("retry")
    /\ job' = [job EXCEPT ![p] = [@ EXCEPT !.st = "pending", !.tries = 0]]
    /\ told' = [told EXCEPT ![p] = FALSE]
    /\ UNCHANGED <<sent, absorbed, rows, pod>>

\* Somebody answers what the turn was parked on.
Answer(p) ==
    /\ job[p].st = "parked"
    /\ job' = [job EXCEPT ![p] = [@ EXCEPT !.st = "pending", !.answered = TRUE]]
    /\ UNCHANGED <<sent, absorbed, rows, told, pod, left>>

-----------------------------------------------------------------------------
(* Preparing: work::take and prepare_turn. *)

\* claim: the first that is due, by priority, run_after and id, while no turn of
\* the conversation runs. A failure's backoff, a hand-back's delay and a resume
\* write run_after, which is not kept here: any pending turn may be the first, a
\* later message's ahead of one that was put back.
Take(w, p) ==
    /\ At(w, "idle") /\ job[p].st = "pending"
    /\ \A q \in Prompts : job[q].st # "running"
    /\ job' = [job EXCEPT ![p] = [job[p] EXCEPT !.st = "running", !.holder = w, !.tries = @ + 1]]
    /\ Go(w, [Idle EXCEPT !.pc = "taken", !.p = p])
    /\ UNCHANGED <<sent, absorbed, rows, told, left>>

WasAbsorbed(p) == absorbed[p] # 0

\* Prepared::Nothing: it was answered inside the turn it interrupted.
Nothing(w) ==
    /\ At(w, "taken") /\ WasAbsorbed(pod[w].p)
    /\ job' = IF Holds(w) THEN [job EXCEPT ![pod[w].p] = Closed(@, "succeeded")] ELSE job
    /\ Go(w, Idle)
    /\ UNCHANGED <<sent, absorbed, rows, told, left>>

Begin(w) ==
    /\ At(w, "taken") /\ ~WasAbsorbed(pod[w].p)
    /\ To(w, "deciding")
    /\ UNCHANGED <<sent, absorbed, job, rows, told, left>>

\* attempt_for: the next attempt after one that finished and was answered, or
\* that said something; otherwise the same one, which nobody saw.
NextAttempt(R, p, a, resuming) ==
    LET i == TheRow(p, a) IN
    IF (R[i].st # "open" /\ resuming) \/ (R[i].st # "open" /\ R[i].shown) THEN a + 1 ELSE a

AttemptFor(w) ==
    LET p == pod[w].p
        a == CurrentAttempt(p) IN
    /\ At(w, "deciding")
    /\ IF RepliesTo(p) = {}
         THEN rows' = rows /\ Go(w, [pod[w] EXCEPT !.pc = "claiming", !.a = 1])
         ELSE LET sealed == Sealed(rows, TheRow(p, a)) IN
              /\ rows' = sealed
              /\ Go(w, [pod[w] EXCEPT !.pc = "claiming",
                                      !.a = NextAttempt(sealed, p, a, job[p].answered)])
    /\ UNCHANGED <<sent, absorbed, job, told, left>>

\* claim_placeholder: the row of this attempt, made if it is not there.
ClaimPlaceholder(w, p, a, pc, pcOld) ==
    IF AttemptAt(p, a) = {}
      THEN /\ rows' = Append(rows, [p |-> p, a |-> a, st |-> "open", shown |-> FALSE, how |-> "none"])
           /\ Go(w, [pod[w] EXCEPT !.pc = pc, !.id = Len(rows) + 1])
      ELSE /\ rows' = rows
           /\ Go(w, [pod[w] EXCEPT !.pc = pcOld, !.id = TheRow(p, a)])

ClaimForTurn(w) ==
    /\ At(w, "claiming")
    /\ ClaimPlaceholder(w, pod[w].p, pod[w].a, "ready", "returning")
    /\ UNCHANGED <<sent, absorbed, job, told, left>>

\* What the lost attempt had taken goes back to pending.
GivenBack(i) == [p \in Prompts |-> IF absorbed[p] = i THEN 0 ELSE absorbed[p]]

TakeBack(w) ==
    /\ At(w, "returning")
    /\ absorbed' = GivenBack(pod[w].id)
    /\ To(w, "ready")
    /\ UNCHANGED <<sent, job, rows, told, left>>

FailedAs(j, forGood) ==
    Closed(j, IF forGood \/ j.tries >= MaxAttempts THEN "failed" ELSE "pending")

\* It cannot be prepared: the job is failed first, and the reply abandoned after.
CannotPrepare(w) ==
    /\ pod[w].pc \in {"taken", "deciding", "claiming", "returning", "ready"}
    /\ job' = IF Holds(w) THEN [job EXCEPT ![pod[w].p] = FailedAs(@, FALSE)] ELSE job
    /\ IF job[pod[w].p].tries >= MaxAttempts THEN To(w, "sealing") ELSE Go(w, Idle)
    /\ UNCHANGED <<sent, absorbed, rows, told, left>>

\* The runtime starts with a whole lease, or is not handed the turn.
HandOut(w) ==
    /\ At(w, "ready")
    /\ Go(w, IF Holds(w) THEN [pod[w] EXCEPT !.pc = "out", !.mine = pod[w].id] ELSE Idle)
    /\ UNCHANGED <<sent, absorbed, job, rows, told, left>>

-----------------------------------------------------------------------------
(* Running: the gateway's calls, and the report. *)

\* Mutant: a message with a turn of its own under way is taken too.
PendingAnyway(i) == {p \in sent : absorbed[p] = 0 /\ p # rows[i].p}
\* What nobody has answered and nobody has taken. Who sent it, and skills, are
\* not told apart.
Pending(i) == {p \in sent : absorbed[p] = 0 /\ RepliesTo(p) = {}}

\* take_pending, on a model call. A reply that is gone can take nothing.
TakePending(w) ==
    LET i == pod[w].mine IN
    /\ pod[w].pc \in {"out", "streaming"} /\ Here(i)
    /\ Pending(i) # {}
    /\ absorbed' = [p \in Prompts |-> IF p \in Pending(i) THEN i ELSE absorbed[p]]
    /\ UNCHANGED <<sent, job, rows, told, pod, left>>

\* report: only while it holds the lease.
Report(w) ==
    /\ At(w, "out")
    /\ IF Holds(w) THEN To(w, "reporting") ELSE Go(w, Idle)
    /\ UNCHANGED <<sent, absorbed, job, rows, told, left>>

\* finish_turn takes back the attempt that prepare_turn settled on.
ClaimForReport(w) ==
    /\ At(w, "reporting")
    /\ ClaimPlaceholder(w, pod[w].p, CurrentAttempt(pod[w].p), "streaming", "streaming")
    /\ UNCHANGED <<sent, absorbed, job, told, left>>

\* consume_turn: what the runtime says is an event on the reply, whoever has
\* the lease by now.
Stream(w) ==
    /\ At(w, "streaming") /\ Here(pod[w].id) /\ ~rows[pod[w].id].shown
    /\ rows' = [rows EXCEPT ![pod[w].id].shown = TRUE]
    /\ UNCHANGED <<sent, absorbed, job, told, pod, left>>

\* Its result: a reply, one that waits on an approval, or a failure, which may
\* be for good.
Done(w) ==
    /\ At(w, "streaming")
    /\ To(w, "checking")
    /\ UNCHANGED <<sent, absorbed, job, rows, told, left>>

Awaits(w) ==
    /\ At(w, "streaming") /\ (Here(pod[w].id) => rows[pod[w].id].shown)
    /\ Spent("park")
    /\ Go(w, [pod[w] EXCEPT !.pc = "checking", !.parks = TRUE])
    /\ UNCHANGED <<sent, absorbed, job, rows, told>>

Breaks(w, forGood) ==
    /\ At(w, "streaming")
    /\ Go(w, [pod[w] EXCEPT !.pc = "failing", !.good = forGood])
    /\ UNCHANGED <<sent, absorbed, job, rows, told, left>>

-----------------------------------------------------------------------------
(* Closing: the rest of finish_turn. *)

\* Still its own, before anything final is written.
CheckLease(w) ==
    /\ At(w, "checking")
    /\ IF Holds(w) THEN To(w, "closing") ELSE Go(w, Idle)
    /\ UNCHANGED <<sent, absorbed, job, rows, told, left>>

StillHeld(w) == Holds(w)

\* The reply's final write, chat.done and the job's closing, or none of them.
\* A reply that is gone fails the transaction, and the lease is left to lapse.
Close(w) ==
    LET how == IF pod[w].parks THEN "parked" ELSE "succeeded"
        closed == Closed(job[pod[w].p], how) IN
    /\ At(w, "closing")
    /\ IF StillHeld(w) /\ Here(pod[w].id)
         THEN /\ rows' = [rows EXCEPT ![pod[w].id] = [@ EXCEPT !.st = "closed", !.how = how]]
              /\ job' = [job EXCEPT ![pod[w].p] =
                            IF how = "parked" THEN [closed EXCEPT !.tries = @ - 1] ELSE closed]
         ELSE UNCHANGED <<rows, job>>
    /\ Go(w, Idle)
    /\ UNCHANGED <<sent, absorbed, told, left>>

GivesUp(w) == pod[w].good \/ job[pod[w].p].tries >= MaxAttempts

\* The failure: nothing is said of it by a pod whose lease lapsed. One that is
\* not the last is only told.
CheckFailure(w) ==
    /\ At(w, "failing")
    /\ IF Holds(w) THEN To(w, IF GivesUp(w) THEN "sealing" ELSE "recording") ELSE Go(w, Idle)
    /\ UNCHANGED <<sent, absorbed, job, rows, told, left>>

\* abandon_payload_with: the latest attempt is sealed if it said anything...
Seal(w) ==
    LET p == pod[w].p
        a == CurrentAttempt(p) IN
    /\ At(w, "sealing")
    /\ rows' = IF AttemptAt(p, a) = {} THEN rows ELSE Sealed(rows, TheRow(p, a))
    /\ Go(w, [pod[w] EXCEPT !.pc = "discarding", !.a = a])
    /\ UNCHANGED <<sent, absorbed, job, told, left>>

\* The chat.error of a turn given up on.
Told(p) == [told EXCEPT ![p] = TRUE]

\* ... and deleted if it did not, which gives back what it had taken; and the
\* reader is told.
Discard(w) ==
    LET p == pod[w].p
        gone == {i \in AttemptAt(p, pod[w].a) : ~SaidSomething(i)} IN
    /\ At(w, "discarding")
    /\ rows' = [i \in Ids |-> IF i \in gone THEN [rows[i] EXCEPT !.st = "deleted"] ELSE rows[i]]
    /\ absorbed' = [q \in Prompts |-> IF absorbed[q] \in gone THEN 0 ELSE absorbed[q]]
    /\ told' = Told(p)
    /\ To(w, "recording")
    /\ UNCHANGED <<sent, job, left>>

\* fail and fail_for_good, matched on the lease: the sweep and a turn that could
\* not be prepared had failed the job already, so theirs matches nothing.
RecordFailure(w) ==
    /\ At(w, "recording")
    /\ job' = IF Holds(w) THEN [job EXCEPT ![pod[w].p] = FailedAs(@, pod[w].good)] ELSE job
    /\ told' = IF Holds(w) THEN [told EXCEPT ![pod[w].p] = TRUE] ELSE told
    /\ Go(w, Idle)
    /\ UNCHANGED <<sent, absorbed, rows, left>>

\* abandon and Unanswered: handed back, and too often is the end of it.
HandBack(w) ==
    LET j == job[pod[w].p]
        st == IF j.rel + 1 >= MaxReleases THEN "failed" ELSE "pending" IN
    /\ pod[w].pc \in {"ready", "out", "streaming"} /\ Spent("back")
    /\ job' = IF Holds(w)
                THEN [job EXCEPT ![pod[w].p] = [Closed(j, st) EXCEPT !.rel = @ + 1, !.tries = @ - 1]]
                ELSE job
    /\ Go(w, Idle)
    /\ UNCHANGED <<sent, absorbed, rows, told>>

-----------------------------------------------------------------------------
(* Faults, and the sweep. *)

Crash(w) ==
    /\ ~At(w, "idle") /\ Spent("crash")
    /\ Go(w, Idle)
    /\ UNCHANGED <<sent, absorbed, job, rows, told>>

\* A lease is lost with its pod, or lapses under one that has stalled.
Lapsed(p) ==
    LET w == job[p].holder IN
    /\ job[p].st = "running"
    /\ IF pod[w].p = p THEN Spent("stall") ELSE UNCHANGED left

\* Mutant: the sweep leaves a turn that has attempts left where it is.
ReapedLast(p) == job[p].tries >= MaxAttempts
Reapable(p) == TRUE

\* reap_abandoned; what it gives up on is abandoned after.
Reap(p) ==
    /\ At(Reaper, "idle") /\ Reapable(p) /\ Lapsed(p)
    /\ job' = [job EXCEPT ![p] = FailedAs(@, FALSE)]
    /\ IF job[p].tries >= MaxAttempts THEN Go(Reaper, [Idle EXCEPT !.pc = "sealing", !.p = p])
       ELSE UNCHANGED pod
    /\ UNCHANGED <<sent, absorbed, rows, told>>

-----------------------------------------------------------------------------

Abandon(w) == Seal(w) \/ Discard(w) \/ RecordFailure(w)

Turn(w) ==
    \/ \E p \in Prompts : Take(w, p)
    \/ Nothing(w) \/ Begin(w) \/ AttemptFor(w) \/ ClaimForTurn(w) \/ TakeBack(w)
    \/ HandOut(w) \/ Report(w) \/ ClaimForReport(w)
    \/ Done(w) \/ Awaits(w) \/ \E forGood \in BOOLEAN : Breaks(w, forGood)
    \/ CheckLease(w) \/ Close(w) \/ CheckFailure(w) \/ Abandon(w)

Next ==
    \/ \E p \in Prompts : Send(p) \/ EnqueueTurn(p) \/ RetryTurn(p) \/ Answer(p) \/ Reap(p)
    \/ \E w \in Pods : Turn(w) \/ CannotPrepare(w) \/ TakePending(w) \/ Stream(w)
                       \/ HandBack(w) \/ Crash(w)
    \/ Abandon(Reaper)

Spec == Init /\ [][Next]_vars

\* A pod at work goes on, somebody asks for work, and the sweep runs.
Fairness ==
    /\ \A w \in Pods : WF_vars(Turn(w))
    /\ WF_vars(Abandon(Reaper)) /\ \A p \in Prompts : WF_vars(Reap(p))
FairSpec == Spec /\ Fairness

-----------------------------------------------------------------------------
(* Properties. *)

RowStates == {"open", "sealed", "closed", "deleted"}

TypeOK ==
    /\ sent \subseteq Prompts /\ absorbed \in [Prompts -> 0..Len(rows)]
    /\ \A p \in Prompts :
          /\ job[p].st \in {"none", "pending", "running"} \cup Over
          /\ job[p].holder \in Pods \cup {Nobody} /\ job[p].tries \in 0..MaxAttempts
    /\ \A i \in Ids : rows[i].p \in Prompts /\ rows[i].st \in RowStates /\ rows[i].shown \in BOOLEAN
    /\ told \in [Prompts -> BOOLEAN]
    /\ \A w \in Procs : pod[w].p \in Prompts \cup {0} /\ pod[w].id \in 0..Len(rows)

\* One answer to one prompt, whoever's lease lapsed and whatever a person asked
\* again for: the closing is in the commit that makes the reply final.
OneAnswer ==
    \A i, k \in Ids :
        rows[i].p = rows[k].p /\ rows[i].how = "succeeded" /\ rows[k].how = "succeeded" => i = k

\* A finished turn leaves no reply of it still open: the reader is not left
\* with one that goes on for ever.
NothingOpen ==
    \A i \in Ids :
        job[rows[i].p].st = "succeeded" => rows[i].st # "open"

\* What a reader has been shown stays: no step deletes a reply that streamed,
\* and none takes a finished one back.
ShownKept ==
    \A i \in Ids : rows[i].shown => rows'[i].st # "deleted" /\ rows'[i].shown
                      /\ (rows[i].st = "closed" => rows'[i] = rows[i])

\* A message is answered by the turn that took it or by its own, not by both.
AnsweredOnce ==
    \A p \in Prompts : absorbed[p] # 0 => \A i \in RepliesTo(p) : rows[i].how # "succeeded"

\* A turn that came to nothing is told to whoever is reading, once whoever
\* gave up on it has finished; one handed back too often tells nobody, and is
\* left out by bounding Backs below MaxReleases (jobs::release).
FailedTold ==
    \A p \in Prompts :
        job[p].st = "failed" /\ (\A w \in Procs : pod[w].p # p) => told[p]

\* The turns of a conversation are jobs of one serial key, and move as the queue
\* says such jobs do: never two running, each along an arrow of SerialQueue.
JobStates == [p \in Prompts |-> IF job[p].st = "none" THEN "absent" ELSE job[p].st]
Queue == INSTANCE SerialQueue WITH
             Jobs <- Prompts, Key <- [p \in Prompts |-> "session"], NoKey <- "none",
             state <- JobStates
FollowsQueue == Queue!Spec
QueueSteps == [Queue!Next]_JobStates
=============================================================================
