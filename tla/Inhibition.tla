----------------------------- MODULE Inhibition -----------------------------
(***************************************************************************)
(* Holds, latches and the turns they keep from running: api::work::take,   *)
(* ChatWorker::inhibited and finish_turn (api/src/worker/turn.rs), the     *)
(* inhibitors table, the stop and release endpoints, and the approvals     *)
(* that a gated request raises.                                            *)
(*                                                                         *)
(* A pod takes a turn from the queue and walks it through the statements   *)
(* that decide whether it may run, each a step of its own: operators,      *)
(* approvers and other pods act between any two of them. The queue is seen *)
(* as SerialQueue promises it; a lease is known by the pod that holds it,  *)
(* and a pod whose lease was reaped goes on without knowing.               *)
(***************************************************************************)
EXTENDS Naturals, FiniteSets

CONSTANTS
    Sessions,   \* conversations
    Turns,      \* chat.turn jobs
    SessionOf,  \* the conversation of each turn, which is its serial key
    Person,     \* the turns whose payload carries a user_id
    Pods,       \* take() handlers, each with the runtime it hands a turn to
    Holds,      \* inhibitor ids; a bound on the holds ever taken
    Scopes,     \* the sets of conversations a workspace or an agent hold covers
    MaxLapses,  \* a bound on the leases reaped from a pod that is still working
    NoTurn, NoPod, NoHold

ASSUME TurnsAssumption ==
    /\ SessionOf \in [Turns -> Sessions]
    /\ Person \subseteq Turns
    /\ Scopes \subseteq SUBSET Sessions
    /\ NoTurn \notin Turns /\ NoPod \notin Pods /\ NoHold \notin Holds
ASSUME LapsesAssumption == MaxLapses \in Nat

VARIABLES
    job,       \* the rows of the queue
    latch,     \* agent_sessions.stopped_reason, or "none"
    hold,      \* the inhibitors table, with what has been deleted from it
    item,      \* the action item that stands for a hold
    pod,       \* what each pod is doing, and what it has read
    resuming,  \* holds deleted by hand whose parked turns are not yet given back
    lapses,
    halted     \* history: conversations a stop ended, and no person restarted

vars == <<job, latch, hold, item, pod, resuming, lapses, halted>>

JobStates ==
    {"absent", "pending", "running", "succeeded", "failed", "cancelled", "parked"}
Preparing == {"latch", "holds", "clear", "stop", "nothing", "park", "handout"}
Reporting == {"streaming", "raising", "asking", "done", "closing", "failed"}
Reasons == {"none", "stop", "approval"}

JobRow == [state : JobStates, holder : Pods \cup {NoPod}, cancel : BOOLEAN]
HoldRow == [life : {"unused", "on", "off"}, strength : {"stopped", "suspended"},
            scope : SUBSET Sessions, asker : Turns \cup {NoTurn}]
PodState == [turn : Turns \cup {NoTurn}, pc : {"idle"} \cup Preparing \cup Reporting,
             latched : BOOLEAN, held : Reasons, awaiting : BOOLEAN,
             asked : Holds \cup {NoHold}, cancelled : BOOLEAN, stops : SUBSET Holds]
\* A pod at work has a turn, and one that asks has the hold it asks about.
PodOK(r) == /\ r.pc # "idle" => r.turn \in Turns
            /\ r.pc = "asking" => r.asked \in Holds

Idle == [turn |-> NoTurn, pc |-> "idle", latched |-> FALSE, held |-> "none",
         awaiting |-> FALSE, asked |-> NoHold, cancelled |-> FALSE, stops |-> {}]

Init ==
    /\ job = [t \in Turns |-> [state |-> "absent", holder |-> NoPod, cancel |-> FALSE]]
    /\ latch = [s \in Sessions |-> "none"]
    /\ hold = [h \in Holds |-> [life |-> "unused", strength |-> "stopped",
                                scope |-> {}, asker |-> NoTurn]]
    /\ item = [h \in Holds |-> "none"]
    /\ pod = [p \in Pods |-> Idle]
    /\ resuming = {}
    /\ lapses = 0
    /\ halted = {}

-----------------------------------------------------------------------------
(* What the stores answer. *)

On(h) == hold[h].life = "on"
\* covering: every level above the conversation, in one read.
Covering(s) == {h \in Holds : On(h) /\ s \in hold[h].scope}
StopsOn(s) == {h \in Covering(s) : hold[h].strength = "stopped"}

\* decide: the strongest of the set, and the empty set proceeds.
Verdict(s) ==
    CASE StopsOn(s) # {} -> "stopped"
      [] StopsOn(s) = {} /\ Covering(s) # {} -> "suspended"
      [] OTHER -> "proceed"

\* should_latch: a stop over a pending suspension leaves no latch behind.
ShouldLatch(s) == Verdict(s) = "stopped" /\ Covering(s) = StopsOn(s)

\* approval_on_session: a pending item whose hold, on the session, is still on.
ApprovalOn(s) == \E h \in Holds : On(h) /\ hold[h].scope = {s} /\ item[h] = "pending"

\* stop_session: the first stop's reason is kept.
Stopped(s, why) == [latch EXCEPT ![s] = IF @ = "none" THEN why ELSE @]

Session(p) == SessionOf[pod[p].turn]
Leased(p) ==
    /\ pod[p].turn # NoTurn
    /\ job[pod[p].turn].state = "running" /\ job[pod[p].turn].holder = p
Goto(p, pc) == pod' = [pod EXCEPT ![p].pc = pc]
Rest(p) == pod' = [pod EXCEPT ![p] = Idle]
At(p, pc) == pod[p].pc = pc
\* Every operation on a lease drops it.
Settled(t, s) == [job EXCEPT ![t].state = s, ![t].holder = NoPod]
\* A closing matched on the lease: without it, nothing is written.
Close(p, s) == job' = IF Leased(p) THEN Settled(pod[p].turn, s) ELSE job

\* resume_for_scope: every parked turn of the conversations a hold covered.
Given(S) ==
    [t \in Turns |-> IF job[t].state = "parked" /\ SessionOf[t] \in S
                        THEN [job[t] EXCEPT !.state = "pending"]
                        ELSE job[t]]

-----------------------------------------------------------------------------
(* Taking a turn and deciding whether it may run. *)

\* Mutant: a claim that does not look at the serial key.
ClaimAnyKey(p, t) ==
    /\ At(p, "idle")
    /\ job[t].state = "pending"
    /\ job' = [job EXCEPT ![t].state = "running", ![t].holder = p]
    /\ pod' = [pod EXCEPT ![p] = [Idle EXCEPT !.turn = t, !.pc = "latch",
                                              !.stops = StopsOn(SessionOf[t])]]
    /\ UNCHANGED <<latch, hold, item, resuming, lapses, halted>>

Claim(p, t) ==
    /\ At(p, "idle")
    /\ job[t].state = "pending"
    /\ \A u \in Turns : SessionOf[u] = SessionOf[t] => job[u].state # "running"
    /\ job' = [job EXCEPT ![t].state = "running", ![t].holder = p]
    /\ pod' = [pod EXCEPT ![p] = [Idle EXCEPT !.turn = t, !.pc = "latch",
                                              !.stops = StopsOn(SessionOf[t])]]
    /\ UNCHANGED <<latch, hold, item, resuming, lapses, halted>>

\* was_absorbed: the prompt was answered inside the turn it interrupted.
Absorbed(p) ==
    /\ At(p, "latch")
    /\ Close(p, "succeeded")
    /\ Rest(p)
    /\ UNCHANGED <<latch, hold, item, resuming, lapses, halted>>

\* A stopped conversation declines what no person asked for.
ReadLatch(p) ==
    /\ At(p, "latch")
    /\ LET stopped == latch[Session(p)] # "none"
           declines == stopped /\ pod[p].turn \notin Person
       IN  pod' = [pod EXCEPT ![p].latched = stopped,
                              ![p].pc = IF declines THEN "nothing" ELSE "holds"]
    /\ UNCHANGED <<job, latch, hold, item, resuming, lapses, halted>>

\* Mutants: the latch is left on, or taken off before the verdict is known.
ReadHoldsKeepsLatch(p) ==
    /\ At(p, "holds")
    /\ LET verdict == Verdict(Session(p))
       IN  Goto(p, CASE verdict = "proceed" -> "handout"
                     [] verdict = "stopped" /\ ShouldLatch(Session(p)) -> "stop"
                     [] OTHER -> "park")
    /\ UNCHANGED <<job, latch, hold, item, resuming, lapses, halted>>
ReadHoldsClearsFirst(p) ==
    /\ At(p, "holds")
    /\ LET verdict == Verdict(Session(p))
       IN  Goto(p, CASE pod[p].latched -> "clear"
                     [] ~pod[p].latched /\ verdict = "proceed" -> "handout"
                     [] ~pod[p].latched /\ ShouldLatch(Session(p)) -> "stop"
                     [] OTHER -> "park")
    /\ UNCHANGED <<job, latch, hold, item, resuming, lapses, halted>>

ReadHolds(p) ==
    /\ At(p, "holds")
    /\ LET verdict == Verdict(Session(p))
       IN  Goto(p, CASE verdict = "proceed" /\ pod[p].latched -> "clear"
                     [] verdict = "proceed" /\ ~pod[p].latched -> "handout"
                     [] verdict = "stopped" /\ ShouldLatch(Session(p)) -> "stop"
                     [] OTHER -> "park")
    /\ UNCHANGED <<job, latch, hold, item, resuming, lapses, halted>>

ClearStop(p) ==
    /\ At(p, "clear")
    /\ latch' = [latch EXCEPT ![Session(p)] = "none"]
    /\ halted' = IF pod[p].turn \in Person THEN halted \ {Session(p)} ELSE halted
    /\ Goto(p, "handout")
    /\ UNCHANGED <<job, hold, item, resuming, lapses>>

StopSession(p) ==
    /\ At(p, "stop")
    /\ latch' = Stopped(Session(p), "stop")
    /\ halted' = halted \cup {Session(p)}
    /\ Goto(p, "nothing")
    /\ UNCHANGED <<job, hold, item, resuming, lapses>>

\* Prepared::Nothing completes the job.
Decline(p) ==
    /\ At(p, "nothing")
    /\ Close(p, "succeeded")
    /\ Rest(p)
    /\ UNCHANGED <<latch, hold, item, resuming, lapses, halted>>

\* Prepared::Park keeps it.
Park(p) ==
    /\ At(p, "park")
    /\ Close(p, "parked")
    /\ Rest(p)
    /\ UNCHANGED <<latch, hold, item, resuming, lapses, halted>>

\* The rest of prepare_turn, and the lease renewed as the assignment goes out.
HandOut(p) ==
    /\ At(p, "handout")
    /\ IF Leased(p) THEN Goto(p, "streaming") ELSE Rest(p)
    /\ UNCHANGED <<job, latch, hold, item, resuming, lapses, halted>>

\* A statement of prepare_turn fails; the job is failed below.
PrepareFails(p) ==
    /\ pod[p].pc \in Preparing \ {"nothing", "park"}
    /\ Goto(p, "failed")
    /\ UNCHANGED <<job, latch, hold, item, resuming, lapses, halted>>

-----------------------------------------------------------------------------
(* A turn that is streaming. *)

\* The gateway's poll: only a stop cuts a stream, and what stopped it first
\* is what the turn reports.
Cut(p) ==
    /\ At(p, "streaming")
    /\ pod[p].held = "none"
    /\ Verdict(Session(p)) = "stopped"
    /\ pod' = [pod EXCEPT ![p].held = "stop"]
    /\ UNCHANGED <<job, latch, hold, item, resuming, lapses, halted>>

Awaits(r) == [r EXCEPT !.pc = "streaming", !.held = "approval", !.awaiting = TRUE,
                       !.asked = NoHold]
Refused(r) == [r EXCEPT !.pc = "streaming", !.asked = NoHold]

\* gated::raise, for a gated request: a lease is asked for, and a question
\* already open on the conversation will do. What the turn then reports is the
\* approval, even if a stop has cut the round that made the request.
Raise(p) ==
    /\ At(p, "streaming")
    /\ Leased(p)
    /\ IF ApprovalOn(Session(p))
          THEN pod' = [pod EXCEPT ![p] = Awaits(@)]
          ELSE Goto(p, "raising")
    /\ UNCHANGED <<job, latch, hold, item, resuming, lapses, halted>>

Take(h, strength, scope, asker) ==
    /\ hold[h].life = "unused"
    /\ hold' = [hold EXCEPT ![h] = [life |-> "on", strength |-> strength,
                                    scope |-> scope, asker |-> asker]]

RaiseTake(p, h) ==
    /\ At(p, "raising")
    /\ Take(h, "suspended", {Session(p)}, pod[p].turn)
    /\ pod' = [pod EXCEPT ![p].pc = "asking", ![p].asked = h]
    /\ UNCHANGED <<job, latch, item, resuming, lapses, halted>>

\* action_items_one_pending_approval_per_turn
AskedAlready(t) ==
    \E h \in Holds : t # NoTurn /\ hold[h].asker = t /\ item[h] = "pending"

RaiseItem(p) ==
    /\ At(p, "asking")
    /\ ~AskedAlready(pod[p].turn)
    /\ item' = [item EXCEPT ![pod[p].asked] = "pending"]
    /\ pod' = [pod EXCEPT ![p] = Awaits(@)]
    /\ UNCHANGED <<job, latch, hold, resuming, lapses, halted>>

Withdraw(p) == hold' = [hold EXCEPT ![pod[p].asked].life = "off"]

\* Nobody may answer, a read fails or the item cannot be written: the hold is
\* given back, and nothing is resumed.
RaiseGiveUp(p) ==
    /\ At(p, "asking")
    /\ Withdraw(p)
    /\ pod' = [pod EXCEPT ![p] = Refused(@)]
    /\ UNCHANGED <<job, latch, item, resuming, lapses, halted>>

\* The item could not be written, and somebody else's question is open.
RaiseLost(p) ==
    /\ At(p, "asking")
    /\ ApprovalOn(Session(p))
    /\ Withdraw(p)
    /\ pod' = [pod EXCEPT ![p] = Awaits(@)]
    /\ UNCHANGED <<job, latch, item, resuming, lapses, halted>>

\* Mutant: a turn that a stop cut is finished like any other.
DoneUnlatched(p) ==
    /\ At(p, "streaming")
    /\ halted' = IF pod[p].held = "stop" THEN halted \cup {Session(p)} ELSE halted
    /\ Goto(p, "done")
    /\ UNCHANGED <<job, latch, hold, item, resuming, lapses>>

\* ExecuteEvent::Done in consume_turn: a stop is latched where it cut, unless
\* the turn is waiting on an approval.
Done(p) ==
    /\ At(p, "streaming")
    /\ latch' = IF pod[p].held # "none" /\ ~pod[p].awaiting
                   THEN Stopped(Session(p), pod[p].held) ELSE latch
    /\ halted' = IF pod[p].held = "stop" THEN halted \cup {Session(p)} ELSE halted
    /\ Goto(p, "done")
    /\ UNCHANGED <<job, hold, item, resuming, lapses>>

\* ExecuteEvent::Failed: whatever held the turn is latched before the failure.
Failed(p) ==
    /\ At(p, "streaming")
    /\ latch' = IF pod[p].held # "none" THEN Stopped(Session(p), pod[p].held) ELSE latch
    /\ halted' = IF pod[p].held = "stop" THEN halted \cup {Session(p)} ELSE halted
    /\ Goto(p, "failed")
    /\ UNCHANGED <<job, hold, item, resuming, lapses>>

\* The stream ends without a result.
StreamLost(p) ==
    /\ At(p, "streaming")
    /\ Goto(p, "failed")
    /\ UNCHANGED <<job, latch, hold, item, resuming, lapses, halted>>

\* finish_turn renews the lease and reads whether a stop was asked for...
CheckCancel(p) ==
    /\ At(p, "done")
    /\ IF Leased(p)
          THEN pod' = [pod EXCEPT ![p].pc = "closing",
                                  ![p].cancelled = job[pod[p].turn].cancel]
          ELSE Rest(p)
    /\ UNCHANGED <<job, latch, hold, item, resuming, lapses, halted>>

\* ... and closes the job with the reply, in one transaction.
FinishTurn(p) ==
    /\ At(p, "closing")
    /\ Close(p, CASE pod[p].cancelled -> "cancelled"
                  [] ~pod[p].cancelled /\ pod[p].awaiting -> "parked"
                  [] OTHER -> "succeeded")
    /\ Rest(p)
    /\ UNCHANGED <<latch, hold, item, resuming, lapses, halted>>

\* jobs::fail and fail_for_good; how many attempts are left is JobQueue's.
FailTurn(p) ==
    /\ At(p, "failed")
    /\ \E s \in IF job[pod[p].turn].cancel THEN {"cancelled"} ELSE {"pending", "failed"} :
           Close(p, s)
    /\ Rest(p)
    /\ UNCHANGED <<latch, hold, item, resuming, lapses, halted>>

\* jobs::release: a pod with no room, or one shutting down.
HandBack(p) ==
    /\ pod[p].pc \in Preparing \cup {"streaming"}
    /\ Leased(p)
    /\ \E s \in {"pending", "failed"} : Close(p, s)
    /\ Rest(p)
    /\ UNCHANGED <<latch, hold, item, resuming, lapses, halted>>

PodLost(p) ==
    /\ ~At(p, "idle")
    /\ Rest(p)
    /\ UNCHANGED <<job, latch, hold, item, resuming, lapses, halted>>

-----------------------------------------------------------------------------
(* Everybody else. *)

Submit(t) ==
    /\ job[t].state = "absent"
    /\ job' = [job EXCEPT ![t].state = "pending"]
    /\ UNCHANGED <<latch, hold, item, pod, resuming, lapses, halted>>

\* requeue_failed, by a person.
Retry(t) ==
    /\ job[t].state = "failed"
    /\ job' = [job EXCEPT ![t].state = "pending", ![t].cancel = FALSE]
    /\ UNCHANGED <<latch, hold, item, pod, resuming, lapses, halted>>

RequestCancel(t) ==
    /\ job[t].state \in {"pending", "running", "parked"}
    /\ job' = [job EXCEPT ![t].cancel = TRUE,
                          ![t].state = IF @ = "running" THEN @ ELSE "cancelled"]
    /\ UNCHANGED <<latch, hold, item, pod, resuming, lapses, halted>>

\* The reaper, for a pod that is gone or one that could not renew in time.
Working(t) == \E p \in Pods : pod[p].turn = t /\ job[t].holder = p
Reap(t) ==
    /\ job[t].state = "running"
    /\ Working(t) => lapses < MaxLapses
    /\ lapses' = IF Working(t) THEN lapses + 1 ELSE lapses
    /\ \E s \in IF job[t].cancel THEN {"cancelled"} ELSE {"pending", "failed"} :
           job' = Settled(t, s)
    /\ UNCHANGED <<latch, hold, item, pod, resuming, halted>>

\* stop_workspace, stop_agent.
Stop(h, S) ==
    /\ Take(h, "stopped", S, NoTurn)
    /\ UNCHANGED <<job, latch, item, pod, resuming, lapses, halted>>

\* approvals::request: a hold, then the item that asks about it.
RequestApproval(h, s) ==
    /\ Take(h, "suspended", {s}, NoTurn)
    /\ item' = [item EXCEPT ![h] = "asking"]
    /\ UNCHANGED <<job, latch, pod, resuming, lapses, halted>>

RequestItem(h) ==
    /\ item[h] = "asking"
    /\ item' = [item EXCEPT ![h] = "pending"]
    /\ UNCHANGED <<job, latch, hold, pod, resuming, lapses, halted>>

\* The item could not be raised, so the hold is given back.
RequestFails(h) ==
    /\ item[h] = "asking"
    /\ item' = [item EXCEPT ![h] = "none"]
    /\ hold' = [hold EXCEPT ![h].life = "off"]
    /\ UNCHANGED <<job, latch, pod, resuming, lapses, halted>>

\* settle_and_release: one transaction, and one winner.
Answer(h) ==
    /\ item[h] = "pending"
    /\ item' = [item EXCEPT ![h] = "settled"]
    /\ hold' = [hold EXCEPT ![h].life = "off"]
    /\ job' = IF On(h) THEN Given(hold[h].scope) ELSE job
    /\ UNCHANGED <<latch, pod, resuming, lapses, halted>>

\* release_inhibitor: the hold is deleted, and then its turns are given back.
Release(h) ==
    /\ On(h)
    /\ hold' = [hold EXCEPT ![h].life = "off"]
    /\ resuming' = resuming \cup {h}
    /\ UNCHANGED <<job, latch, item, pod, lapses, halted>>

Resume(h) ==
    /\ h \in resuming
    /\ job' = Given(hold[h].scope)
    /\ resuming' = resuming \ {h}
    /\ UNCHANGED <<latch, hold, item, pod, lapses, halted>>

-----------------------------------------------------------------------------
Prepare(p) ==
    \/ \E t \in Turns : Claim(p, t)
    \/ Absorbed(p) \/ ReadLatch(p) \/ ReadHolds(p) \/ ClearStop(p) \/ StopSession(p)
    \/ Decline(p) \/ Park(p) \/ HandOut(p) \/ PrepareFails(p)

Stream(p) ==
    \/ Cut(p) \/ Raise(p) \/ \E h \in Holds : RaiseTake(p, h)
    \/ RaiseItem(p) \/ RaiseGiveUp(p) \/ RaiseLost(p)
    \/ Done(p) \/ Failed(p) \/ StreamLost(p)
    \/ CheckCancel(p) \/ FinishTurn(p) \/ FailTurn(p) \/ HandBack(p) \/ PodLost(p)

Ask(t) == Submit(t) \/ Retry(t) \/ RequestCancel(t)

Hold(h) ==
    \/ \E S \in Scopes : Stop(h, S)
    \/ \E s \in Sessions : RequestApproval(h, s)
    \/ RequestItem(h) \/ RequestFails(h) \/ Answer(h) \/ Release(h) \/ Resume(h)

Next ==
    \/ \E p \in Pods : Prepare(p) \/ Stream(p)
    \/ \E t \in Turns : Ask(t) \/ Reap(t)
    \/ \E h \in Holds : Hold(h)

Spec == Init /\ [][Next]_vars

-----------------------------------------------------------------------------
TypeOK ==
    /\ job \in [Turns -> JobRow]
    /\ latch \in [Sessions -> Reasons]
    /\ hold \in [Holds -> HoldRow]
    /\ item \in [Holds -> {"none", "asking", "pending", "settled"}]
    /\ pod \in [Pods -> PodState]
    /\ \A p \in Pods : PodOK(pod[p])
    /\ resuming \subseteq Holds
    /\ lapses \in 0 .. MaxLapses
    /\ halted \subseteq Sessions

\* A stop that was on when a turn was taken never sees it run: not the latch,
\* a suspension beside it, a lapsed lease or a second pod gets the turn past
\* the kill switch (inhibited).
KillSwitchHolds ==
    \A p \in Pods : pod[p].pc \in {"clear", "handout"} \cup (Reporting \ {"failed"}) =>
        \A h \in pod[p].stops : ~On(h)

\* A turn that is out with the pod that holds its lease runs in a conversation
\* that is not stopped: the latch is off before the turn is handed out, and
\* nothing but the end of that turn puts it back. It takes every lease having
\* been renewed in time (lapses = 0): a late pod's Done latches too.
RunsUnlatched ==
    lapses = 0 => \A p \in Pods :
        Leased(p) /\ pod[p].pc \in {"handout", "streaming", "raising", "asking"}
            => latch[Session(p)] = "none"

\* A stop needs a person to lift it: once the platform has recorded that a
\* stop ended a turn of a conversation, nothing but a person's turn runs there
\* again, whether or not the hold was released meanwhile (consume_turn: "a
\* hold taken and released while a turn streamed").
StopNeedsPerson ==
    lapses = 0 => \A p \in Pods : Leased(p) /\ At(p, "streaming") /\ pod[p].turn \notin Person
        => Session(p) \notin halted

\* The turns move along the arrows of the queue this module takes for granted.
Queue == INSTANCE SerialQueue WITH
             Jobs <- Turns, Key <- SessionOf, NoKey <- NoTurn,
             state <- [t \in Turns |-> job[t].state]
FollowsQueue == Queue!Spec

\* What is parked has somebody to wake it: a hold that covers it, whose release
\* or answer gives it back, or a release under way. work::take: "What gives it
\* back is `resume_parked`, when somebody releases the hold"; nothing else
\* moves a job out of `parked` (approvals::answer).
ParkedHasWaker ==
    \A t \in Turns : job[t].state = "parked" =>
        \/ Covering(SessionOf[t]) # {}
        \/ \E h \in resuming : SessionOf[t] \in hold[h].scope
=============================================================================
