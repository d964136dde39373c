---------------------------- MODULE HeldRequests ----------------------------
(***************************************************************************)
(* An approved request, from the refusal that raised it to the answer it   *)
(* got: the relay of a gated refusal (gated.rs), the request kept beside   *)
(* its approval and the person's decision (held.rs, approvals.rs), the     *)
(* runtime that marks, sends and reports it under its turn's lease         *)
(* (runner.rs, egress.rs), the record that stops an unkeyed write being    *)
(* sent twice (invocations.rs), and the question asked again when it did   *)
(* not go.  One conversation and one request; `kind` is what the skill     *)
(* declares the operation as: "key" (the recipient dedupes on a key it is  *)
(* sent), "record" (declared, no key: claimed against tool_invocations) or *)
(* "plain" (undeclared).  API handlers that are several statements are     *)
(* several steps here, so leases lapse and people answer between them.     *)
(***************************************************************************)
EXTENDS Integers, Sequences, FiniteSets

CONSTANTS Pods,        \* runtimes that take the conversation's turns
          Relays,      \* gated calls the guest makes in one round
          Kinds,       \* what the operation may be declared as at first
          MAX_ATTEMPTS,\* held.rs of outturn_core: tries per yes
          Budget,      \* how often each fault or retry may happen
          None

FaultKinds == {"lapse", "crash", "edit", "resend", "nobody", "keep", "start", "expire"}

ASSUME HeldAssumption ==
    /\ IsFiniteSet(Pods) /\ None \notin Pods \cup Relays
    /\ Kinds \subseteq {"key", "record", "plain"}
    /\ MAX_ATTEMPTS \in Nat \ {0} /\ Budget \in [FaultKinds -> Nat]

VARIABLES kind, req, items, answering, holds, relays, turn, pods, record, got, faults

vars == <<kind, req, items, answering, holds, relays, turn, pods, record, got, faults>>

ReqStates == {"none", "held", "approved", "declined", "sending",
              "unsent", "unknown", "spent", "done"}
Outcomes == {"answered", "never", "noanswer", "refused"}
Idle == [pc |-> "idle", kind |-> "plain", saw |-> 0, out |-> "refused",
         claimed |-> FALSE, item |-> 0, ret |-> "prepare"]

Init ==
    /\ kind \in Kinds
    /\ req = [state |-> "none", attempts |-> 0, item |-> 0]
    /\ items = <<>>
    /\ answering = {}
    /\ holds = {}
    /\ relays = [r \in Relays |-> [pc |-> "idle", pod |-> None, item |-> 0]]
    /\ turn = [queued |-> TRUE, parked |-> FALSE, lease |-> None]
    /\ pods = [p \in Pods |-> Idle]
    /\ record = "none"
    /\ got = [effects |-> 0, key |-> FALSE, yeses |-> 0, marks |-> 0]
    /\ faults = Budget

Spend(f) == faults[f] > 0 /\ faults' = [faults EXCEPT ![f] = @ - 1]
Leased(p) == turn.lease = p
At(p, pc) == pods[p].pc = pc
\* A runtime that has nothing of the request left keeps nothing of it.
Go(p, pc) == pods' = [pods EXCEPT ![p] = IF pc \in {"guest", "prepare"} THEN [Idle EXCEPT !.pc = pc]
                                                                       ELSE [@ EXCEPT !.pc = pc]]
Open(i) == items[i].state = "pending"
OpenApproval == \E i \in DOMAIN items : Open(i) /\ ~items[i].followup

-----------------------------------------------------------------------------
(* The relay of a refusal: gated::raise, called while the guest runs.      *)

\* A refusal of this request relayed under the turn's lease.  The gate is
\* judged again here; what is not gated or does not match raises nothing.
\* An approval already open on the conversation answers the call.
Relay(r) ==
    \E p \in Pods :
        /\ Leased(p) /\ At(p, "guest")
        /\ relays[r].pc = "idle" /\ req.state = "none"
        /\ relays' = [relays EXCEPT ![r] = [pc |-> IF OpenApproval THEN "done" ELSE "take",
                                            pod |-> p, item |-> 0]]
        /\ UNCHANGED <<kind, req, items, answering, holds, turn, pods, record, got, faults>>

\* The suspension of the conversation, taken before anybody is asked.
TakeHold(r) ==
    /\ relays[r].pc = "take"
    /\ holds' = holds \cup {r}
    /\ relays' = [relays EXCEPT ![r].pc = "targets"]
    /\ UNCHANGED <<kind, req, items, answering, turn, pods, record, got, faults>>

\* Who is asked; where it cannot be read, or nobody may answer, the hold is
\* given back and the request stays refused.
Targets(r) ==
    /\ relays[r].pc = "targets"
    /\ \/ /\ relays' = [relays EXCEPT ![r].pc = "raise"]
          /\ UNCHANGED <<holds, faults>>
       \/ /\ Spend("nobody")
          /\ relays' = [relays EXCEPT ![r].pc = "done"]
          /\ holds' = holds \ {r}
    /\ UNCHANGED <<kind, req, items, answering, turn, pods, record, got>>

\* The question, in a transaction of its own.  The unique index lets one be
\* open in a conversation: the loser of the race gives its hold back.
RaiseItem(r) ==
    /\ relays[r].pc = "raise"
    /\ IF OpenApproval
       THEN /\ relays' = [relays EXCEPT ![r].pc = "done"]
            /\ holds' = holds \ {r}
            /\ UNCHANGED items
       ELSE /\ items' = Append(items, [state |-> "pending", followup |-> FALSE, hold |-> r])
            /\ relays' = [relays EXCEPT ![r].pc = "keep", ![r].item = Len(items) + 1]
            /\ UNCHANGED holds
    /\ UNCHANGED <<kind, req, answering, turn, pods, record, got, faults>>

\* held::hold, after the item is committed; where it fails the approval
\* stands and answering it mints a grant for the turn instead.
Keep(r) ==
    /\ relays[r].pc = "keep"
    /\ relays' = [relays EXCEPT ![r].pc = "done"]
    /\ \/ /\ req' = [state |-> "held", attempts |-> 0, item |-> relays[r].item]
          /\ UNCHANGED faults
       \/ Spend("keep") /\ UNCHANGED req
    /\ UNCHANGED <<kind, items, answering, holds, turn, pods, record, got>>

\* The guest is told to park: its turn ends when every relay was answered.
Told(p) == \E r \in Relays : relays[r].pod = p /\ relays[r].pc = "done"
Relaying(p) == \E r \in Relays : relays[r].pod = p /\ relays[r].pc \notin {"idle", "done"}

-----------------------------------------------------------------------------
(* What a person decides.                                                  *)

\* The states a decision moves a request from, and to.
transition(d) ==
    CASE d = "approve" -> [from |-> {"held"}, to |-> "approved"]
      [] d = "decline" -> [from |-> {"held"}, to |-> "declined"]
      [] d = "resend"  -> [from |-> {"unsent", "unknown"}, to |-> "approved"]
      [] d = "done"    -> [from |-> {"unsent", "unknown"}, to |-> "done"]

\* Matched on the item the request answers to and on its state; no row is no
\* error.  A yes starts the tries over.
decide_tx(i, d) ==
    IF req.item = i /\ req.state \in transition(d).from
    THEN /\ req' = [req EXCEPT !.state = transition(d).to,
                       !.attempts = IF transition(d).to = "approved" THEN 0 ELSE @]
         /\ got' = IF transition(d).to = "approved"
                   THEN [got EXCEPT !.yeses = @ + 1, !.marks = 0]
                   ELSE got
    ELSE UNCHANGED <<req, got>>

\* The item read from the caller's queue, and whether it holds a request, both
\* before the settle.
ReadAnswer(i) ==
    /\ Open(i) /\ ~items[i].followup
    /\ answering' = answering \cup {[item |-> i, holds |-> req.item = i, resend |-> FALSE]}
    /\ UNCHANGED <<kind, req, items, holds, relays, turn, pods, record, got, faults>>

\* settle_and_release: the item settled if it is still pending, the hold
\* lifted, the parked turn given back and the request decided, together.
Answer(a, approved) ==
    /\ a \in answering /\ ~a.resend
    /\ answering' = answering \ {a}
    /\ IF Open(a.item)
       THEN /\ items' = [items EXCEPT ![a.item].state = "settled"]
            /\ holds' = holds \ {items[a.item].hold}
            /\ turn' = IF turn.parked /\ holds' = {}
                       THEN [turn EXCEPT !.parked = FALSE, !.queued = TRUE] ELSE turn
            /\ IF a.holds THEN decide_tx(a.item, IF approved THEN "approve" ELSE "decline")
                          ELSE UNCHANGED <<req, got>>
       ELSE UNCHANGED <<items, holds, turn, req, got>>
    /\ UNCHANGED <<kind, relays, pods, record, faults>>

\* The follow-up question: send it again, or it is done.  The decision commits
\* alone; a resend then starts a turn in a transaction of its own.
settle_followup(i, d) ==
    /\ Open(i) /\ items[i].followup
    /\ d = "resend" => faults.resend > 0
    /\ faults' = IF d = "resend" THEN [faults EXCEPT !.resend = @ - 1] ELSE faults
    /\ items' = [items EXCEPT ![i].state = "settled"]
    /\ decide_tx(i, d)
    /\ answering' = IF d = "resend"
                    THEN answering \cup {[item |-> i, holds |-> TRUE, resend |-> TRUE]}
                    ELSE answering
    /\ UNCHANGED <<kind, holds, relays, turn, pods, record>>

\* The note and the turn that sends it, written together, where the item
\* holds a request waiting to go.
resend_now(a) ==
    /\ a \in answering /\ a.resend
    /\ answering' = answering \ {a}
    /\ \/ /\ turn' = [turn EXCEPT !.queued = @ \/ (req.item = a.item /\ req.state = "approved")]
          /\ UNCHANGED faults
       \/ Spend("start") /\ UNCHANGED turn
    /\ UNCHANGED <<kind, req, items, holds, relays, pods, record, got>>

\* Somebody writes, and a turn is queued to answer.
NewMessage ==
    /\ ~turn.queued
    /\ turn' = [turn EXCEPT !.queued = TRUE]
    /\ UNCHANGED <<kind, req, items, answering, holds, relays, pods, record, got, faults>>

\* The skill is edited: the operation now takes a key.
EditSkill ==
    /\ kind # "key" /\ Spend("edit")
    /\ kind' = "key"
    /\ UNCHANGED <<req, items, answering, holds, relays, turn, pods, record, got>>

-----------------------------------------------------------------------------
(* The turn that sends it.                                                 *)

\* work::take: one turn of the conversation at a time, none under a hold.
\* recover first reads what a lost turn left going.
Take(p) ==
    /\ At(p, "idle") /\ turn.queued /\ turn.lease = None /\ holds = {}
    /\ turn' = [turn EXCEPT !.queued = FALSE, !.lease = p]
    /\ pods' = [pods EXCEPT ![p] =
                  IF req.state = "sending"
                  THEN [Idle EXCEPT !.pc = "settle", !.saw = req.attempts,
                                    !.out = "noanswer", !.ret = "prepare"]
                  ELSE [Idle EXCEPT !.pc = "prepare"]]
    /\ UNCHANGED <<kind, req, items, answering, holds, relays, record, got, faults>>

\* Mutant: no answer from a recipient with no key is sent again too.
next_again(out, before, keyed) ==
    LET again == IF before + 1 >= MAX_ATTEMPTS THEN "unsent" ELSE "approved" IN
    CASE out = "answered"             -> "spent"
      [] out \in {"never", "noanswer"} -> again
      [] out = "refused"              -> "unsent"

\* What a sent request's outcome means for it, from the tries counted before.
next(out, before, keyed) ==
    LET again == IF before + 1 >= MAX_ATTEMPTS THEN "unsent" ELSE "approved" IN
    CASE out = "answered"            -> "spent"
      [] out = "never"               -> again
      [] out = "noanswer" /\ keyed   -> again
      [] out = "noanswer" /\ ~keyed  -> "unknown"
      [] out = "refused"             -> "unsent"

\* Mutant: written whatever the request has become since it was read.
settle_late(p) ==
    LET to == next(pods[p].out, pods[p].saw, kind = "key") IN
    /\ At(p, "settle")
    /\ req' = [req EXCEPT !.state = to, !.attempts = @ + 1]
    /\ Go(p, IF to \in {"unsent", "unknown"} THEN "ask" ELSE pods[p].ret)
    /\ UNCHANGED <<kind, items, answering, holds, relays, turn, record, got, faults>>

\* The write of what a send came to, for a report and for recover alike:
\* conditional on still waiting or going, from the tries read before.
settle(p) ==
    LET to == next(pods[p].out, pods[p].saw, kind = "key") IN
    /\ At(p, "settle")
    /\ IF req.state \in {"approved", "sending"}
       THEN /\ req' = [req EXCEPT !.state = to,
                          !.attempts = IF pods[p].out = "never" \/ to = "approved"
                                       THEN @ + 1 ELSE @]
            /\ Go(p, IF to \in {"unsent", "unknown"} THEN "ask" ELSE pods[p].ret)
       ELSE Go(p, pods[p].ret) /\ UNCHANGED req
    /\ UNCHANGED <<kind, items, answering, holds, relays, turn, record, got, faults>>

\* ask_again: a new item that carries no turn and takes no hold ...
AskAgain(p) ==
    /\ At(p, "ask")
    /\ items' = Append(items, [state |-> "pending", followup |-> TRUE, hold |-> None])
    /\ pods' = [pods EXCEPT ![p].pc = "move", ![p].item = Len(items) + 1]
    /\ UNCHANGED <<kind, req, answering, holds, relays, turn, record, got, faults>>

\* ... and then, in a second statement, the request tied to it.
MoveItem(p) ==
    /\ At(p, "move")
    /\ req' = [req EXCEPT !.item = pods[p].item]
    /\ Go(p, pods[p].ret)
    /\ UNCHANGED <<kind, items, answering, holds, relays, turn, record, got, faults>>

\* The turn prepared: handed the request where one is approved, and the
\* operations as the skills stand.
Prepare(p) ==
    /\ At(p, "prepare")
    /\ pods' = [pods EXCEPT ![p] = IF req.state = "approved"
                                   THEN [Idle EXCEPT !.pc = "ready", !.kind = kind]
                                   ELSE [Idle EXCEPT !.pc = "guest"]]
    /\ UNCHANGED <<kind, req, items, answering, holds, relays, turn, record, got, faults>>

\* held::sending, its lease checked first; a runtime refused does not send.
begin_held(p) ==
    /\ At(p, "ready")
    /\ Go(p, IF Leased(p) THEN "mark" ELSE "guest")
    /\ UNCHANGED <<kind, req, items, answering, holds, relays, turn, record, got, faults>>

\* The mark itself, conditional on still waiting.
sending(p) ==
    /\ At(p, "mark")
    /\ IF req.state = "approved"
       THEN /\ req' = [req EXCEPT !.state = "sending"]
            /\ got' = [got EXCEPT !.marks = IF @ > MAX_ATTEMPTS THEN @ ELSE @ + 1]
            /\ Go(p, "begun")
       ELSE Go(p, "guest") /\ UNCHANGED <<req, got>>
    /\ UNCHANGED <<kind, items, answering, holds, relays, turn, record, faults>>

\* claim_in, under the lease: one statement says whether the write is new.
claim_in(p) ==
    /\ At(p, "begun") /\ pods[p].kind = "record"
    /\ IF Leased(p) /\ record = "none"
       THEN /\ record' = "attempted"
            /\ pods' = [pods EXCEPT ![p].pc = "send", ![p].claimed = TRUE]
       ELSE /\ pods' = [pods EXCEPT ![p].pc = "out",
                          ![p].out = IF ~Leased(p) THEN "refused"
                                     ELSE IF record = "completed" THEN "answered" ELSE "noanswer"]
            /\ UNCHANGED record
    /\ UNCHANGED <<kind, req, items, answering, holds, relays, turn, got, faults>>

\* A write sent with a key is the same write to a recipient that has it.
Land(p) ==
    got' = IF pods[p].kind = "key"
           THEN [got EXCEPT !.effects = IF got.key THEN @ ELSE @ + 1, !.key = TRUE]
           ELSE [got EXCEPT !.effects = @ + 1]

\* Sent through the gateway.  2xx lands; 4xx, a refusal and one that never
\* left do not; a 5xx and a connection that broke may or may not have.
\* What becomes of a claim follows: answered it is completed, nothing happened
\* it is released, otherwise it stays attempted.
dispatch(p) ==
    \E s \in {"ok", "client", "server", "never", "broke", "refused"} :
        /\ At(p, "send") \/ (At(p, "begun") /\ pods[p].kind # "record")
        /\ \/ s \in {"ok", "server", "broke"} /\ Land(p)
           \/ s \in {"client", "server", "never", "broke", "refused"} /\ UNCHANGED got
        /\ pods' = [pods EXCEPT ![p].pc = "out",
                       ![p].out = CASE s \in {"ok", "client", "server"} -> "answered"
                                    [] s = "never" -> "never"
                                    [] s = "broke" -> "noanswer"
                                    [] s = "refused" -> "refused",
                       ![p].claimed = FALSE]
        /\ record' = IF ~pods[p].claimed \/ ~Leased(p) THEN record
                     ELSE CASE s = "ok" -> "completed"
                            [] s \in {"client", "never", "refused"} -> "none"
                            [] s \in {"server", "broke"} -> record
        /\ UNCHANGED <<kind, req, items, answering, holds, relays, turn, faults>>

\* held::report: the lease and the request read first; a request no longer
\* waiting or going refuses it.
report(p) ==
    /\ At(p, "out")
    /\ pods' = [pods EXCEPT ![p] =
          IF Leased(p) /\ req.state \in {"approved", "sending"}
          THEN [Idle EXCEPT !.pc = "settle", !.out = pods[p].out, !.saw = req.attempts, !.ret = "guest"]
          ELSE [Idle EXCEPT !.pc = "guest"]]
    /\ UNCHANGED <<kind, req, items, answering, holds, relays, turn, record, got, faults>>

\* The guest's turn ends: parked under a hold it was told of, given back
\* where the hold has gone, otherwise done.
Finish(p) ==
    /\ At(p, "guest") /\ ~Relaying(p)
    /\ pods' = [pods EXCEPT ![p] = Idle]
    /\ turn' = IF ~Leased(p) THEN turn
               ELSE [turn EXCEPT !.lease = None,
                                 !.parked = Told(p) /\ holds # {},
                                 !.queued = @ \/ (Told(p) /\ holds = {})]
    /\ relays' = [r \in Relays |-> IF relays[r].pod = p THEN [relays[r] EXCEPT !.pod = None]
                                                         ELSE relays[r]]
    /\ UNCHANGED <<kind, req, items, answering, holds, record, got, faults>>

\* The lease lapses while the runtime goes on; the turn is queued again.
Lapse ==
    /\ turn.lease # None /\ Spend("lapse")
    /\ turn' = [turn EXCEPT !.lease = None, !.queued = TRUE]
    /\ UNCHANGED <<kind, req, items, answering, holds, relays, pods, record, got>>

\* A pod is lost, with the calls it was making.
Crash(p) ==
    /\ ~At(p, "idle") /\ Spend("crash")
    /\ pods' = [pods EXCEPT ![p] = Idle]
    /\ relays' = [r \in Relays |-> IF relays[r].pod = p
                                   THEN [relays[r] EXCEPT !.pc = "done", !.pod = None]
                                   ELSE relays[r]]
    /\ turn' = IF Leased(p) THEN [turn EXCEPT !.lease = None, !.queued = TRUE] ELSE turn
    /\ UNCHANGED <<kind, req, items, answering, holds, record, got>>

\* A record past its day is claimed over as if it had never been.
forget_expired ==
    /\ record # "none" /\ Spend("expire")
    /\ record' = "none"
    /\ UNCHANGED <<kind, req, items, answering, holds, relays, turn, pods, got>>

-----------------------------------------------------------------------------
RelayStep == \E r \in Relays : Relay(r) \/ TakeHold(r) \/ Targets(r) \/ RaiseItem(r) \/ Keep(r)
Person ==
    \/ \E i \in DOMAIN items : ReadAnswer(i) \/ \E d \in {"resend", "done"} : settle_followup(i, d)
    \/ \E a \in answering : resend_now(a) \/ \E y \in BOOLEAN : Answer(a, y)
PodStep(p) ==
    \/ Take(p) \/ Prepare(p) \/ begin_held(p) \/ sending(p) \/ claim_in(p) \/ dispatch(p)
    \/ report(p) \/ settle(p) \/ AskAgain(p) \/ MoveItem(p) \/ Finish(p)
Faults == Lapse \/ EditSkill \/ forget_expired \/ \E p \in Pods : Crash(p)

Next == RelayStep \/ Person \/ NewMessage \/ Faults \/ \E p \in Pods : PodStep(p)

Spec == Init /\ [][Next]_vars

-----------------------------------------------------------------------------
PodStates == {"idle", "settle", "prepare", "guest", "ready", "mark", "begun", "send", "out",
              "ask", "move"}

TypeOK ==
    /\ kind \in {"key", "record", "plain"}
    /\ req \in [state : ReqStates, attempts : Nat, item : Nat]
    /\ items \in Seq([state : {"pending", "settled"}, followup : BOOLEAN,
                     hold : Relays \cup {None}])
    /\ answering \subseteq [item : DOMAIN items, holds : BOOLEAN, resend : BOOLEAN]
    /\ holds \subseteq Relays
    /\ relays \in [Relays -> [pc : {"idle", "take", "targets", "raise", "keep", "done"},
                             pod : Pods \cup {None}, item : Nat]]
    /\ turn \in [queued : BOOLEAN, parked : BOOLEAN, lease : Pods \cup {None}]
    /\ pods \in [Pods -> [pc : PodStates, kind : {"key", "record", "plain"}, saw : Nat,
                         out : Outcomes, claimed : BOOLEAN, item : Nat,
                         ret : {"prepare", "guest"}]]
    /\ record \in {"none", "attempted", "completed"}
    /\ got \in [effects : Nat, key : BOOLEAN, yeses : Nat, marks : Nat]
    /\ faults \in [FaultKinds -> Nat] /\ \A f \in FaultKinds : faults[f] <= Budget[f]

Never(f) == faults[f] = Budget[f]

\* A write happens at most as often as a person said yes to it, whatever
\* leases lapse and pods die between marking it, sending it and reporting it
\* (held::sending, recover and report; the record and the key for the rest),
\* as long as the skill is not edited between sending it and settling it.
EffectsWithinYeses == Never("edit") => got.effects <= got.yeses

\* One yes is worth MAX_ATTEMPTS tries: however often a pod is lost and the
\* request recovered, it is marked as going no more often than that, unless a
\* lease lapsed under a runtime that went on.
TriesBounded == Never("lapse") => got.marks <= MAX_ATTEMPTS

\* A conversation is suspended by the gate only while somebody is asked, or
\* the relay that will ask is still under way (gated::raise's releases), as
\* long as no pod is lost between the two.
HoldAsked ==
    Never("crash") =>
        \A r \in holds : \/ \E i \in DOMAIN items : Open(i) /\ items[i].hold = r
                        \/ relays[r].pc \in {"targets", "raise"}

\* A held request has its effect at most as often as somebody said yes to it,
\* is tried no more often than its attempts, and suspends its conversation only
\* while somebody is asked.
HeldSound == TypeOK /\ EffectsWithinYeses /\ TriesBounded /\ HoldAsked

\* What has an answer keeps it: a late report or a stale recover never moves a
\* request that was spent, declined or marked done (settle, decide_tx); only
\* another refusal of the same call, kept after it, is a request of its own.
AnswerFinal ==
    [][req.state \in {"spent", "declined", "done"} /\ req'.state # req.state
       => \E r \in Relays : relays[r].pc = "keep"]_vars
=============================================================================
