------------------------------- MODULE MCTurns -------------------------------
(*****************************************************************************)
(* HeldRequests, and instances of TurnReplies and Wake, for one run: a       *)
(* behaviour is one component moving under one set of bounds, named by       *)
(* `part`. Components that name a variable alike share it.                   *)
(*****************************************************************************)
EXTENDS HeldRequests, TLC

CONSTANTS Nobody, Reaper, held_p1, held_p2, held_r1, held_r2, turns_w1, turns_w2, wake_ann, wake_bob,
          wake_t1, wake_t2, wake_w1, wake_w2

VARIABLES part, sent, absorbed, job, rows, told, pod, left, ts, running, opened, notes, waits, ticks,
          waking, answers

all == <<part, kind, req, items, answering, holds, relays, turn, pods, record, got, faults, sent,
         absorbed, job, rows, told, pod, left, ts, running, opened, notes, waits, ticks,
         waking, answers>>
On(p) == part = p

(* -------------------- HeldRequests -------------------- *)
\* Every kind of fault, two of them in a behaviour.
HeldSome == [f \in FaultKinds |-> 1]

\* At most two kinds of fault, or one where the skill declares nothing, and one refusal relayed at
\* a time; or two refusals relayed at once, with the faults of the relay.
HeldFew ==
    LET spent == {f \in FaultKinds : faults[f] < Budget[f]} IN
    \/ Cardinality(spent) <= (IF kind = "plain" THEN 1 ELSE 2) /\ Cardinality({r \in Relays : relays[r].pc # "idle"}) <= 1
    \/ spent \subseteq {"nobody", "keep"} /\ kind = "plain" /\ req.state \in {"none", "held", "approved"}

(* -------------------- TurnReplies -------------------- *)
TurnsTwoPrompts == {1, 2}
TurnsOnePrompt == {1}

\* A pod may die or a turn be parked; nobody's lease lapses while it goes on.
Turns_replies == INSTANCE TurnReplies WITH
    Prompts <- TurnsTwoPrompts, Pods <- {turns_w1, turns_w2}, MaxAttempts <- 2,
    MaxReleases <- 3, Crashes <- 1, Stalls <- 0, Retries <- 0, Parks <- 1, Backs <- 0
TurnsFew == left.crash + left.park > 0
\* A lease may lapse under a pod that goes on, and a person may ask again.
Turns_stalls == INSTANCE TurnReplies WITH
    Prompts <- TurnsOnePrompt, Pods <- {turns_w1, turns_w2}, MaxAttempts <- 2, MaxReleases <- 3,
    Crashes <- 0, Stalls <- 1, Retries <- 1, Parks <- 0, Backs <- 0
\* Nothing dies; a turn may be handed back.
Turns_told == INSTANCE TurnReplies WITH
    Prompts <- TurnsTwoPrompts, Pods <- {turns_w1, turns_w2}, MaxAttempts <- 2,
    MaxReleases <- 3, Crashes <- 0, Stalls <- 0, Retries <- 0, Parks <- 0, Backs <- 1

(* -------------------- Wake -------------------- *)
WakeSenderOf == [m \in 1..2 |-> IF m = 2 THEN wake_bob ELSE wake_ann]
WakeZero == [lapse |-> 0, item |-> 0, enqueue |-> 0, reap |-> 0, fail |-> 0]
WakeFiring == [WakeZero EXCEPT !.reap = 1, !.fail = 1, !.enqueue = 1]
WakeSlept == [WakeZero EXCEPT !.item = 1, !.lapse = 1]

Wake_fires == INSTANCE Wake WITH
    Messages <- {1, 2}, Sender <- WakeSenderOf, Waits <- {wake_w1, wake_w2},
    Ticks <- {wake_t1, wake_t2}, Budget <- WakeFiring
Wake_sleeps == INSTANCE Wake WITH
    Messages <- {1, 2}, Sender <- WakeSenderOf, Waits <- {wake_w1, wake_w2}, Ticks <- {wake_t1},
    Budget <- WakeSlept

ASSUME InstancesAssumption ==
    /\ Turns_replies!PromptsAssumption /\ Turns_stalls!PromptsAssumption
    /\ Turns_told!PromptsAssumption /\ Wake_fires!WakeAssumption /\ Wake_sleeps!WakeAssumption

(* The parts: one component moves, and the variables of the others are None, or as HeldRequests begins. *)
HeldAlone ==
    /\ sent = None /\ absorbed = None /\ job = None /\ rows = None /\ told = None /\ pod = None
    /\ left = None /\ ts = None /\ running = None /\ opened = None /\ notes = None
    /\ waits = None /\ ticks = None /\ waking = None /\ answers = None
HeldKept ==
    UNCHANGED <<part, sent, absorbed, job, rows, told, pod, left, ts, running, opened, notes,
                waits, ticks, waking, answers>>
TurnsAlone ==
    /\ Init /\ kind = "plain" /\ ts = None /\ running = None /\ opened = None /\ notes = None
    /\ waits = None /\ ticks = None /\ waking = None /\ answers = None
TurnsKept ==
    UNCHANGED <<part, kind, req, items, answering, holds, relays, turn, pods, record, got,
                faults, ts, running, opened, notes, waits, ticks, waking, answers>>
WakeAlone ==
    /\ Init /\ kind = "plain" /\ sent = None /\ job = None /\ rows = None /\ told = None
    /\ pod = None
WakeKept ==
    UNCHANGED <<part, kind, req, items, answering, holds, relays, turn, pods, record, got,
                faults, sent, job, rows, told, pod>>

PartsInit ==
    \/ part = "held" /\ Init /\ HeldAlone
    \/ part = "turns_replies" /\ Turns_replies!Init /\ TurnsAlone
    \/ part = "turns_stalls" /\ Turns_stalls!Init /\ TurnsAlone
    \/ part = "turns_told" /\ Turns_told!Init /\ TurnsAlone
    \/ part = "wake_fires" /\ Wake_fires!Init /\ WakeAlone
    \/ part = "wake_sleeps" /\ Wake_sleeps!Init /\ WakeAlone

PartsNext ==
    \/ On("held") /\ Next /\ HeldFew' /\ HeldKept
    \/ On("turns_replies") /\ Turns_replies!Next /\ TurnsFew' /\ TurnsKept
    \/ On("turns_stalls") /\ Turns_stalls!Next /\ TurnsKept
    \/ On("turns_told") /\ Turns_told!Next /\ TurnsKept
    \/ On("wake_fires") /\ Wake_fires!Next /\ WakeKept
    \/ On("wake_sleeps") /\ Wake_sleeps!Next /\ WakeKept

PartsSpec == PartsInit /\ [][PartsNext]_all

Symmetric == Permutations({held_r1, held_r2})
             \cup Permutations({turns_w1, turns_w2})
             \cup Permutations({wake_w1, wake_w2})

(* ------------------------------ properties ------------------------------ *)

\* One answer to one message, from the turn that took it or from its own; a finished turn
\* leaves no reply open, and one that came to nothing is told to whoever reads it.
AnsweredOnce ==
    /\ On("turns_replies") => Turns_replies!TypeOK /\ Turns_replies!NothingOpen /\ Turns_replies!AnsweredOnce
    /\ On("turns_stalls") => Turns_stalls!OneAnswer
    /\ On("turns_told") => Turns_told!FailedTold


\* A wait ends in one note, a cancelled one in none; a message sent while the agent sleeps is
\* answered once, and by a wake turn that is its sender's (wake.rs).
WaitsEndOnce ==
    /\ On("wake_fires") => Wake_fires!TypeOK /\ Wake_fires!NotedOnce /\ Wake_fires!CancelledSilent
    /\ On("wake_sleeps") => Wake_sleeps!AnsweredOnce /\ Wake_sleeps!OneAsker
=============================================================================
