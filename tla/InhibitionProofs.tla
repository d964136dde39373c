-------------------------- MODULE InhibitionProofs --------------------------
(***************************************************************************)
(* Proofs about holds and turns, for any conversations, turns, pods and    *)
(* holds.                                                                  *)
(*                                                                         *)
(* That the kill switch holds needs to know what a pod's record of stops   *)
(* is worth: each was taken as a stop, over the conversation of the turn   *)
(* the pod has, and a hold keeps its strength and scope and never comes    *)
(* back once it is gone (StopsRecorded). What reads the holds after the    *)
(* claim then sees every one of them that is still on.                     *)
(*                                                                         *)
(* The steps are taken apart by what they change: a pod (PodSteps), the    *)
(* queue (RowSteps), the holds (HoldSteps).                                *)
(***************************************************************************)
EXTENDS Inhibition, TLAPS

StopsRecorded ==
    \A p \in Pods : \A h \in pod[p].stops :
        /\ pod[p].turn \in Turns
        /\ hold[h].life # "unused"
        /\ hold[h].strength = "stopped"
        /\ Session(p) \in hold[h].scope

Inv == TypeOK /\ StopsRecorded /\ KillSwitchHolds

\* Where a turn is past the holds.
Past == {"clear", "handout"} \cup (Reporting \ {"failed"})

\* The pod works on: same turn, same record, and it gets past the holds only
\* by finding no stop on its conversation.
WorksOn(p, r) ==
    /\ r.turn = pod[p].turn
    /\ r.stops = pod[p].stops
    /\ r.pc \in Past => pod[p].pc \in Past \/ StopsOn(Session(p)) = {}

PodStep(p) ==
    \E r \in PodState : /\ PodOK(r)
                        /\ pod' = [pod EXCEPT ![p] = r]
                        /\ r = Idle \/ WorksOn(p, r)

-----------------------------------------------------------------------------
(* What a step does to a pod. *)

\* A pod that gives up its turn is idle (Rest).
LEMMA RestStep ==
    ASSUME NEW p \in Pods, Rest(p)
    PROVE  PodStep(p)
  <1>1. Idle \in PodState /\ PodOK(Idle)
    BY DEF Idle, PodState, PodOK, Reasons
  <1> QED  BY <1>1 DEF PodStep, Rest

\* A pod that goes on from one statement to the next keeps what it knows.
LEMMA GotoStep ==
    ASSUME TypeOK, NEW p \in Pods, ~At(p, "idle"),
           NEW c \in Preparing \cup Reporting, c # "asking",
           c \in Past => pod[p].pc \in Past \/ StopsOn(Session(p)) = {},
           Goto(p, c)
    PROVE  PodStep(p)
  <1> DEFINE r == [pod[p] EXCEPT !.pc = c]
  <1>1. pod[p] \in PodState /\ PodOK(pod[p]) /\ pod[p].pc # "idle"
    BY DEF TypeOK, At
  <1>2. r \in PodState
    BY <1>1 DEF PodState
  <1>3. r.pc = c /\ r.turn = pod[p].turn /\ r.stops = pod[p].stops
    BY <1>1 DEF PodState
  <1>4. PodOK(r) /\ WorksOn(p, r)
    BY <1>1, <1>3 DEF PodOK, WorksOn
  <1>5. pod' = [pod EXCEPT ![p] = r]
    BY DEF Goto
  <1> QED  BY <1>2, <1>4, <1>5 DEF PodStep

\* Every step of a pod but a claim is one of those, or works on its record.
LEMMA PodSteps ==
    ASSUME TypeOK, NEW p \in Pods, Prepare(p) \/ Stream(p),
           \A t \in Turns : ~Claim(p, t)
    PROVE  PodStep(p)
  <1>0. pod[p] \in PodState /\ PodOK(pod[p])
    BY DEF TypeOK
  <1>1. CASE Absorbed(p) \/ Decline(p) \/ Park(p) \/ FinishTurn(p) \/ FailTurn(p)
             \/ HandBack(p) \/ PodLost(p)
    BY <1>1, RestStep
    DEF Absorbed, Decline, Park, FinishTurn, FailTurn, HandBack, PodLost
  <1>2. CASE ReadLatch(p)
    <2> DEFINE stopped == latch[Session(p)] # "none"
               c == IF stopped /\ pod[p].turn \notin Person THEN "nothing" ELSE "holds"
               r == [pod[p] EXCEPT !.latched = stopped, !.pc = c]
    <2>1. stopped \in BOOLEAN /\ c \in {"nothing", "holds"}
      OBVIOUS
    <2> HIDE DEF stopped, c
    <2>2. /\ r \in PodState /\ r.pc = c
          /\ r.turn = pod[p].turn /\ r.stops = pod[p].stops /\ r.asked = pod[p].asked
      BY <1>0, <2>1 DEF PodState, Preparing
    <2>3. PodOK(r) /\ WorksOn(p, r)
      BY <1>0, <1>2, <2>1, <2>2 DEF PodOK, WorksOn, Past, Reporting, ReadLatch, At
    <2>4. pod' = [pod EXCEPT ![p] = r]
      BY <1>2 DEF ReadLatch, stopped, c
    <2> QED  BY <2>2, <2>3, <2>4 DEF PodStep
  <1>3. CASE ReadHolds(p)
    <2>1. CASE Verdict(Session(p)) = "proceed"
      <3>1. StopsOn(Session(p)) = {}
        BY <2>1 DEF Verdict
      <3>2. Goto(p, "clear") \/ Goto(p, "handout")
        BY <1>3, <2>1 DEF ReadHolds
      <3> QED  BY <1>3, <3>1, <3>2, GotoStep DEF ReadHolds, At, Preparing
    <2>2. CASE Verdict(Session(p)) # "proceed"
      <3>1. Goto(p, "stop") \/ Goto(p, "park")
        BY <1>3, <2>2 DEF ReadHolds
      <3> QED  BY <1>3, <3>1, GotoStep DEF ReadHolds, At, Preparing, Reporting, Past
    <2> QED  BY <2>1, <2>2
  <1>4. CASE ClearStop(p)
    BY <1>4, GotoStep DEF ClearStop, At, Preparing, Past
  <1>5. CASE StopSession(p)
    BY <1>5, GotoStep DEF StopSession, At, Preparing, Reporting, Past
  <1>6. CASE HandOut(p)
    BY <1>6, GotoStep, RestStep DEF HandOut, At, Reporting, Past
  <1>7. CASE PrepareFails(p)
    BY <1>7, GotoStep DEF PrepareFails, At, Preparing, Reporting, Past
  <1>8. CASE Done(p) \/ Failed(p) \/ StreamLost(p)
    BY <1>8, GotoStep DEF Done, Failed, StreamLost, At, Reporting, Past
  <1>9. CASE Cut(p)
    <2> DEFINE r == [pod[p] EXCEPT !.held = "stop"]
    <2>1. r \in PodState /\ r.turn = pod[p].turn /\ r.stops = pod[p].stops
          /\ r.pc = "streaming"
      BY <1>0, <1>9 DEF PodState, Reasons, Cut, At
    <2>2. PodOK(r) /\ WorksOn(p, r)
      BY <1>0, <1>9, <2>1 DEF PodOK, WorksOn, Cut, At
    <2>3. pod' = [pod EXCEPT ![p] = r]
      BY <1>9 DEF Cut
    <2> QED  BY <2>1, <2>2, <2>3 DEF PodStep
  <1>10. ASSUME pod[p].pc \in {"streaming", "asking"},
                NEW r, r \in {Awaits(pod[p]), Refused(pod[p])},
                pod' = [pod EXCEPT ![p] = r]
         PROVE  PodStep(p)
    <2>1. r \in PodState /\ r.turn = pod[p].turn /\ r.stops = pod[p].stops
          /\ r.pc = "streaming"
      BY <1>0, <1>10 DEF PodState, Reasons, Reporting, Awaits, Refused
    <2>2. PodOK(r) /\ WorksOn(p, r)
      BY <1>0, <1>10, <2>1 DEF PodOK, WorksOn, Past, Reporting
    <2> QED  BY <1>10, <2>1, <2>2 DEF PodStep
  <1>11. CASE Raise(p)
    BY <1>10, <1>11, GotoStep DEF Raise, At, Reporting, Past
  <1>12. CASE RaiseItem(p) \/ RaiseGiveUp(p) \/ RaiseLost(p)
    BY <1>10, <1>12 DEF RaiseItem, RaiseGiveUp, RaiseLost, At
  <1>13. ASSUME NEW h \in Holds, RaiseTake(p, h)
         PROVE  PodStep(p)
    <2> DEFINE r == [pod[p] EXCEPT !.pc = "asking", !.asked = h]
    <2>1. r \in PodState /\ r.turn = pod[p].turn /\ r.stops = pod[p].stops
          /\ r.pc = "asking" /\ r.asked = h
      BY <1>0 DEF PodState, Reporting
    <2>2. PodOK(r) /\ WorksOn(p, r)
      BY <1>0, <1>13, <2>1 DEF PodOK, WorksOn, Past, Reporting, RaiseTake, At
    <2>3. pod' = [pod EXCEPT ![p] = r]
      BY <1>13 DEF RaiseTake
    <2> QED  BY <2>1, <2>2, <2>3 DEF PodStep
  <1>14. CASE CheckCancel(p)
    <2> DEFINE r == [pod[p] EXCEPT !.pc = "closing",
                                   !.cancelled = job[pod[p].turn].cancel]
    <2>1. job[pod[p].turn].cancel \in BOOLEAN
      BY <1>0, <1>14 DEF TypeOK, JobRow, PodOK, CheckCancel, At
    <2>2. r \in PodState /\ r.turn = pod[p].turn /\ r.stops = pod[p].stops
          /\ r.pc = "closing"
      BY <1>0, <2>1 DEF PodState, Reporting
    <2>3. PodOK(r) /\ WorksOn(p, r)
      BY <1>0, <1>14, <2>2 DEF PodOK, WorksOn, Past, Reporting, CheckCancel, At
    <2>4. pod' = [pod EXCEPT ![p] = r] \/ Rest(p)
      BY <1>14 DEF CheckCancel
    <2> QED  BY <2>2, <2>3, <2>4, RestStep DEF PodStep
  <1> QED
    BY <1>1, <1>2, <1>3, <1>4, <1>5, <1>6, <1>7, <1>8, <1>9, <1>11, <1>12, <1>13, <1>14
    DEF Prepare, Stream

-----------------------------------------------------------------------------
(* What a step does to the queue and to the holds. *)

\* A closing leaves the queue well typed, with the lease or without it.
LEMMA CloseType ==
    ASSUME TypeOK, NEW p \in Pods, NEW s \in JobStates, Close(p, s)
    PROVE  job' \in [Turns -> JobRow]
  <1>1. CASE Leased(p)
    <2> DEFINE t == pod[p].turn
               r == [job[t] EXCEPT !.state = s, !.holder = NoPod]
    <2>1. CASE t \in Turns
      <3>1. r \in JobRow
        BY <2>1 DEF TypeOK, JobRow
      <3>2. job' = [job EXCEPT ![t] = r]
        BY <1>1, <2>1 DEF Close, Settled, TypeOK
      <3> QED  BY <3>1, <3>2 DEF TypeOK
    <2>2. CASE t \notin Turns
      BY <1>1, <2>2 DEF Leased, TypeOK, PodState
    <2> QED  BY <2>1, <2>2
  <1>2. CASE ~Leased(p)
    BY <1>2 DEF Close, TypeOK
  <1> QED  BY <1>1, <1>2

\* Every step leaves the queue well typed.
LEMMA RowSteps ==
    ASSUME TypeOK, Next
    PROVE  job' \in [Turns -> JobRow]
  <1>0. job \in [Turns -> JobRow]
    BY DEF TypeOK
  <1>1. ASSUME NEW t \in Turns, NEW r \in JobRow, job' = [job EXCEPT ![t] = r]
        PROVE  job' \in [Turns -> JobRow]
    BY <1>0, <1>1
  <1>2. ASSUME NEW p \in Pods, NEW t \in Turns, Claim(p, t)
        PROVE  job' \in [Turns -> JobRow]
    <2> DEFINE r == [job[t] EXCEPT !.state = "running", !.holder = p]
    <2>1. r \in JobRow
      BY <1>0 DEF JobRow, JobStates
    <2>2. job' = [job EXCEPT ![t] = r]
      BY <1>0, <1>2 DEF Claim
    <2> QED  BY <1>1, <2>1, <2>2
  <1>3. ASSUME NEW p \in Pods,
               Absorbed(p) \/ Decline(p) \/ Park(p) \/ FinishTurn(p) \/ HandBack(p)
        PROVE  job' \in [Turns -> JobRow]
    <2>1. \E s \in JobStates : Close(p, s)
      BY <1>3 DEF Absorbed, Decline, Park, FinishTurn, HandBack, JobStates
    <2> QED  BY <2>1, CloseType
  <1>4. ASSUME NEW p \in Pods, FailTurn(p)
        PROVE  job' \in [Turns -> JobRow]
    <2>1. \E s \in JobStates : Close(p, s)
      BY <1>4 DEF FailTurn, JobStates
    <2> QED  BY <2>1, CloseType
  <1>5. ASSUME NEW t \in Turns, Submit(t) \/ Retry(t) \/ RequestCancel(t) \/ Reap(t)
        PROVE  job' \in [Turns -> JobRow]
    <2>1. /\ [job[t] EXCEPT !.state = "pending"] \in JobRow
          /\ [job[t] EXCEPT !.state = "pending", !.cancel = FALSE] \in JobRow
          /\ [job[t] EXCEPT !.cancel = TRUE,
                            !.state = IF @ = "running" THEN @ ELSE "cancelled"] \in JobRow
          /\ \A s \in JobStates : [job[t] EXCEPT !.state = s, !.holder = NoPod] \in JobRow
      BY <1>0 DEF JobRow, JobStates
    <2>2. CASE Submit(t)
      BY <1>0, <2>1, <2>2 DEF Submit
    <2>3. CASE Retry(t)
      BY <1>0, <2>1, <2>3 DEF Retry
    <2>4. CASE RequestCancel(t)
      BY <1>0, <2>1, <2>4 DEF RequestCancel
    <2>5. CASE Reap(t)
      <3>1. PICK s \in JobStates : job' = Settled(t, s)
        BY <2>5 DEF Reap, JobStates
      <3> QED  BY <1>0, <2>1, <3>1 DEF Settled
    <2> QED  BY <1>5, <2>2, <2>3, <2>4, <2>5
  <1>6. ASSUME NEW S, job' = Given(S)
        PROVE  job' \in [Turns -> JobRow]
    <2>1. \A t \in Turns : [job[t] EXCEPT !.state = "pending"] \in JobRow
      BY <1>0 DEF JobRow, JobStates
    <2> QED  BY <1>0, <1>6, <2>1 DEF Given
  <1>7. ASSUME NEW h \in Holds, Hold(h)
        PROVE  job' \in [Turns -> JobRow]
    BY <1>0, <1>6, <1>7
    DEF Hold, Stop, RequestApproval, RequestItem, RequestFails, Answer, Release, Resume
  <1>8. ASSUME NEW p \in Pods, Prepare(p) \/ Stream(p)
        PROVE  job' \in [Turns -> JobRow]
    BY <1>0, <1>2, <1>3, <1>4, <1>8
    DEF Prepare, Stream, ReadLatch, ReadHolds, ClearStop, StopSession, HandOut,
        PrepareFails, Cut, Raise, RaiseTake, RaiseItem, RaiseGiveUp, RaiseLost, Done,
        Failed, StreamLost, CheckCancel, PodLost
  <1> QED  BY <1>5, <1>7, <1>8 DEF Next, Ask

\* A hold is taken once, keeps what it was taken as, and does not come back.
HoldsKept ==
    \A h \in Holds : hold[h].life # "unused" =>
        /\ hold'[h].life # "unused"
        /\ hold'[h].life = "on" => hold[h].life = "on"
        /\ hold'[h].strength = hold[h].strength
        /\ hold'[h].scope = hold[h].scope

\* Every step leaves the holds well typed, and keeps those that were taken.
LEMMA HoldSteps ==
    ASSUME TypeOK, Next
    PROVE  hold' \in [Holds -> HoldRow] /\ HoldsKept
  <1> DEFINE Goal == hold' \in [Holds -> HoldRow] /\ HoldsKept
  <1>0. hold \in [Holds -> HoldRow]
    BY DEF TypeOK
  <1>1. ASSUME UNCHANGED hold PROVE Goal
    BY <1>0, <1>1 DEF HoldsKept
  <1>2. ASSUME NEW h \in Holds, NEW x \in {"stopped", "suspended"},
               NEW S \in SUBSET Sessions, NEW a \in Turns \cup {NoTurn}, Take(h, x, S, a)
        PROVE  Goal
    <2> DEFINE r == [life |-> "on", strength |-> x, scope |-> S, asker |-> a]
    <2>1. r \in HoldRow
      BY DEF HoldRow
    <2>2. hold' = [hold EXCEPT ![h] = r] /\ hold[h].life = "unused"
      BY <1>2 DEF Take
    <2> QED  BY <1>0, <2>1, <2>2 DEF HoldsKept
  <1>3. ASSUME NEW h \in Holds, hold' = [hold EXCEPT ![h].life = "off"]
        PROVE  Goal
    <2> DEFINE r == [hold[h] EXCEPT !.life = "off"]
    <2>1. r \in HoldRow /\ r.life = "off" /\ r.strength = hold[h].strength
          /\ r.scope = hold[h].scope
      BY <1>0 DEF HoldRow
    <2>2. hold' = [hold EXCEPT ![h] = r]
      BY <1>3
    <2> HIDE DEF r
    <2> QED  BY <1>0, <2>1, <2>2 DEF HoldsKept
  <1>4. ASSUME NEW h \in Holds, Hold(h) PROVE Goal
    <2>1. ASSUME NEW S \in Scopes, Stop(h, S) PROVE Goal
      BY <1>2, <2>1, TurnsAssumption DEF Stop
    <2>2. ASSUME NEW s \in Sessions, RequestApproval(h, s) PROVE Goal
      BY <1>2, <2>2 DEF RequestApproval
    <2> QED  BY <1>1, <1>3, <1>4, <2>1, <2>2
             DEF Hold, RequestItem, RequestFails, Answer, Release, Resume
  <1>5. ASSUME NEW p \in Pods, NEW h \in Holds, RaiseTake(p, h) PROVE Goal
    <2>1. pod[p].turn \in Turns /\ Session(p) \in Sessions
      BY <1>5, TurnsAssumption DEF RaiseTake, At, TypeOK, PodOK, Session
    <2> QED  BY <1>2, <1>5, <2>1 DEF RaiseTake
  <1>6. ASSUME NEW p \in Pods, RaiseGiveUp(p) \/ RaiseLost(p) PROVE Goal
    BY <1>3, <1>6 DEF RaiseGiveUp, RaiseLost, Withdraw, At, TypeOK, PodOK
  <1>7. ASSUME NEW p \in Pods, Prepare(p) \/ Stream(p) PROVE Goal
    BY <1>1, <1>5, <1>6, <1>7
    DEF Prepare, Stream, Claim, Absorbed, ReadLatch, ReadHolds, ClearStop, StopSession,
        Decline, Park, HandOut, PrepareFails, Cut, Raise, RaiseItem, Done, Failed,
        StreamLost, CheckCancel, FinishTurn, FailTurn, HandBack, PodLost
  <1>8. ASSUME NEW t \in Turns, Ask(t) \/ Reap(t) PROVE Goal
    BY <1>1, <1>8 DEF Ask, Submit, Retry, RequestCancel, Reap
  <1> QED  BY <1>4, <1>7, <1>8 DEF Next

-----------------------------------------------------------------------------
(* The invariant. *)

\* What a claim does to its pod: an idle pod gets the turn, and a record of
\* the stops that are on.
LEMMA ClaimStep ==
    ASSUME TypeOK, NEW p \in Pods, NEW t \in Turns, Claim(p, t)
    PROVE  \E r \in PodState : /\ PodOK(r)
                               /\ pod' = [pod EXCEPT ![p] = r]
                               /\ r.turn = t /\ r.pc = "latch"
                               /\ r.stops = StopsOn(SessionOf[t])
  <1> DEFINE S == StopsOn(SessionOf[t])
             r == [Idle EXCEPT !.turn = t, !.pc = "latch", !.stops = S]
  <1>1. S \in SUBSET Holds
    BY DEF StopsOn, Covering
  <1> HIDE DEF S
  <1>2. Idle \in PodState
    BY DEF Idle, PodState, Reasons
  <1>3. r \in PodState /\ r.turn = t /\ r.pc = "latch" /\ r.stops = S
    BY <1>1, <1>2 DEF PodState, Reasons, Preparing
  <1>4. PodOK(r)
    BY <1>3 DEF PodOK
  <1>5. pod' = [pod EXCEPT ![p] = r]
    BY DEF Claim, S
  <1> QED  BY <1>3, <1>4, <1>5 DEF S

\* A step changes at most one pod, by a claim or a step of its own.
LEMMA OnePodMoves ==
    ASSUME TypeOK, Next
    PROVE  \/ pod' = pod
           \/ \E p \in Pods : PodStep(p)
           \/ \E p \in Pods, t \in Turns : Claim(p, t)
  <1>1. ASSUME NEW p \in Pods, Prepare(p) \/ Stream(p), \A t \in Turns : ~Claim(p, t)
        PROVE  PodStep(p)
    BY <1>1, PodSteps
  <1>2. ASSUME NEW t \in Turns, Ask(t) \/ Reap(t) PROVE pod' = pod
    BY <1>2 DEF Ask, Submit, Retry, RequestCancel, Reap
  <1>3. ASSUME NEW h \in Holds, Hold(h) PROVE pod' = pod
    BY <1>3
    DEF Hold, Stop, RequestApproval, RequestItem, RequestFails, Answer, Release, Resume
  <1> QED  BY <1>1, <1>2, <1>3 DEF Next

\* The small variables keep their types: latches, items, releases under way,
\* the bound on lapses and the history.
LEMMA RestType ==
    ASSUME TypeOK, Next
    PROVE  /\ latch' \in [Sessions -> Reasons]
           /\ item' \in [Holds -> {"none", "asking", "pending", "settled"}]
           /\ resuming' \subseteq Holds
           /\ lapses' \in 0 .. MaxLapses
           /\ halted' \subseteq Sessions
  <1> DEFINE Goal == /\ latch' \in [Sessions -> Reasons]
                     /\ item' \in [Holds -> {"none", "asking", "pending", "settled"}]
                     /\ resuming' \subseteq Holds
                     /\ lapses' \in 0 .. MaxLapses
                     /\ halted' \subseteq Sessions
  <1>0. /\ latch \in [Sessions -> Reasons]
        /\ item \in [Holds -> {"none", "asking", "pending", "settled"}]
        /\ resuming \subseteq Holds /\ lapses \in 0 .. MaxLapses
        /\ halted \subseteq Sessions
    BY DEF TypeOK
  <1>1. ASSUME NEW p \in Pods, Prepare(p) \/ Stream(p) PROVE Goal
    <2>1. ~At(p, "idle") => pod[p].turn \in Turns /\ Session(p) \in Sessions
      BY TurnsAssumption DEF TypeOK, PodOK, At, Session
    <2>2. At(p, "asking") => pod[p].asked \in Holds
      BY DEF TypeOK, PodOK, At
    <2>3. pod[p].held \in Reasons
      BY DEF TypeOK, PodState
    <2>4. CASE ClearStop(p) \/ StopSession(p) \/ Done(p) \/ Failed(p)
      <3>1. \A w \in Reasons : Stopped(Session(p), w) \in [Sessions -> Reasons]
        BY <1>0 DEF Stopped
      <3>2. latch' \in [Sessions -> Reasons]
        BY <1>0, <2>3, <2>4, <3>1 DEF ClearStop, StopSession, Done, Failed, Reasons
      <3>3. halted' \subseteq Sessions
        BY <1>0, <2>1, <2>4 DEF ClearStop, StopSession, Done, Failed, At
      <3>4. UNCHANGED <<item, resuming, lapses>>
        BY <2>4 DEF ClearStop, StopSession, Done, Failed
      <3> QED  BY <1>0, <3>2, <3>3, <3>4
    <2>5. CASE Decline(p) \/ RaiseItem(p)
      BY <1>0, <2>1, <2>2, <2>5 DEF Decline, RaiseItem, At
    <2>6. CASE UNCHANGED <<latch, item, resuming, lapses, halted>>
      BY <1>0, <2>6
    <2> QED
      BY <1>1, <2>4, <2>5, <2>6
      DEF Prepare, Stream, Claim, Absorbed, ReadLatch, ReadHolds, Park, HandOut,
          PrepareFails, Cut, Raise, RaiseTake, RaiseGiveUp, RaiseLost, StreamLost,
          CheckCancel, FinishTurn, FailTurn, HandBack, PodLost
  <1>2. ASSUME NEW t \in Turns, Ask(t) \/ Reap(t) PROVE Goal
    BY <1>0, <1>2, LapsesAssumption DEF Ask, Submit, Retry, RequestCancel, Reap
  <1>3. ASSUME NEW h \in Holds, Hold(h) PROVE Goal
    BY <1>0, <1>3
    DEF Hold, Stop, RequestApproval, RequestItem, RequestFails, Answer, Release, Resume
  <1> QED  BY <1>1, <1>2, <1>3 DEF Next

\* Every step keeps the types.
LEMMA TypeStep ==
    ASSUME TypeOK, Next
    PROVE  TypeOK'
  <1>1. pod' \in [Pods -> PodState] /\ \A p \in Pods : PodOK(pod'[p])
    <2>1. ASSUME NEW p \in Pods, NEW r \in PodState, PodOK(r), pod' = [pod EXCEPT ![p] = r]
          PROVE  pod' \in [Pods -> PodState] /\ \A q \in Pods : PodOK(pod'[q])
      BY <2>1 DEF TypeOK
    <2> QED  BY <2>1, OnePodMoves, ClaimStep DEF PodStep, TypeOK
  <1> QED  BY <1>1, RowSteps, HoldSteps, RestType DEF TypeOK

\* Every step keeps the record of stops and the kill switch.
LEMMA StopsStep ==
    ASSUME Inv, Next
    PROVE  StopsRecorded' /\ KillSwitchHolds'
  <1>0. /\ pod \in [Pods -> PodState] /\ HoldsKept
        /\ \A p \in Pods : pod[p].stops \in SUBSET Holds
    BY HoldSteps DEF Inv, TypeOK, PodState
  <1> DEFINE Recorded(r) == \A h \in r.stops :
                 /\ r.turn \in Turns /\ hold'[h].life # "unused"
                 /\ hold'[h].strength = "stopped" /\ SessionOf[r.turn] \in hold'[h].scope
             Quiet(r) == r.pc \in Past => \A h \in r.stops : hold'[h].life # "on"
  <1>1. \A p \in Pods : Recorded(pod[p]) /\ Quiet(pod[p])
    BY <1>0 DEF Inv, StopsRecorded, KillSwitchHolds, HoldsKept, Past, On, Session
  <1>2. SUFFICES \A p \in Pods : Recorded(pod'[p]) /\ Quiet(pod'[p])
    BY <1>2 DEF StopsRecorded, KillSwitchHolds, Past, On, Session
  <1>3. CASE pod' = pod
    BY <1>1, <1>3
  <1>4. ASSUME NEW p \in Pods, PodStep(p)
        PROVE  \A q \in Pods : Recorded(pod'[q]) /\ Quiet(pod'[q])
    <2>1. PICK r \in PodState : pod' = [pod EXCEPT ![p] = r] /\ (r = Idle \/ WorksOn(p, r))
      BY <1>4 DEF PodStep
    <2>2. CASE r = Idle
      BY <1>0, <1>1, <2>1, <2>2 DEF Idle
    <2>3. CASE WorksOn(p, r)
      <3>1. Recorded(r)
        BY <1>1, <2>3 DEF WorksOn
      <3>2. Quiet(r)
        <4>1. CASE pod[p].pc \in Past
          BY <1>1, <2>3, <4>1 DEF WorksOn
        <4>2. CASE StopsOn(Session(p)) = {}
          <5>1. ASSUME NEW h \in pod[p].stops PROVE hold'[h].life # "on"
            <6>1. /\ h \in Holds /\ hold[h].life # "unused"
                  /\ hold[h].strength = "stopped" /\ Session(p) \in hold[h].scope
              BY <1>0, <5>1 DEF Inv, StopsRecorded
            <6>2. hold[h].life # "on"
              BY <4>2, <6>1 DEF StopsOn, Covering, On
            <6> QED  BY <1>0, <6>1, <6>2 DEF HoldsKept
          <5> QED  BY <2>3, <5>1 DEF WorksOn
        <4> QED  BY <2>3, <4>1, <4>2 DEF WorksOn
      <3> QED  BY <1>0, <1>1, <2>1, <3>1, <3>2
    <2> QED  BY <2>1, <2>2, <2>3
  <1>5. ASSUME NEW p \in Pods, NEW t \in Turns, Claim(p, t)
        PROVE  \A q \in Pods : Recorded(pod'[q]) /\ Quiet(pod'[q])
    <2>1. PICK r \in PodState : /\ pod' = [pod EXCEPT ![p] = r]
                               /\ r.turn = t /\ r.pc = "latch"
                               /\ r.stops = StopsOn(SessionOf[t])
      BY <1>5, ClaimStep DEF Inv
    <2>2. hold' = hold
      BY <1>5 DEF Claim
    <2>3. Recorded(r) /\ Quiet(r)
      BY <2>1, <2>2 DEF StopsOn, Covering, On, Past, Reporting
    <2> QED  BY <1>0, <1>1, <2>1, <2>3
  <1> QED  BY <1>3, <1>4, <1>5, OnePodMoves DEF Inv

\* The inductive invariant holds in every reachable state.
THEOREM Invariance == Spec => []Inv
  <1>1. Init => Inv
    <2> SUFFICES ASSUME Init PROVE Inv
      OBVIOUS
    <2>1. Idle \in PodState /\ PodOK(Idle) /\ Idle.stops = {}
      BY DEF Idle, PodState, PodOK, Reasons
    <2>2. TypeOK
      BY <2>1, LapsesAssumption
      DEF Init, TypeOK, JobRow, JobStates, HoldRow, Reasons
    <2> QED  BY <2>1, <2>2 DEF Init, Inv, StopsRecorded, KillSwitchHolds
  <1>2. Inv /\ [Next]_vars => Inv'
    <2>1. CASE UNCHANGED vars
      BY <2>1 DEF vars, Inv, TypeOK, StopsRecorded, KillSwitchHolds, On, Session
    <2> QED  BY <2>1, TypeStep, StopsStep DEF Inv
  <1> QED  BY <1>1, <1>2, PTL DEF Spec

\* Rows, holds, items and pods keep their types: in particular a pod at work
\* always has a turn, and one about to raise an item the hold it is about.
THEOREM TypeCorrect == Spec => []TypeOK
  BY Invariance, PTL DEF Inv

\* The kill switch holds for any number of conversations, turns, pods and
\* holds: a stop that was on when a turn was taken is gone before that turn
\* is handed out, whatever is raised, released, reaped or parked meanwhile.
THEOREM KillSwitch == Spec => []KillSwitchHolds
  BY Invariance, PTL DEF Inv

-----------------------------------------------------------------------------
(* The turns follow the queue. *)

\* No two turns of a conversation run together.
OneRuns ==
    \A t, u \in Turns :
        job[t].state = "running" /\ job[u].state = "running" /\ SessionOf[t] = SessionOf[u]
            => t = u

\* Turn t goes from one state to another, and no other turn does.
Moves(t, from, to) ==
    /\ job[t].state = from
    /\ job'[t].state = to
    /\ \A u \in Turns \ {t} : job'[u].state = job[u].state

\* The arrows of one turn that is not claimed.
Arrows ==
    {<<"absent", "pending">>, <<"failed", "pending">>, <<"pending", "cancelled">>,
     <<"parked", "cancelled">>, <<"running", "succeeded">>, <<"running", "failed">>,
     <<"running", "cancelled">>, <<"running", "pending">>, <<"running", "parked">>}

Followed ==
    \/ \A t \in Turns : job'[t].state = job[t].state
    \/ \E t \in Turns : \E a \in Arrows : Moves(t, a[1], a[2])
    \/ \E t \in Turns : /\ Moves(t, "pending", "running")
                        /\ \A u \in Turns : SessionOf[u] = SessionOf[t]
                                             => job[u].state # "running"
    \/ \E S \in SUBSET Turns :
           /\ \A t \in S : job[t].state = "parked" /\ job'[t].state = "pending"
           /\ \A t \in Turns \ S : job'[t].state = job[t].state

\* A closing moves the turn of the pod that holds its lease, and nothing else.
LEMMA CloseFollows ==
    ASSUME TypeOK, NEW p \in Pods,
           NEW s \in {"succeeded", "failed", "cancelled", "pending", "parked"}, Close(p, s)
    PROVE  Followed
  <1> DEFINE t == pod[p].turn
             r == [job[t] EXCEPT !.state = s, !.holder = NoPod]
  <1>1. CASE ~Leased(p)
    BY <1>1 DEF Close, Followed
  <1>2. CASE Leased(p)
    <2>1. t \in Turns /\ job[t].state = "running" /\ job[t] \in JobRow
      BY <1>2 DEF Leased, TypeOK, PodState
    <2>2. r.state = s
      BY <2>1 DEF JobRow
    <2>3. job' = [job EXCEPT ![t] = r]
      BY <1>2, <2>1 DEF Close, Settled, TypeOK
    <2>4. Moves(t, "running", s)
      BY <2>1, <2>2, <2>3 DEF Moves, TypeOK
    <2>5. <<"running", s>> \in Arrows
      BY DEF Arrows
    <2> QED  BY <2>1, <2>4, <2>5 DEF Followed
  <1> QED  BY <1>1, <1>2

\* Every step moves one turn along an arrow, claims one, gives parked turns
\* back, or leaves the queue alone.
LEMMA EveryStepFollows ==
    ASSUME TypeOK, Next
    PROVE  Followed
  <1>0. job \in [Turns -> JobRow]
    BY DEF TypeOK
  <1>1. ASSUME job' = job PROVE Followed
    BY <1>1 DEF Followed
  <1>2. ASSUME NEW t \in Turns, NEW r \in JobRow, job' = [job EXCEPT ![t] = r],
               <<job[t].state, r.state>> \in Arrows
        PROVE  Followed
    <2>1. Moves(t, job[t].state, r.state)
      BY <1>0, <1>2 DEF Moves
    <2> QED  BY <1>2, <2>1 DEF Followed
  <1>3. ASSUME NEW p \in Pods, NEW t \in Turns, Claim(p, t) PROVE Followed
    <2> DEFINE r == [job[t] EXCEPT !.state = "running", !.holder = p]
    <2>1. r.state = "running" /\ job' = [job EXCEPT ![t] = r]
      BY <1>0, <1>3 DEF Claim, JobRow
    <2>2. Moves(t, "pending", "running")
      BY <1>0, <1>3, <2>1 DEF Moves, Claim
    <2> QED  BY <1>3, <2>2 DEF Followed, Claim
  <1>4. ASSUME NEW p \in Pods,
               Absorbed(p) \/ Decline(p) \/ Park(p) \/ FinishTurn(p) \/ HandBack(p)
        PROVE  Followed
    BY <1>4, CloseFollows DEF Absorbed, Decline, Park, FinishTurn, HandBack
  <1>5. ASSUME NEW p \in Pods, FailTurn(p) PROVE Followed
    BY <1>5, CloseFollows DEF FailTurn
  <1>6. ASSUME NEW p \in Pods, Prepare(p) \/ Stream(p) PROVE Followed
    BY <1>1, <1>3, <1>4, <1>5, <1>6
    DEF Prepare, Stream, ReadLatch, ReadHolds, ClearStop, StopSession, HandOut,
        PrepareFails, Cut, Raise, RaiseTake, RaiseItem, RaiseGiveUp, RaiseLost, Done,
        Failed, StreamLost, CheckCancel, PodLost
  <1>7. ASSUME NEW t \in Turns, Ask(t) \/ Reap(t) PROVE Followed
    <2>0. job[t] \in JobRow
      BY <1>0
    <2>1. CASE Submit(t)
      <3> DEFINE r == [job[t] EXCEPT !.state = "pending"]
      <3>1. r \in JobRow /\ r.state = "pending" /\ job' = [job EXCEPT ![t] = r]
        BY <2>0, <2>1 DEF Submit, JobRow, JobStates
      <3> QED  BY <1>2, <2>1, <3>1 DEF Submit, Arrows
    <2>2. CASE Retry(t)
      <3> DEFINE r == [job[t] EXCEPT !.state = "pending", !.cancel = FALSE]
      <3>1. r \in JobRow /\ r.state = "pending"
        BY <2>0 DEF JobRow, JobStates
      <3>2. job' = [job EXCEPT ![t] = r]
        BY <1>0, <2>2 DEF Retry
      <3> QED  BY <1>2, <2>2, <3>1, <3>2 DEF Retry, Arrows
    <2>3. CASE RequestCancel(t)
      <3> DEFINE q == IF job[t].state = "running" THEN "running" ELSE "cancelled"
                 r == [job[t] EXCEPT !.cancel = TRUE, !.state = q]
      <3>1. r \in JobRow /\ r.state = q
        BY <2>0 DEF JobRow, JobStates
      <3>2. job' = [job EXCEPT ![t] = r]
        BY <1>0, <2>0, <2>3 DEF RequestCancel, JobRow
      <3>3. CASE job[t].state = "running"
        BY <1>0, <3>1, <3>2, <3>3 DEF Followed
      <3>4. CASE job[t].state \in {"pending", "parked"}
        BY <1>2, <3>1, <3>2, <3>4 DEF Arrows
      <3> QED  BY <2>3, <3>3, <3>4 DEF RequestCancel
    <2>4. CASE Reap(t)
      <3>1. PICK s \in {"cancelled", "pending", "failed"} : job' = Settled(t, s)
        BY <2>4 DEF Reap
      <3> DEFINE r == [job[t] EXCEPT !.state = s, !.holder = NoPod]
      <3>2. r \in JobRow /\ r.state = s
        BY <2>0, <3>1 DEF JobRow, JobStates
      <3>3. job' = [job EXCEPT ![t] = r]
        BY <1>0, <3>1 DEF Settled
      <3> QED  BY <1>2, <2>4, <3>1, <3>2, <3>3 DEF Reap, Arrows
    <2> QED  BY <1>7, <2>1, <2>2, <2>3, <2>4 DEF Ask
  <1>8. ASSUME NEW X, job' = Given(X) PROVE Followed
    <2> DEFINE S == {t \in Turns : job[t].state = "parked" /\ SessionOf[t] \in X}
    <2>1. \A t \in Turns : [job[t] EXCEPT !.state = "pending"].state = "pending"
      BY <1>0 DEF JobRow
    <2>2. /\ \A t \in S : job[t].state = "parked" /\ job'[t].state = "pending"
          /\ \A t \in Turns \ S : job'[t].state = job[t].state
      BY <1>8, <2>1 DEF Given
    <2> QED  BY <2>2 DEF Followed
  <1>9. ASSUME NEW h \in Holds, Hold(h) PROVE Followed
    BY <1>1, <1>8, <1>9
    DEF Hold, Stop, RequestApproval, RequestItem, RequestFails, Answer, Release, Resume
  <1> QED  BY <1>6, <1>7, <1>9 DEF Next

\* A step that follows the queue starts no second turn of a conversation.
LEMMA OneRunsStep ==
    ASSUME OneRuns, Followed
    PROVE  OneRuns'
  <1>1. CASE \A t \in Turns : job'[t].state = "running" => job[t].state = "running"
    BY <1>1 DEF OneRuns
  <1>2. ASSUME NEW t \in Turns, NEW a \in Arrows, Moves(t, a[1], a[2])
        PROVE  OneRuns'
    <2>1. a[2] # "running"
      BY DEF Arrows
    <2> QED  BY <1>1, <1>2, <2>1 DEF Moves
  <1>3. ASSUME NEW t \in Turns, Moves(t, "pending", "running"),
               \A u \in Turns : SessionOf[u] = SessionOf[t] => job[u].state # "running"
        PROVE  OneRuns'
    BY <1>3 DEF OneRuns, Moves
  <1> QED  BY <1>1, <1>2, <1>3 DEF Followed

\* A step that follows the queue is a step of SerialQueue, or a stutter.
LEMMA FollowedIsQueueStep ==
    ASSUME OneRuns, Followed
    PROVE  [Queue!Next]_[t \in Turns |-> job[t].state]
  <1> DEFINE st == [t \in Turns |-> job[t].state]
             Goal == [Queue!Next]_st
  <1>0. ASSUME NEW S \in SUBSET Turns, NEW to,
               \A t \in S : job'[t].state = to,
               \A t \in Turns \ S : job'[t].state = job[t].state
        PROVE  Queue!Move(S, to)
    BY <1>0 DEF Queue!Move
  <1>1. CASE \A t \in Turns : job'[t].state = job[t].state
    BY <1>1
  <1>2. ASSUME NEW t \in Turns, NEW a \in Arrows, Moves(t, a[1], a[2])
        PROVE  Goal
    <2>1. Queue!Move({t}, a[2]) /\ st[t] = a[1]
      BY <1>0, <1>2 DEF Moves
    <2> HIDE DEF st
    <2>2. \/ Queue!Enqueue(t) \/ Queue!Retry(t) \/ Queue!Settle(t)
          \/ Queue!Cancel({t})
      BY <2>1 DEF Arrows, st, Queue!Enqueue, Queue!Retry, Queue!Settle, Queue!Cancel
    <2> QED  BY <2>2 DEF Queue!Next, st
  <1>3. ASSUME NEW t \in Turns, Moves(t, "pending", "running"),
               \A u \in Turns : SessionOf[u] = SessionOf[t] => job[u].state # "running"
        PROVE  Goal
    <2>1. Queue!Move({t}, "running") /\ st[t] = "pending"
      BY <1>0, <1>3 DEF Moves
    <2>2. Queue!Exclusive(Queue!RunningJobs \cup {t})
      BY <1>3 DEF Queue!Exclusive, Queue!RunningJobs, OneRuns
    <2>3. Queue!Claim({t})
      BY <2>1, <2>2 DEF Queue!Claim
    <2> QED  BY <2>3 DEF Queue!Next
  <1>4. ASSUME NEW S \in SUBSET Turns,
               \A t \in S : job[t].state = "parked" /\ job'[t].state = "pending",
               \A t \in Turns \ S : job'[t].state = job[t].state
        PROVE  Goal
    <2>1. Queue!Resume(S)
      BY <1>0, <1>4 DEF Queue!Resume
    <2> QED  BY <2>1 DEF Queue!Next
  <1> QED  BY <1>1, <1>2, <1>3, <1>4 DEF Followed

\* The turns of any number of conversations, under holds, lapses and crashes,
\* move as the queue promises: this module relies on nothing that JobQueue
\* does not implement.
THEOREM Follows == Spec => FollowsQueue
  <1>1. Init => Queue!Init /\ OneRuns
    BY DEF Init, Queue!Init, OneRuns
  <1>2. TypeOK /\ OneRuns /\ [Next]_vars =>
            OneRuns' /\ [Queue!Next]_[t \in Turns |-> job[t].state]
    <2>1. CASE UNCHANGED vars
      BY <2>1 DEF vars, OneRuns
    <2> QED  BY <2>1, EveryStepFollows, OneRunsStep, FollowedIsQueueStep
  <1> QED  BY <1>1, <1>2, TypeCorrect, PTL DEF Spec, FollowsQueue, Queue!Spec

-----------------------------------------------------------------------------
(* The latch: while no lease has lapsed from a pod at work, a conversation   *)
(* has at most one pod at work on it, so what that pod read or wrote of the  *)
(* latch still stands when it is used; and a stop leaves its latch behind.   *)

Out == {"handout", "streaming", "raising", "asking"}

\* A pod at work holds the lease of its turn...
Attends(p) == ~At(p, "idle") => Leased(p)
\* ... and what it made of the latch is what the latch is.
SawLatch(p) ==
    /\ At(p, "holds") => (pod[p].latched <=> latch[Session(p)] # "none")
    /\ pod[p].pc \in Out => latch[Session(p)] = "none"
\* Only a person's turn goes on to clear a latch, and a turn that waits on an
\* approval does not report a stop: with or without its lease.
ForPerson(p) ==
    /\ At(p, "clear") => pod[p].turn \in Person
    /\ At(p, "holds") /\ pod[p].latched => pod[p].turn \in Person
    /\ pod[p].awaiting => pod[p].held = "approval"

LatchInv ==
    /\ lapses = 0 => \A p \in Pods : Attends(p) /\ SawLatch(p)
    /\ \A p \in Pods : ForPerson(p)
    /\ \A s \in halted : latch[s] # "none"

\* The lease of a pod at work goes only with the pod's own turn, or by a lapse.
LEMMA LeaseStays ==
    ASSUME TypeOK, Next, lapses' = 0, NEW q \in Pods, ~At(q, "idle"), Leased(q)
    PROVE  Attends(q)'
  <1> DEFINE u == pod[q].turn
             Same == job'[u].state = "running" /\ job'[u].holder = q
  <1>0. /\ job \in [Turns -> JobRow] /\ pod \in [Pods -> PodState] /\ lapses \in Nat
        /\ u \in Turns /\ u # NoTurn /\ job[u].state = "running" /\ job[u].holder = q
    BY TurnsAssumption DEF TypeOK, Leased, PodState
  <1>1. ASSUME NEW p \in Pods, NEW s, Close(p, s), p # q
        PROVE  Same
    <2>1. CASE Leased(p)
      BY <1>0, <1>1, <2>1 DEF Close, Settled, Leased
    <2> QED  BY <1>0, <1>1, <2>1 DEF Close
  <1>2. ASSUME NEW p \in Pods, NEW s, Close(p, s), Rest(p)
        PROVE  Same \/ At(q, "idle")'
    BY <1>0, <1>1, <1>2 DEF Rest, Idle, At
  <1>3. ASSUME NEW p \in Pods, Prepare(p) \/ Stream(p)
        PROVE  Same \/ At(q, "idle")'
    <2>1. ASSUME NEW t \in Turns, Claim(p, t) PROVE Same
      BY <1>0, <2>1 DEF Claim
    <2>2. CASE Absorbed(p) \/ Decline(p) \/ Park(p) \/ FinishTurn(p)
      BY <1>2, <2>2 DEF Absorbed, Decline, Park, FinishTurn
    <2>3. CASE FailTurn(p) \/ HandBack(p)
      BY <1>2, <2>3 DEF FailTurn, HandBack
    <2>4. CASE UNCHANGED job
      BY <1>0, <2>4
    <2> QED
      BY <1>3, <2>1, <2>2, <2>3, <2>4
      DEF Prepare, Stream, ReadLatch, ReadHolds, ClearStop, StopSession, HandOut,
          PrepareFails, Cut, Raise, RaiseTake, RaiseItem, RaiseGiveUp, RaiseLost, Done,
          Failed, StreamLost, CheckCancel, PodLost
  <1>4. ASSUME NEW t \in Turns, Ask(t) \/ Reap(t) PROVE Same
    <2>1. CASE Submit(t) \/ Retry(t)
      BY <1>0, <2>1 DEF Submit, Retry
    <2>2. CASE RequestCancel(t)
      BY <1>0, <2>2 DEF RequestCancel, JobRow
    <2>3. CASE Reap(t)
      <3>1. ~Working(t)
        BY <1>0, <2>3 DEF Reap
      <3>2. t # u
        BY <1>0, <3>1 DEF Working
      <3> QED  BY <1>0, <2>3, <3>2 DEF Reap, Settled
    <2> QED  BY <1>4, <2>1, <2>2, <2>3 DEF Ask
  <1>5. ASSUME NEW h \in Holds, Hold(h) PROVE Same
    <2>1. ASSUME NEW S, job' = Given(S) PROVE Same
      BY <1>0, <2>1 DEF Given
    <2> QED
      BY <1>0, <1>5, <2>1
      DEF Hold, Stop, RequestApproval, RequestItem, RequestFails, Answer, Release, Resume
  <1>6. Same \/ At(q, "idle")'
    BY <1>3, <1>4, <1>5 DEF Next
  <1>7. pod'[q] = Idle \/ pod'[q].turn = u
    <2>1. ASSUME NEW p \in Pods, PodStep(p) PROVE pod'[q] = Idle \/ pod'[q].turn = u
      BY <1>0, <2>1 DEF PodStep, WorksOn
    <2>2. ASSUME NEW p \in Pods, NEW t \in Turns, Claim(p, t) PROVE pod'[q].turn = u
      BY <1>0, <2>2 DEF Claim, At
    <2> QED  BY <1>0, <2>1, <2>2, OnePodMoves
  <1> QED  BY <1>0, <1>6, <1>7 DEF Attends, Leased, At, Idle

\* A pod starts work with a lease.
LEMMA ClaimAttends ==
    ASSUME TypeOK, NEW p \in Pods, NEW t \in Turns, Claim(p, t)
    PROVE  Attends(p)' /\ SawLatch(p)' /\ ForPerson(p)'
  <1>1. /\ job \in [Turns -> JobRow] /\ pod \in [Pods -> PodState]
        /\ t \in Turns /\ t # NoTurn
    BY TurnsAssumption DEF TypeOK
  <1> DEFINE S == StopsOn(SessionOf[t])
             r == [Idle EXCEPT !.turn = t, !.pc = "latch", !.stops = S]
             j == [job[t] EXCEPT !.state = "running", !.holder = p]
  <1>2. pod' = [pod EXCEPT ![p] = r] /\ job' = [job EXCEPT ![t] = j]
    BY <1>1 DEF Claim
  <1> HIDE DEF S
  <1>3. r.turn = t /\ r.pc = "latch" /\ r.awaiting = FALSE
    BY DEF Idle
  <1>4. j.state = "running" /\ j.holder = p
    BY <1>1 DEF JobRow
  <1> HIDE DEF r, j
  <1>5. /\ pod'[p].turn = t /\ pod'[p].pc = "latch" /\ pod'[p].awaiting = FALSE
        /\ job'[t].state = "running" /\ job'[t].holder = p
    BY <1>1, <1>2, <1>3, <1>4
  <1> QED  BY <1>1, <1>5 DEF Attends, SawLatch, ForPerson, Leased, At, Out

Latched(H, l) == \A s \in H : l[s] # "none"
OnlyAt(p) == /\ latch' # latch => ~At(p, "idle")
             /\ \A s \in Sessions : s # Session(p) => latch'[s] = latch[s]

\* What a pod at work does to itself, to the latch of its conversation and to
\* the history of stops.
LEMMA PodLatch ==
    ASSUME TypeOK, NEW p \in Pods, Prepare(p) \/ Stream(p),
           \A t \in Turns : ~Claim(p, t),
           ForPerson(p), Latched(halted, latch)
    PROVE  /\ ForPerson(p)'
           /\ SawLatch(p) => SawLatch(p)'
           /\ Latched(halted', latch')
           /\ OnlyAt(p)
  <1> DEFINE s == Session(p)
             Goal == /\ ForPerson(p)' /\ (SawLatch(p) => SawLatch(p)')
                     /\ Latched(halted', latch') /\ OnlyAt(p)
  <1>0. /\ pod \in [Pods -> PodState] /\ latch \in [Sessions -> Reasons]
        /\ halted \subseteq Sessions
        /\ ~At(p, "idle") => s \in Sessions
        /\ pod[p] \in PodState
    BY TurnsAssumption DEF TypeOK, At, PodOK, Session
  <1>1. ASSUME Rest(p), UNCHANGED <<latch, halted>> PROVE Goal
    <2>1. pod'[p] = Idle
      BY <1>0, <1>1 DEF Rest
    <2> QED  BY <1>1, <2>1 DEF ForPerson, SawLatch, Latched, OnlyAt, Idle, At, Out
  \* What the pod becomes decides the rest.
  <1>2. ASSUME NEW r, pod' = [pod EXCEPT ![p] = r], r.turn = pod[p].turn,
               r.pc # "clear", r.pc # "holds",
               r.awaiting => r.held = "approval",
               r.pc \in Out => pod[p].pc \in Out, UNCHANGED <<latch, halted>>
        PROVE  Goal
    <2>1. pod'[p] = r
      BY <1>0, <1>2
    <2> QED  BY <1>2, <2>1 DEF ForPerson, SawLatch, Latched, OnlyAt, At, Session
  <1>3. ASSUME NEW c, Goto(p, c)
        PROVE  LET r == [pod[p] EXCEPT !.pc = c]
               IN  /\ pod' = [pod EXCEPT ![p] = r]
                   /\ r.pc = c /\ r.turn = pod[p].turn /\ r.latched = pod[p].latched
                   /\ r.awaiting = pod[p].awaiting /\ r.held = pod[p].held
    BY <1>0, <1>3 DEF Goto, PodState
  <1>4. ASSUME NEW c, Goto(p, c), c # "clear", c # "holds", c \in Out => pod[p].pc \in Out,
               UNCHANGED <<latch, halted>>
        PROVE  Goal
    <2> DEFINE r == [pod[p] EXCEPT !.pc = c]
    <2>1. /\ pod' = [pod EXCEPT ![p] = r]
          /\ r.pc = c /\ r.turn = pod[p].turn
          /\ r.awaiting = pod[p].awaiting /\ r.held = pod[p].held
      BY <1>3, <1>4
    <2> HIDE DEF r
    <2> QED  BY <1>2, <1>4, <2>1 DEF ForPerson
  <1>5. CASE Absorbed(p) \/ Decline(p) \/ Park(p) \/ FinishTurn(p) \/ FailTurn(p)
             \/ HandBack(p) \/ PodLost(p)
    BY <1>1, <1>5 DEF Absorbed, Decline, Park, FinishTurn, FailTurn, HandBack, PodLost
  <1>6. CASE PrepareFails(p) \/ StreamLost(p)
    BY <1>4, <1>6 DEF PrepareFails, StreamLost, Out
  <1>7. CASE HandOut(p)
    BY <1>1, <1>4, <1>7 DEF HandOut, At, Out
  <1>8. CASE ReadLatch(p)
    <2> DEFINE stopped == latch[s] # "none"
               c == IF stopped /\ pod[p].turn \notin Person THEN "nothing" ELSE "holds"
               r == [pod[p] EXCEPT !.latched = stopped, !.pc = c]
    <2>1. /\ r.pc = c /\ r.turn = pod[p].turn /\ r.latched = stopped
          /\ r.awaiting = pod[p].awaiting /\ r.held = pod[p].held
      BY <1>0 DEF PodState
    <2>2. pod' = [pod EXCEPT ![p] = r] /\ UNCHANGED <<latch, halted>>
      BY <1>8 DEF ReadLatch
    <2> HIDE DEF r
    <2>3. pod'[p] = r
      BY <1>0, <2>2
    <2> QED  BY <2>1, <2>2, <2>3 DEF ForPerson, SawLatch, Latched, OnlyAt, At, Session, Out
  <1>9. CASE ReadHolds(p)
    <2>1. PICK c \in {"clear", "handout", "stop", "park"} :
             /\ Goto(p, c)
             /\ c = "clear" => pod[p].latched
             /\ c = "handout" => ~pod[p].latched
      BY <1>9 DEF ReadHolds
    <2>2. UNCHANGED <<latch, halted>> /\ At(p, "holds")
      BY <1>9 DEF ReadHolds
    <2>3. CASE c \in {"stop", "park"}
      BY <1>4, <2>1, <2>2, <2>3 DEF Out
    <2>4. CASE c \in {"clear", "handout"}
      <3> DEFINE r == [pod[p] EXCEPT !.pc = c]
      <3>1. /\ pod' = [pod EXCEPT ![p] = r] /\ r.pc = c /\ r.turn = pod[p].turn
            /\ r.awaiting = pod[p].awaiting /\ r.held = pod[p].held
        BY <1>3, <2>1
      <3> HIDE DEF r
      <3>2. pod'[p] = r
        BY <1>0, <3>1
      <3> QED  BY <2>1, <2>2, <2>4, <3>1, <3>2
               DEF ForPerson, SawLatch, Latched, OnlyAt, At, Session, Out
    <2> QED  BY <2>1, <2>3, <2>4
  <1>10. CASE ClearStop(p)
    <2> DEFINE r == [pod[p] EXCEPT !.pc = "handout"]
    <2>1. /\ pod' = [pod EXCEPT ![p] = r] /\ r.pc = "handout" /\ r.turn = pod[p].turn
          /\ r.awaiting = pod[p].awaiting /\ r.held = pod[p].held
      BY <1>3, <1>10 DEF ClearStop
    <2> HIDE DEF r
    <2>2. pod'[p] = r /\ Session(p)' = s /\ s \in Sessions
      BY <1>0, <1>10, <2>1 DEF Session, ClearStop, At
    <2>3. /\ latch' = [latch EXCEPT ![s] = "none"] /\ pod[p].turn \in Person
          /\ halted' = halted \ {s}
      BY <1>10 DEF ClearStop, ForPerson
    <2> HIDE DEF s
    <2> QED  BY <1>0, <1>10, <2>1, <2>2, <2>3
             DEF ForPerson, SawLatch, Latched, OnlyAt, At, s, ClearStop
  \* A latch is written by a pod whose turn is over.
  <1>11. ASSUME NEW c, Goto(p, c), c \in {"nothing", "done", "failed"},
                ~At(p, "idle"),
                NEW w \in {"stop", "approval"}, NEW stops \in BOOLEAN,
                latch' = Stopped(s, w),
                halted' = IF stops THEN halted \cup {s} ELSE halted
         PROVE  Goal
    <2> DEFINE r == [pod[p] EXCEPT !.pc = c]
    <2>1. /\ pod' = [pod EXCEPT ![p] = r] /\ r.pc = c /\ r.turn = pod[p].turn
          /\ r.awaiting = pod[p].awaiting /\ r.held = pod[p].held
      BY <1>3, <1>11
    <2> HIDE DEF r
    <2>2. pod'[p] = r /\ s \in Sessions
      BY <1>0, <1>11, <2>1
    <2>3. ForPerson(p)' /\ SawLatch(p)'
      BY <1>11, <2>1, <2>2 DEF ForPerson, SawLatch, At, Out
    <2> HIDE DEF s
    <2>4. latch'[s] # "none" /\ \A x \in Sessions : x # s => latch'[x] = latch[x]
      BY <1>0, <1>11, <2>2 DEF Stopped
    <2> QED  BY <1>0, <1>11, <2>2, <2>3, <2>4 DEF Latched, OnlyAt, s
  <1>12. CASE StopSession(p)
    <2>1. halted' = IF TRUE THEN halted \cup {s} ELSE halted
      BY <1>12 DEF StopSession
    <2> QED  BY <1>11, <1>12, <2>1 DEF StopSession, At
  <1>13. CASE Done(p) \/ Failed(p)
    <2>0. pod[p].held \in Reasons /\ (pod[p].held = "stop") \in BOOLEAN
      BY <1>0 DEF PodState
    <2>1. /\ Goto(p, "done") \/ Goto(p, "failed")
          /\ ~At(p, "idle")
          /\ halted' = IF pod[p].held = "stop" THEN halted \cup {s} ELSE halted
      BY <1>13 DEF Done, Failed, At
    <2>2. \/ latch' = latch /\ pod[p].held # "stop"
          \/ latch' = Stopped(s, pod[p].held) /\ pod[p].held # "none"
      BY <1>13 DEF Done, Failed, ForPerson
    <2>3. CASE latch' = latch /\ pod[p].held # "stop"
      BY <1>4, <2>1, <2>3 DEF Out
    <2>4. CASE latch' = Stopped(s, pod[p].held) /\ pod[p].held # "none"
      <3>1. pod[p].held \in {"stop", "approval"}
        BY <2>0, <2>4 DEF Reasons
      <3> QED  BY <1>11, <2>0, <2>1, <2>4, <3>1
    <2> QED  BY <2>2, <2>3, <2>4
  <1>14. CASE Cut(p)
    <2> DEFINE r == [pod[p] EXCEPT !.held = "stop"]
    <2>1. /\ pod' = [pod EXCEPT ![p] = r] /\ r.pc = "streaming" /\ r.turn = pod[p].turn
          /\ r.awaiting = pod[p].awaiting
      BY <1>0, <1>14 DEF Cut, PodState, At
    <2> HIDE DEF r
    <2> QED  BY <1>2, <1>14, <2>1 DEF Cut, ForPerson, At, Out
  <1>15. ASSUME pod[p].pc \in Out, UNCHANGED <<latch, halted>>,
                NEW r, r \in {Awaits(pod[p]), Refused(pod[p])},
                pod' = [pod EXCEPT ![p] = r]
         PROVE  Goal
    <2>1. /\ r.pc = "streaming" /\ r.turn = pod[p].turn
          /\ r.awaiting => r.held = "approval"
      BY <1>0, <1>15 DEF PodState, Awaits, Refused, ForPerson
    <2> QED  BY <1>2, <1>15, <2>1
  <1>16. CASE Raise(p)
    BY <1>4, <1>15, <1>16 DEF Raise, At, Out
  <1>17. CASE RaiseItem(p) \/ RaiseGiveUp(p) \/ RaiseLost(p)
    BY <1>15, <1>17 DEF RaiseItem, RaiseGiveUp, RaiseLost, At, Out
  <1>18. ASSUME NEW h \in Holds, RaiseTake(p, h) PROVE Goal
    <2> DEFINE r == [pod[p] EXCEPT !.pc = "asking", !.asked = h]
    <2>1. /\ pod' = [pod EXCEPT ![p] = r] /\ r.pc = "asking" /\ r.turn = pod[p].turn
          /\ r.awaiting = pod[p].awaiting /\ r.held = pod[p].held
      BY <1>0, <1>18 DEF RaiseTake, PodState
    <2> HIDE DEF r
    <2> QED  BY <1>2, <1>18, <2>1 DEF RaiseTake, ForPerson, At, Out
  <1>19. CASE CheckCancel(p)
    <2> DEFINE r == [pod[p] EXCEPT !.pc = "closing",
                                   !.cancelled = job[pod[p].turn].cancel]
    <2>1. /\ r.pc = "closing" /\ r.turn = pod[p].turn
          /\ r.awaiting = pod[p].awaiting /\ r.held = pod[p].held
      BY <1>0 DEF PodState
    <2>2. pod' = [pod EXCEPT ![p] = r] \/ Rest(p)
      BY <1>19 DEF CheckCancel
    <2> HIDE DEF r
    <2> QED  BY <1>1, <1>2, <1>19, <2>1, <2>2 DEF CheckCancel, ForPerson, Out
  <1> QED
    BY <1>5, <1>6, <1>7, <1>8, <1>9, <1>10, <1>12, <1>13, <1>14, <1>16, <1>17, <1>18, <1>19
    DEF Prepare, Stream

\* While no lease lapsed, two pods at work are not at work on one conversation.
LEMMA OneAtWork ==
    ASSUME TypeOK, OneRuns, NEW p \in Pods, NEW q \in Pods, Leased(p), Leased(q),
           Session(p) = Session(q)
    PROVE  p = q
  <1>1. pod[p].turn \in Turns /\ pod[q].turn \in Turns
    BY TurnsAssumption DEF TypeOK, PodState, Leased
  <1> QED  BY <1>1 DEF OneRuns, Leased, Session

\* Every step keeps what is known of the latch.
LEMMA LatchStep ==
    ASSUME TypeOK, OneRuns, LatchInv, Next
    PROVE  LatchInv'
  <1>0. /\ pod \in [Pods -> PodState] /\ lapses \in Nat
        /\ \A p \in Pods : ForPerson(p)
        /\ Latched(halted, latch)
    BY DEF TypeOK, LatchInv, Latched
  <1>1. lapses' = 0 => lapses = 0
    <2>1. ASSUME NEW p \in Pods, Prepare(p) \/ Stream(p) PROVE lapses' = lapses
      BY <2>1
      DEF Prepare, Stream, Claim, Absorbed, ReadLatch, ReadHolds, ClearStop, StopSession,
          Decline, Park, HandOut, PrepareFails, Cut, Raise, RaiseTake, RaiseItem,
          RaiseGiveUp, RaiseLost, Done, Failed, StreamLost, CheckCancel, FinishTurn,
          FailTurn, HandBack, PodLost
    <2>2. ASSUME NEW t \in Turns, Ask(t) \/ Reap(t) PROVE lapses' \in {lapses, lapses + 1}
      BY <2>2 DEF Ask, Submit, Retry, RequestCancel, Reap
    <2>3. ASSUME NEW h \in Holds, Hold(h) PROVE lapses' = lapses
      BY <2>3
      DEF Hold, Stop, RequestApproval, RequestItem, RequestFails, Answer, Release, Resume
    <2> QED  BY <1>0, <2>1, <2>2, <2>3 DEF Next
  <1>2. CASE pod' = pod /\ latch' = latch /\ halted' = halted
    <2>1. \A p \in Pods : ForPerson(p)' /\ (SawLatch(p) => SawLatch(p)')
      BY <1>0, <1>2 DEF ForPerson, SawLatch, At, Session
    <2>2. ASSUME lapses' = 0, NEW p \in Pods PROVE Attends(p)'
      <3>1. CASE At(p, "idle")
        BY <1>2, <3>1 DEF Attends, At
      <3>2. CASE ~At(p, "idle")
        BY <1>1, <2>2, <3>2, LeaseStays DEF LatchInv, Attends
      <3> QED  BY <3>1, <3>2
    <2> QED  BY <1>0, <1>1, <1>2, <2>1, <2>2 DEF LatchInv, Latched
  <1>3. ASSUME NEW p \in Pods, NEW t \in Turns, Claim(p, t) PROVE LatchInv'
    <2>0. /\ latch' = latch /\ halted' = halted
          /\ \A q \in Pods \ {p} : pod'[q] = pod[q]
      BY <1>0, <1>3 DEF Claim
    <2>1. Attends(p)' /\ SawLatch(p)' /\ ForPerson(p)'
      BY <1>3, ClaimAttends
    <2>2. \A q \in Pods \ {p} : ForPerson(q)' /\ (SawLatch(q) => SawLatch(q)')
      BY <1>0, <2>0 DEF ForPerson, SawLatch, At, Session
    <2>3. ASSUME lapses' = 0, NEW q \in Pods \ {p} PROVE Attends(q)'
      <3>1. CASE At(q, "idle")
        BY <2>0, <3>1 DEF Attends, At
      <3>2. CASE ~At(q, "idle")
        BY <1>1, <2>3, <3>2, LeaseStays DEF LatchInv, Attends
      <3> QED  BY <3>1, <3>2
    <2> QED  BY <1>0, <1>1, <2>0, <2>1, <2>2, <2>3 DEF LatchInv, Latched
  <1>4. ASSUME NEW p \in Pods, Prepare(p) \/ Stream(p), \A t \in Turns : ~Claim(p, t)
        PROVE  LatchInv'
    <2>1. /\ ForPerson(p)' /\ (SawLatch(p) => SawLatch(p)')
          /\ Latched(halted', latch') /\ OnlyAt(p)
      BY <1>0, <1>4, PodLatch
    <2>2. PodStep(p)
      BY <1>4, PodSteps
    <2>3. PICK r \in PodState : pod' = [pod EXCEPT ![p] = r] /\ (r = Idle \/ WorksOn(p, r))
      BY <2>2 DEF PodStep
    <2>4. \A q \in Pods \ {p} : pod'[q] = pod[q] /\ ForPerson(q)'
      BY <1>0, <2>3 DEF ForPerson, At
    <2>5. ASSUME lapses' = 0, NEW q \in Pods, q # p PROVE Attends(q)' /\ SawLatch(q)'
      <3>1. CASE At(q, "idle")
        BY <2>4, <2>5, <3>1 DEF Attends, SawLatch, At, Out
      <3>2. CASE ~At(q, "idle")
        <4>1. Attends(q)' /\ Leased(q) /\ SawLatch(q)
          BY <1>1, <2>5, <3>2, LeaseStays DEF LatchInv, Attends
        <4>2. Session(q) \in Sessions
          BY <3>2, TurnsAssumption DEF TypeOK, PodOK, At, Session
        <4>3. latch'[Session(q)] = latch[Session(q)]
          <5>1. CASE At(p, "idle")
            BY <2>1, <5>1 DEF OnlyAt
          <5>2. CASE ~At(p, "idle")
            <6>1. Leased(p)
              BY <1>1, <2>5, <5>2 DEF LatchInv, Attends
            <6> QED  BY <2>1, <2>5, <4>1, <4>2, <6>1, OneAtWork DEF OnlyAt
          <5> QED  BY <5>1, <5>2
        <4> QED  BY <2>4, <2>5, <4>1, <4>3 DEF SawLatch, At, Session
      <3> QED  BY <3>1, <3>2
    <2>6. ASSUME lapses' = 0 PROVE Attends(p)' /\ SawLatch(p)'
      <3>1. SawLatch(p)'
        BY <1>1, <2>1, <2>6 DEF LatchInv
      <3>2. ~At(p, "idle")
        BY <1>4
        DEF Prepare, Stream, Absorbed, ReadLatch, ReadHolds, ClearStop, StopSession,
            Decline, Park, HandOut, PrepareFails, Cut, Raise, RaiseTake, RaiseItem,
            RaiseGiveUp, RaiseLost, Done, Failed, StreamLost, CheckCancel, FinishTurn,
            FailTurn, HandBack, PodLost, At, Preparing
      <3> QED  BY <1>1, <2>6, <3>1, <3>2, LeaseStays DEF LatchInv, Attends
    <2> QED  BY <2>1, <2>4, <2>5, <2>6 DEF LatchInv, Latched
  <1>5. ASSUME NEW t \in Turns, Ask(t) \/ Reap(t)
        PROVE  pod' = pod /\ latch' = latch /\ halted' = halted
    BY <1>5 DEF Ask, Submit, Retry, RequestCancel, Reap
  <1>6. ASSUME NEW h \in Holds, Hold(h)
        PROVE  pod' = pod /\ latch' = latch /\ halted' = halted
    BY <1>6
    DEF Hold, Stop, RequestApproval, RequestItem, RequestFails, Answer, Release, Resume
  <1> QED  BY <1>2, <1>3, <1>4, <1>5, <1>6 DEF Next

\* The queue never runs two turns of a conversation, and the latch is as every
\* pod at work believes.
THEOREM LatchInvariance == Spec => [](OneRuns /\ LatchInv)
  <1>1. Init => OneRuns /\ LatchInv
    BY DEF Init, OneRuns, LatchInv, Attends, SawLatch, ForPerson, Idle, At, Out
  <1>2. TypeOK /\ OneRuns /\ LatchInv /\ [Next]_vars => OneRuns' /\ LatchInv'
    <2>1. CASE UNCHANGED vars
      BY <2>1
      DEF vars, OneRuns, LatchInv, Attends, SawLatch, ForPerson, At, Leased, Session
    <2> QED  BY <2>1, EveryStepFollows, OneRunsStep, LatchStep
  <1> QED  BY <1>1, <1>2, TypeCorrect, PTL DEF Spec

\* For any number of pods and conversations: a turn that is out with the pod
\* that holds its lease runs in a conversation that is not stopped, as long as
\* no lease has lapsed.
THEOREM Unlatched == Spec => []RunsUnlatched
  <1>1. LatchInv => RunsUnlatched
    BY DEF LatchInv, RunsUnlatched, SawLatch, Out
  <1> QED  BY <1>1, LatchInvariance, PTL

\* What a stop ended stays ended until a person's turn: every conversation in
\* the history of stops still has its latch, and a turn that streams has none.
THEOREM PersonLiftsStop == Spec => []StopNeedsPerson
  <1>1. ASSUME TypeOK, LatchInv PROVE StopNeedsPerson
    <2> SUFFICES ASSUME lapses = 0, NEW p \in Pods, At(p, "streaming")
                 PROVE  Session(p) \notin halted
      BY DEF StopNeedsPerson
    <2> QED  BY <1>1 DEF LatchInv, SawLatch, Out, At
  <1> QED  BY <1>1, LatchInvariance, TypeCorrect, PTL
=============================================================================
