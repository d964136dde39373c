------------------------- MODULE TurnRepliesProofs -------------------------
(***************************************************************************)
(* Proofs about TurnReplies, for any messages, pods and bounds: one answer *)
(* to one message whatever lapses, and what more is true of runs in which  *)
(* no lease lapses under a pod that goes on, in which nobody asks for a    *)
(* turn again, and in which no pod dies.                                   *)
(***************************************************************************)
EXTENDS TurnReplies, SequenceTheorems, WellFoundedInduction, TLAPS

-----------------------------------------------------------------------------
(* What each record may hold                                               *)

Waiting == {"idle", "sealing", "discarding", "recording"}
Working == {"taken", "deciding", "claiming", "returning", "ready", "out", "reporting",
            "streaming", "checking", "closing", "failing"}
Replying == {"streaming", "checking", "closing"}

JobRec == [st : {"none", "pending", "running", "succeeded", "failed", "parked"},
           holder : Pods \cup {Nobody}, tries : Nat, rel : Nat, answered : BOOLEAN]
RowRec == [p : Prompts, a : Nat, st : RowStates, shown : BOOLEAN,
           how : {"none", "succeeded", "parked"}]
PodRec == [pc : Waiting \cup Working, p : Prompts \cup {0}, a : Nat, id : Nat, mine : Nat,
           good : BOOLEAN, parks : BOOLEAN]
Left == [crash : Nat, stall : Nat, retry : Nat, park : Nat, back : Nat]

Types ==
    /\ sent \in SUBSET Prompts /\ absorbed \in [Prompts -> 0..Len(rows)]
    /\ job \in [Prompts -> JobRec] /\ rows \in Seq(RowRec)
    /\ told \in [Prompts -> BOOLEAN] /\ pod \in [Procs -> PodRec] /\ left \in Left
    /\ \A i \in Ids : rows[i].a <= i

\* A turn waiting for a pod has attempts left, and one that runs has used one.
Tried(j) ==
    /\ j.tries <= MaxAttempts
    /\ j.st \in {"none", "pending", "parked"} => j.tries < MaxAttempts
    /\ j.st = "running" => j.tries > 0

\* What a pod is doing is a turn's; the replies it knows are in R, and the one it streams
\* is that turn's.
Placed(v, R) ==
    /\ v.pc # "idle" => v.p \in Prompts
    /\ v.id <= Len(R) /\ v.mine <= Len(R) /\ v.a <= Len(R) + 1
    /\ v.pc \in Replying => v.id > 0 /\ R[v.id].p = v.p

\* A reply closed as the answer is the answer of a turn that succeeded.
HowDone == \A i \in Ids : rows[i].how = "succeeded" => job[rows[i].p].st = "succeeded"

Inv ==
    /\ PromptsAssumption /\ Types
    /\ \A p \in Prompts : Tried(job[p])
    /\ \A w \in Procs : Placed(pod[w], rows)
    /\ pod[Reaper].pc \in Waiting
    /\ HowDone /\ OneAnswer

-----------------------------------------------------------------------------
(* Attempts                                                                *)

\* A set of numbers that is bounded has a greatest.
LEMMA Greatest ==
    ASSUME NEW S \in SUBSET Nat, S # {}, NEW n \in Nat, \A x \in S : x <= n
    PROVE  \E x \in S : \A y \in S : y <= x
<1> DEFINE T == {m \in Nat : \E x \in S : m = n - x}
<1>1. T # {}
  <2>1. PICK x \in S : TRUE
    OBVIOUS
  <2>2. n - x \in T
    BY <2>1
  <2> QED BY <2>2
<1>2. PICK m \in T : \A k \in T : ~ (<<k, m>> \in OpToRel(<, Nat))
  BY <1>1, WFMin, NatLessThanWellFounded
<1>3. \A k \in T : ~ (k < m)
  BY <1>2 DEF OpToRel
<1>4. PICK x \in S : m = n - x
  OBVIOUS
<1>5. ASSUME NEW y \in S PROVE y <= x
  <2>1. n - y \in T
    BY <1>5
  <2> QED BY <2>1, <1>3, <1>4
<1> QED BY <1>4, <1>5

\* The replies are numbered from one, and each is a row.
LEMMA Numbered ==
    ASSUME Types
    PROVE  Len(rows) \in Nat /\ DOMAIN rows = Ids /\ \A i \in Ids : i \in Nat /\ rows[i] \in RowRec
BY DEF Types, Ids

\* The current attempt of a turn with replies is the latest of them; of one without, the
\* first.
LEMMA Latest ==
    ASSUME Types, NEW p \in Prompts
    PROVE  LET a == CurrentAttempt(p) IN
           /\ a \in Nat /\ a <= Len(rows) + 1
           /\ RepliesTo(p) = {} => a = 1
           /\ \A i \in RepliesTo(p) : rows[i].a <= a
           /\ RepliesTo(p) # {} => a <= Len(rows) /\ AttemptAt(p, a) # {}
<1>1. CASE RepliesTo(p) = {}
  BY <1>1, Numbered DEF CurrentAttempt
<1>2. CASE RepliesTo(p) # {}
  <2> DEFINE S == {rows[i].a : i \in RepliesTo(p)}
  <2>1. \A i \in RepliesTo(p) : i \in Ids /\ rows[i].a \in Nat /\ rows[i].a <= Len(rows)
    <3> SUFFICES ASSUME NEW i \in RepliesTo(p)
                 PROVE  i \in Ids /\ rows[i].a \in Nat /\ rows[i].a <= Len(rows)
      OBVIOUS
    <3>1. i \in Ids /\ rows[i] \in RowRec /\ rows[i].a <= i /\ i <= Len(rows) /\ i \in Nat
      BY Numbered DEF RepliesTo, Types, Ids
    <3>2. rows[i].a \in Nat
      BY <3>1 DEF RowRec
    <3> QED BY <3>1, <3>2, Numbered
  <2>2. S \in SUBSET Nat /\ S # {} /\ \A x \in S : x <= Len(rows)
    BY <1>2, <2>1
  <2>3. \E x \in S : \A y \in S : y <= x
    <3> HIDE DEF S
    <3> QED BY <2>2, Greatest, Numbered
  <2>4. \E x \in S : \A i \in RepliesTo(p) : rows[i].a <= x
    BY <2>3
  <2>5. CurrentAttempt(p) = CHOOSE a \in S : \A i \in RepliesTo(p) : rows[i].a <= a
    BY <1>2 DEF CurrentAttempt
  <2>6. CurrentAttempt(p) \in S /\ \A i \in RepliesTo(p) : rows[i].a <= CurrentAttempt(p)
    <3> HIDE DEF S
    <3> QED BY <2>4, <2>5
  <2>7. AttemptAt(p, CurrentAttempt(p)) # {}
    BY <2>6 DEF AttemptAt
  <2>8. CurrentAttempt(p) \in Nat /\ CurrentAttempt(p) <= Len(rows)
    BY <2>2, <2>6
  <2> QED BY <1>2, <2>6, <2>7, <2>8, Numbered
<1> QED BY <1>1, <1>2

\* The row of an attempt there is one of.
LEMMA ItsRow ==
    ASSUME Types, NEW p, NEW a, AttemptAt(p, a) # {}
    PROVE  LET i == TheRow(p, a) IN
           i \in Ids /\ rows[i] \in RowRec /\ rows[i].p = p /\ rows[i].a = a /\ Here(i)
<1>1. TheRow(p, a) \in AttemptAt(p, a)
  BY DEF TheRow
<1> QED BY <1>1, Numbered DEF AttemptAt, RepliesTo

-----------------------------------------------------------------------------
(* The ways a step changes the state                                       *)

\* Replies are added, and none becomes another's.
RowsGrow ==
    /\ rows' \in Seq(RowRec) /\ Len(rows) <= Len(rows')
    /\ \A i \in Ids : rows'[i].p = rows[i].p /\ rows'[i].a = rows[i].a
    /\ \A i \in Ids' : rows'[i].a <= i
\* No reply becomes the answer.
NoneAnswers == \A i \in Ids' : rows'[i].how = "succeeded" => i \in Ids /\ rows[i].how = "succeeded"
\* Success is final.
JobsMove ==
    /\ job' \in [Prompts -> JobRec]
    /\ \A p \in Prompts : Tried(job'[p]) /\ (job[p].st = "succeeded" => job'[p].st = "succeeded")
\* One pod moves, or the sweep.
PodMoves(w, r) ==
    /\ pod' = [pod EXCEPT ![w] = r]
    /\ r \in PodRec /\ Placed(r, rows') /\ (w = Reaper => r.pc \in Waiting)

\* A reply added or written over leaves the others where they are.
LEMMA Added ==
    ASSUME Types, NEW r \in RowRec, r.a <= Len(rows) + 1, rows' = Append(rows, r)
    PROVE  /\ RowsGrow /\ Len(rows') = Len(rows) + 1
           /\ \A i \in Ids : rows'[i] = rows[i]
           /\ rows'[Len(rows) + 1] = r
<1>1. /\ rows' \in Seq(RowRec) /\ Len(rows') = Len(rows) + 1
      /\ \A i \in Ids : rows'[i] = rows[i]
      /\ rows'[Len(rows) + 1] = r
  BY AppendProperties DEF Types, Ids
<1> QED BY <1>1, Numbered DEF RowsGrow, Types, Ids

LEMMA Written ==
    ASSUME Types, NEW i \in Ids, NEW r \in RowRec, r.p = rows[i].p, r.a = rows[i].a,
           rows' = [rows EXCEPT ![i] = r]
    PROVE  /\ RowsGrow /\ Len(rows') = Len(rows) /\ Ids' = Ids
           /\ rows'[i] = r
           /\ \A k \in Ids \ {i} : rows'[k] = rows[k]
<1>1. /\ rows' \in Seq(RowRec) /\ Len(rows') = Len(rows)
      /\ \A k \in Ids : rows'[k] = IF k = i THEN r ELSE rows[k]
  BY ExceptSeq DEF Types, Ids
<1> QED BY <1>1, Numbered DEF RowsGrow, Types, Ids

LEMMA Kept ==
    ASSUME Types, rows' = rows
    PROVE  RowsGrow /\ NoneAnswers
BY DEF RowsGrow, NoneAnswers, Types, Ids

LEMMA JobKept ==
    ASSUME Inv, job' = job
    PROVE  JobsMove
BY DEF JobsMove, Inv, Types

LEMMA JobMoves ==
    ASSUME Inv, NEW p \in Prompts, NEW j \in JobRec, job' = [job EXCEPT ![p] = j], Tried(j),
           job[p].st # "succeeded"
    PROVE  JobsMove
BY DEF JobsMove, Inv, Types

LEMMA PodKept ==
    ASSUME Inv, NEW w \in Procs, pod' = pod, RowsGrow
    PROVE  PodMoves(w, pod[w])
<1>1. pod' = [pod EXCEPT ![w] = pod[w]] /\ pod[w] \in PodRec
  BY DEF Inv, Types
<1>2. Placed(pod[w], rows')
  BY <1>1, Numbered DEF Placed, RowsGrow, PodRec, Inv, Ids
<1> QED BY <1>1, <1>2 DEF PodMoves, Inv

\* Such a step keeps the invariant.
LEMMA Steps ==
    ASSUME Inv, RowsGrow, NoneAnswers, JobsMove, NEW w \in Procs, NEW r, PodMoves(w, r),
           sent' \in SUBSET Prompts, absorbed' \in [Prompts -> 0..Len(rows')],
           told' \in [Prompts -> BOOLEAN], left' \in Left
    PROVE  Inv'
<1>1. Types'
  BY DEF Inv, Types, RowsGrow, JobsMove, PodMoves
<1>2. \A p \in Prompts : Tried(job'[p])
  BY DEF JobsMove
<1>3. ASSUME NEW v \in Procs PROVE Placed(pod'[v], rows')
  <2>1. CASE v = w
    BY <2>1 DEF PodMoves, Inv, Types
  <2>2. CASE v # w
    <3>1. pod'[v] = pod[v] /\ pod[v] \in PodRec /\ Placed(pod[v], rows)
      BY <2>2 DEF PodMoves, Inv, Types
    <3> QED BY <3>1, Numbered DEF Placed, RowsGrow, PodRec, Inv, Ids
  <2> QED BY <2>1, <2>2
<1>4. pod'[Reaper].pc \in Waiting
  BY DEF PodMoves, Inv, Types, Procs
<1>5. HowDone' /\ OneAnswer'
  <2>1. ASSUME NEW i \in Ids', rows'[i].how = "succeeded"
        PROVE  /\ i \in Ids /\ rows[i].how = "succeeded" /\ rows'[i].p = rows[i].p
               /\ rows[i].p \in Prompts /\ job'[rows[i].p].st = "succeeded"
    <3>1. i \in Ids /\ rows[i].how = "succeeded" /\ rows'[i].p = rows[i].p
      BY <2>1 DEF NoneAnswers, RowsGrow
    <3>2. rows[i].p \in Prompts
      BY <3>1, Numbered DEF Inv, RowRec
    <3> QED BY <3>1, <3>2 DEF Inv, HowDone, JobsMove
  <2> QED BY <2>1 DEF HowDone, OneAnswer, Inv
<1> QED BY <1>1, <1>2, <1>3, <1>4, <1>5 DEF Inv

-----------------------------------------------------------------------------
(* Each step keeps the invariant                                           *)

\* The bounds are numbers.
LEMMA Bounds ==
    ASSUME PromptsAssumption
    PROVE  /\ MaxAttempts \in Nat /\ MaxAttempts > 0 /\ MaxReleases \in Nat
           /\ 0 \notin Prompts /\ Reaper \notin Pods /\ Nobody \notin Pods
BY DEF PromptsAssumption

LEMMA InitInv ==
    ASSUME PromptsAssumption, Init
    PROVE  Inv
<1>1. Types
  BY DEF Init, PromptsAssumption, Types, NoJob, JobRec, Idle, PodRec, Waiting, Left, Ids, Over
<1>2. (\A p \in Prompts : Tried(job[p])) /\ \A w \in Procs : Placed(pod[w], rows)
  BY DEF Init, PromptsAssumption, Tried, NoJob, Over, Placed, Idle, Replying
<1>3. pod[Reaper].pc \in Waiting /\ HowDone /\ OneAnswer
  BY DEF Init, Procs, Idle, Waiting, HowDone, OneAnswer, Ids
<1> QED BY <1>1, <1>2, <1>3 DEF Inv

\* A step of a pod that neither writes a reply nor moves a job.
LEMMA OnlyPod ==
    ASSUME Inv, NEW w \in Pods, NEW r \in PodRec, Go(w, r), Placed(r, rows), left' \in Left,
           UNCHANGED <<sent, absorbed, job, rows, told>>
    PROVE  Inv'
<1>1. PodMoves(w, r)
  BY DEF PodMoves, Go, Inv, Procs, Types, PromptsAssumption, Waiting
<1> QED BY <1>1, Steps, Kept, JobKept DEF Inv, Types, Procs

\* The steps that only move the pod, or that do nothing.
PodSteps(w) ==
    \/ Begin(w) \/ HandOut(w) \/ Report(w) \/ Done(w) \/ Awaits(w)
    \/ \E forGood \in BOOLEAN : Breaks(w, forGood)
    \/ CheckLease(w) \/ CheckFailure(w) \/ Crash(w)

LEMMA PodStepsKeep ==
    ASSUME Inv, NEW w \in Pods, PodSteps(w)
    PROVE  Inv'
<1> DEFINE v == pod[w]
<1>1. v \in PodRec /\ Placed(v, rows) /\ w \in Procs /\ Idle \in PodRec /\ Placed(Idle, rows)
  BY Numbered DEF Inv, Types, Procs, Idle, PodRec, Placed, Waiting, Replying
<1>2. left \in Left /\ \A k \in DOMAIN left : Spent(k) => left' \in Left
  BY DEF Inv, Types, Left, Spent
<1>3. /\ v.pc = "taken" => LET r == [v EXCEPT !.pc = "deciding"] IN r \in PodRec /\ Placed(r, rows)
      /\ v.pc = "ready" =>
            LET r == [v EXCEPT !.pc = "out", !.mine = v.id] IN r \in PodRec /\ Placed(r, rows)
      /\ v.pc = "out" => LET r == [v EXCEPT !.pc = "reporting"] IN r \in PodRec /\ Placed(r, rows)
      /\ v.pc = "streaming" =>
            LET r == [v EXCEPT !.pc = "checking"] IN r \in PodRec /\ Placed(r, rows)
      /\ v.pc = "streaming" =>
            LET r == [v EXCEPT !.pc = "checking", !.parks = TRUE] IN r \in PodRec /\ Placed(r, rows)
      /\ v.pc = "streaming" => \A g \in BOOLEAN :
            LET r == [v EXCEPT !.pc = "failing", !.good = g] IN r \in PodRec /\ Placed(r, rows)
      /\ v.pc = "checking" => LET r == [v EXCEPT !.pc = "closing"] IN r \in PodRec /\ Placed(r, rows)
      /\ v.pc = "failing" => \A pc \in {"sealing", "recording"} :
            LET r == [v EXCEPT !.pc = pc] IN r \in PodRec /\ Placed(r, rows)
  BY <1>1 DEF PodRec, Placed, Waiting, Working, Replying
<1>4. \E r \in PodRec : Go(w, r) /\ Placed(r, rows)
  <2>1. CASE Begin(w) \/ Report(w) \/ Done(w) \/ CheckLease(w) \/ CheckFailure(w) \/ Crash(w)
    BY <1>1, <1>3, <2>1 DEF Begin, Report, Done, CheckLease, CheckFailure, Crash, To, At
  <2>2. CASE HandOut(w)
    BY <1>1, <1>3, <2>2 DEF HandOut, At
  <2>3. CASE Awaits(w) \/ \E forGood \in BOOLEAN : Breaks(w, forGood)
    BY <1>1, <1>3, <2>3 DEF Awaits, Breaks, At
  <2> QED BY <2>1, <2>2, <2>3 DEF PodSteps
<1>5. left' \in Left /\ UNCHANGED <<sent, absorbed, job, rows, told>>
  BY <1>2 DEF PodSteps, Begin, HandOut, Report, Done, Awaits, Breaks, CheckLease, CheckFailure,
              Crash, Left, Inv, Types
<1> QED BY <1>4, <1>5, OnlyPod

\* A job asked for, or taken by a pod, is as it should be.
LEMMA Asked ==
    ASSUME PromptsAssumption, NEW j \in JobRec, Tried(j)
    PROVE  /\ LET k == [j EXCEPT !.st = "pending", !.tries = 0] IN k \in JobRec /\ Tried(k)
           /\ j.st = "none" => LET k == [j EXCEPT !.st = "pending"] IN k \in JobRec /\ Tried(k)
           /\ j.st = "parked" =>
                 LET k == [j EXCEPT !.st = "pending", !.answered = TRUE] IN k \in JobRec /\ Tried(k)
           /\ j.st = "pending" => \A w \in Pods :
                 LET k == [j EXCEPT !.st = "running", !.holder = w, !.tries = @ + 1]
                 IN  k \in JobRec /\ Tried(k)
<1>0. MaxAttempts \in Nat /\ MaxAttempts > 0 /\ j.tries \in Nat
  BY Bounds DEF JobRec
<1>1. LET k == [j EXCEPT !.st = "pending", !.tries = 0] IN k \in JobRec /\ Tried(k)
  <2> DEFINE k == [j EXCEPT !.st = "pending", !.tries = 0]
  <2>1. k \in JobRec /\ k.st = "pending" /\ k.tries = 0
    BY DEF JobRec
  <2> HIDE DEF k
  <2>2. Tried(k)
    BY <1>0, <2>1 DEF Tried
  <2> QED BY <2>1, <2>2 DEF k
<1>2. j.st = "none" => LET k == [j EXCEPT !.st = "pending"] IN k \in JobRec /\ Tried(k)
  BY <1>0 DEF JobRec, Tried
<1>3. j.st = "parked" =>
        LET k == [j EXCEPT !.st = "pending", !.answered = TRUE] IN k \in JobRec /\ Tried(k)
  <2> DEFINE k == [j EXCEPT !.st = "pending", !.answered = TRUE]
  <2>1. k \in JobRec /\ k.st = "pending" /\ k.tries = j.tries
    BY DEF JobRec
  <2> HIDE DEF k
  <2>2. j.st = "parked" => Tried(k)
    BY <1>0, <2>1 DEF Tried
  <2> QED BY <2>1, <2>2 DEF k
<1>4. ASSUME NEW w \in Pods, j.st = "pending"
      PROVE  LET k == [j EXCEPT !.st = "running", !.holder = w, !.tries = @ + 1] IN
             k \in JobRec /\ Tried(k)
  <2> DEFINE k == [j EXCEPT !.st = "running", !.holder = w, !.tries = @ + 1]
  <2>1. k \in JobRec /\ k.st = "running"
    <3>1. j.tries + 1 \in Nat /\ w \in Pods \cup {Nobody}
      BY <1>0
    <3> QED BY <3>1 DEF JobRec
  <2>3. k.tries = j.tries + 1
    BY DEF JobRec
  <2> HIDE DEF k
  <2>2. Tried(k)
    BY <1>0, <1>4, <2>1, <2>3 DEF Tried
  <2> QED BY <2>1, <2>2 DEF k
<1> QED BY <1>1, <1>2, <1>3, <1>4

\* So is one that is over, or goes back to pending with attempts left.
LEMMA Closes ==
    ASSUME PromptsAssumption, NEW j \in JobRec, Tried(j),
           NEW st \in {"pending", "succeeded", "failed", "parked"},
           st \in {"pending", "parked"} => j.tries < MaxAttempts
    PROVE  /\ Closed(j, st) \in JobRec /\ Tried(Closed(j, st))
           /\ Closed(j, st).st = st /\ Closed(j, st).tries = j.tries /\ Closed(j, st).rel = j.rel
BY Bounds DEF Closed, JobRec, Tried

\* Failing a turn that runs: back to pending while attempts are left.
LEMMA Failing ==
    ASSUME PromptsAssumption, NEW j \in JobRec, Tried(j), NEW forGood \in BOOLEAN
    PROVE  FailedAs(j, forGood) \in JobRec /\ Tried(FailedAs(j, forGood))
<1>1. j.tries \in Nat /\ MaxAttempts \in Nat
  BY Bounds DEF JobRec
<1> QED BY <1>1, Closes DEF FailedAs

\* Handing it back: an attempt is not counted.
LEMMA HandingBack ==
    ASSUME PromptsAssumption, NEW j \in JobRec, Tried(j), j.st = "running",
           NEW st \in {"pending", "succeeded", "failed", "parked"}
    PROVE  /\ LET k == [Closed(j, st) EXCEPT !.rel = @ + 1, !.tries = @ - 1]
              IN  k \in JobRec /\ Tried(k)
           /\ LET k == [Closed(j, st) EXCEPT !.tries = @ - 1] IN k \in JobRec /\ Tried(k)
<1>1. /\ j.tries \in Nat /\ j.tries - 1 \in Nat /\ j.tries - 1 < MaxAttempts /\ MaxAttempts \in Nat
      /\ j.rel + 1 \in Nat
  BY Bounds DEF JobRec, Tried
<1>2. /\ [Closed(j, st) EXCEPT !.rel = @ + 1, !.tries = @ - 1] \in JobRec
      /\ [Closed(j, st) EXCEPT !.tries = @ - 1] \in JobRec
  BY <1>1 DEF Closed, JobRec
<1>3. /\ Tried([Closed(j, st) EXCEPT !.rel = @ + 1, !.tries = @ - 1])
      /\ Tried([Closed(j, st) EXCEPT !.tries = @ - 1])
  BY <1>1 DEF Closed, JobRec, Tried
<1> QED BY <1>2, <1>3

\* Steps that only move a job, or write a message.
JobSteps(p) == Send(p) \/ EnqueueTurn(p) \/ RetryTurn(p) \/ Answer(p)

LEMMA JobStepsKeep ==
    ASSUME Inv, NEW p \in Prompts, JobSteps(p)
    PROVE  Inv'
<1>1. job[p] \in JobRec /\ Tried(job[p]) /\ PromptsAssumption
  BY DEF Inv, Types
<1>2. JobsMove
  <2>1. CASE Send(p)
    BY <2>1, JobKept DEF Send
  <2>2. CASE ~Send(p)
    <3>1. \E j \in JobRec : Tried(j) /\ job' = [job EXCEPT ![p] = j] /\ job[p].st # "succeeded"
      <4>1. CASE EnqueueTurn(p)
        BY <1>1, <4>1, Asked DEF EnqueueTurn
      <4>2. CASE RetryTurn(p)
        BY <1>1, <4>2, Asked DEF RetryTurn
      <4>3. CASE Answer(p)
        BY <1>1, <4>3, Asked DEF Answer
      <4> QED BY <2>2, <4>1, <4>2, <4>3 DEF JobSteps
    <3> QED BY <3>1, JobMoves
  <2> QED BY <2>1, <2>2
<1>3. /\ rows' = rows /\ pod' = pod /\ sent' \in SUBSET Prompts /\ absorbed' = absorbed
      /\ told' \in [Prompts -> BOOLEAN] /\ left' \in Left
  <2>1. /\ rows' = rows /\ pod' = pod /\ absorbed' = absorbed
        /\ sent' \in {sent, sent \cup {p}} /\ told' \in {told, [told EXCEPT ![p] = FALSE]}
        /\ left' = left \/ (left.retry > 0 /\ left' = [left EXCEPT !.retry = @ - 1])
    BY DEF JobSteps, Send, EnqueueTurn, RetryTurn, Answer, Spent
  <2>2. left' \in Left
    BY <2>1 DEF Inv, Types, Left
  <2> QED BY <2>1, <2>2 DEF Inv, Types
<1>4. Reaper \in Procs /\ PodMoves(Reaper, pod[Reaper])
  BY <1>3, PodKept, Kept DEF Procs, Inv
<1> QED BY <1>2, <1>3, <1>4, Steps, Kept DEF Inv, Types

\* Where a pod that fails or is rid of a turn is left.
Elsewhere(v) == {Idle} \cup {[v EXCEPT !.pc = pc] : pc \in {"sealing", "discarding", "recording"}}

LEMMA Elsewheres ==
    ASSUME Inv, NEW w \in Procs, pod[w].pc # "idle", NEW r \in Elsewhere(pod[w])
    PROVE  r \in PodRec /\ Placed(r, rows) /\ r.pc \in Waiting
<1>1. pod[w] \in PodRec /\ Placed(pod[w], rows) /\ Len(rows) \in Nat
  BY Numbered DEF Inv, Types
<1>2. CASE r = Idle
  BY <1>1, <1>2 DEF Idle, PodRec, Placed, Waiting, Replying
<1>3. ASSUME NEW pc \in {"sealing", "discarding", "recording"}, r = [pod[w] EXCEPT !.pc = pc]
      PROVE  r \in PodRec /\ Placed(r, rows) /\ r.pc \in Waiting
  BY <1>1, <1>3 DEF PodRec, Placed, Waiting, Replying
<1> QED BY <1>2, <1>3 DEF Elsewhere

\* Such a step fails the job the pod holds, or leaves it, and goes elsewhere.
LEMMA FailsHeld ==
    ASSUME Inv, NEW w \in Procs, pod[w].pc # "idle", NEW r \in Elsewhere(pod[w]), Go(w, r),
           NEW j \in JobRec, Holds(w) => Tried(j),
           job' = IF Holds(w) THEN [job EXCEPT ![pod[w].p] = j] ELSE job,
           left' \in Left, told' \in [Prompts -> BOOLEAN], UNCHANGED <<sent, absorbed, rows>>
    PROVE  Inv'
<1>1. pod[w].p \in Prompts /\ (Holds(w) => job[pod[w].p].st # "succeeded")
  BY DEF Inv, Placed, Holds
<1>2. JobsMove
  BY <1>1, JobKept, JobMoves
<1>3. PodMoves(w, r)
  BY Elsewheres DEF PodMoves, Go
<1> QED BY <1>2, <1>3, Steps, Kept DEF Inv, Types

JobAndPodSteps(w) == Nothing(w) \/ CannotPrepare(w) \/ RecordFailure(w) \/ HandBack(w)

LEMMA JobAndPodStepsKeep ==
    ASSUME Inv, NEW w \in Procs, JobAndPodSteps(w)
    PROVE  Inv'
<1> DEFINE j == job[pod[w].p]
<1>0. pod[w].pc # "idle" /\ pod[w].p \in Prompts /\ j \in JobRec /\ Tried(j) /\ pod[w] \in PodRec
  BY DEF JobAndPodSteps, Nothing, CannotPrepare, RecordFailure, HandBack, At, Inv, Types, Placed
<1>1. CASE Nothing(w)
  <2>1. Closed(j, "succeeded") \in JobRec /\ Tried(Closed(j, "succeeded"))
    BY <1>0 DEF Closed, JobRec, Tried, Over
  <2> QED BY <1>0, <1>1, <2>1, FailsHeld DEF Nothing, Elsewhere, Inv, Types
<1>2. CASE CannotPrepare(w)
  BY <1>0, <1>2, Failing, FailsHeld DEF CannotPrepare, Elsewhere, To, Inv, Types
<1>3. CASE RecordFailure(w)
  <2>1. told' \in [Prompts -> BOOLEAN] /\ pod[w].good \in BOOLEAN
    BY <1>0, <1>3 DEF RecordFailure, Inv, Types, PodRec
  <2> QED BY <1>0, <1>3, <2>1, Failing, FailsHeld DEF RecordFailure, Elsewhere, Inv, Types
<1>4. CASE HandBack(w)
  <2> DEFINE k == [Closed(j, IF j.rel + 1 >= MaxReleases THEN "failed" ELSE "pending")
                      EXCEPT !.rel = @ + 1, !.tries = @ - 1]
  <2>1. left' \in Left
    BY <1>4 DEF HandBack, Spent, Inv, Types, Left
  <2>2. Holds(w) => k \in JobRec /\ Tried(k)
    BY <1>0, HandingBack DEF Holds, Inv
  <2>3. job' = IF Holds(w) THEN [job EXCEPT ![pod[w].p] = k] ELSE job
    <3>1. pod[w].p \in DOMAIN job
      BY <1>0 DEF Inv, Types
    <3> QED BY <1>4, <3>1 DEF HandBack
  <2>4. CASE Holds(w)
    BY <1>0, <1>4, <2>1, <2>2, <2>3, <2>4, FailsHeld DEF HandBack, Elsewhere, Inv, Types
  <2>5. CASE ~Holds(w)
    BY <1>0, <1>4, <2>1, <2>3, <2>5, FailsHeld DEF HandBack, Elsewhere, Inv, Types
  <2> QED BY <2>4, <2>5
<1> QED BY <1>1, <1>2, <1>3, <1>4 DEF JobAndPodSteps

\* A pod that takes a turn, and the sweep that gives up on one, know no reply yet.
LEMMA Starts ==
    ASSUME Inv, NEW p \in Prompts, NEW pc \in {"taken", "sealing"}
    PROVE  LET r == [Idle EXCEPT !.pc = pc, !.p = p] IN
           r \in PodRec /\ Placed(r, rows) /\ r.pc = pc /\ r.p = p
<1> DEFINE r == [Idle EXCEPT !.pc = pc, !.p = p]
<1>1. /\ r.pc = pc /\ r.p = p
      /\ r.a = 0 /\ r.id = 0 /\ r.mine = 0
  BY DEF Idle
<1>2. pc \in Waiting \cup Working /\ pc \notin Replying /\ pc # "idle"
  BY DEF Waiting, Working, Replying
<1>3. Idle \in PodRec
  BY DEF Idle, PodRec, Waiting
<1>4. r \in PodRec
  BY <1>2, <1>3 DEF PodRec
<1> HIDE DEF r
<1>5. Placed(r, rows)
  BY <1>1, <1>2, Numbered DEF Placed, Inv
<1> QED BY <1>1, <1>4, <1>5 DEF r

LEMMA TakeKeeps ==
    ASSUME Inv, NEW w \in Pods, NEW p \in Prompts, Take(w, p)
    PROVE  Inv'
<1> DEFINE r == [Idle EXCEPT !.pc = "taken", !.p = p]
           j == [job[p] EXCEPT !.st = "running", !.holder = w, !.tries = @ + 1]
<1>1. job[p] \in JobRec /\ Tried(job[p]) /\ PromptsAssumption /\ job[p].st = "pending"
  BY DEF Take, Inv, Types
<1>2. j \in JobRec /\ Tried(j)
  BY <1>1, Asked
<1>3. job' = [job EXCEPT ![p] = j]
  BY DEF Take
<1>4. JobsMove
  <2> HIDE DEF j
  <2> QED BY <1>1, <1>2, <1>3, JobMoves
<1>5. r \in PodRec /\ Placed(r, rows) /\ w \in Procs /\ w # Reaper
  BY <1>1, Bounds, Starts DEF Procs
<1>6. PodMoves(w, r)
  BY <1>5 DEF PodMoves, Take, Go
<1> QED BY <1>4, <1>5, <1>6, Steps, Kept DEF Take, Inv, Types

LEMMA ReapKeeps ==
    ASSUME Inv, NEW p \in Prompts, Reap(p)
    PROVE  Inv'
<1> DEFINE r == [Idle EXCEPT !.pc = "sealing", !.p = p]
<1>1. job[p] \in JobRec /\ Tried(job[p]) /\ PromptsAssumption /\ job[p].st = "running"
  BY DEF Reap, Lapsed, Inv, Types
<1>2. JobsMove
  <2>1. job' = [job EXCEPT ![p] = FailedAs(job[p], FALSE)]
    BY DEF Reap
  <2> QED BY <1>1, <2>1, Failing, JobMoves
<1>3. Reaper \in Procs /\ r \in PodRec /\ Placed(r, rows) /\ r.pc \in Waiting
  BY Starts DEF Waiting, Procs
<1>4. \E q : PodMoves(Reaper, q)
  <2>1. CASE pod' = pod
    BY <1>3, <2>1, PodKept, Kept DEF Reap, Inv
  <2>2. CASE Go(Reaper, r)
    BY <1>3, <2>2 DEF PodMoves, Go, Reap
  <2> QED BY <2>1, <2>2 DEF Reap
<1>5. left' \in Left
  <2>1. left' = left \/ (left.stall > 0 /\ left' = [left EXCEPT !.stall = @ - 1])
    BY DEF Reap, Lapsed, Spent
  <2>2. left \in Left
    BY DEF Inv, Types
  <2> QED BY <2>1, <2>2 DEF Left
<1> QED BY <1>2, <1>3, <1>4, <1>5, Steps, Kept DEF Reap, Inv, Types

\* Sealing writes down what was streamed of a reply, and nothing else.
LEMMA Seals ==
    ASSUME Types, NEW i \in Ids, rows' = Sealed(rows, i)
    PROVE  /\ RowsGrow /\ NoneAnswers /\ Len(rows') = Len(rows) /\ Ids' = Ids
           /\ \A k \in Ids \ {i} : rows'[k] = rows[k]
           /\ rows[i].st = "open" /\ rows[i].shown => rows'[i] = [rows[i] EXCEPT !.st = "sealed"]
           /\ ~(rows[i].st = "open" /\ rows[i].shown) => rows' = rows
<1>1. CASE rows[i].st = "open" /\ rows[i].shown
  <2> DEFINE r == [rows[i] EXCEPT !.st = "sealed"]
  <2>1. rows[i] \in RowRec
    BY Numbered
  <2>2. r \in RowRec /\ r.p = rows[i].p /\ r.a = rows[i].a /\ r.how = rows[i].how
    BY <2>1 DEF RowRec, RowStates
  <2>3. rows' = [rows EXCEPT ![i] = r]
    BY <1>1 DEF Sealed
  <2> HIDE DEF r
  <2>4. /\ RowsGrow /\ Len(rows') = Len(rows) /\ Ids' = Ids /\ rows'[i] = r
        /\ \A k \in Ids \ {i} : rows'[k] = rows[k]
    BY <2>2, <2>3, Written
  <2>5. NoneAnswers
    BY <2>2, <2>4 DEF NoneAnswers
  <2> QED BY <1>1, <2>4, <2>5 DEF r
<1>2. CASE ~(rows[i].st = "open" /\ rows[i].shown)
  BY <1>2, Kept DEF Sealed, Ids
<1> QED BY <1>1, <1>2

\* A claimed reply is of its turn and attempt; one that is not there yet is added, open and
\* unseen.
Fresh(p, a) == [p |-> p, a |-> a, st |-> "open", shown |-> FALSE, how |-> "none"]

LEMMA Claims ==
    ASSUME Types, NEW w \in Procs, NEW p \in Prompts, NEW a \in Nat, a <= Len(rows) + 1,
           NEW pc, NEW pcOld, ClaimPlaceholder(w, p, a, pc, pcOld)
    PROVE  /\ RowsGrow /\ NoneAnswers
           /\ \/ /\ AttemptAt(p, a) = {} /\ Len(rows') = Len(rows) + 1
                 /\ \A i \in Ids : rows'[i] = rows[i]
                 /\ rows'[Len(rows) + 1] = Fresh(p, a)
                 /\ Go(w, [pod[w] EXCEPT !.pc = pc, !.id = Len(rows) + 1])
              \/ /\ AttemptAt(p, a) # {} /\ rows' = rows
                 /\ Go(w, [pod[w] EXCEPT !.pc = pcOld, !.id = TheRow(p, a)])
<1>1. CASE AttemptAt(p, a) = {}
  <2>1. Fresh(p, a) \in RowRec /\ Fresh(p, a).a = a /\ Fresh(p, a).how = "none"
    BY DEF Fresh, RowRec, RowStates
  <2>2. rows' = Append(rows, Fresh(p, a)) /\ Go(w, [pod[w] EXCEPT !.pc = pc, !.id = Len(rows) + 1])
    BY <1>1 DEF ClaimPlaceholder, Fresh
  <2>3. /\ RowsGrow /\ Len(rows') = Len(rows) + 1 /\ \A i \in Ids : rows'[i] = rows[i]
        /\ rows'[Len(rows) + 1] = Fresh(p, a)
    BY <2>1, <2>2, Added
  <2>4. NoneAnswers
    BY <2>1, <2>3, Numbered DEF NoneAnswers, Ids
  <2> QED BY <1>1, <2>2, <2>3, <2>4
<1>2. CASE AttemptAt(p, a) # {}
  BY <1>2, Kept DEF ClaimPlaceholder
<1> QED BY <1>1, <1>2

\* The pod that moves keeps what it knows, but for what the step sets.
LEMMA PodSets ==
    ASSUME Inv, NEW w \in Procs, NEW pc \in Waiting \cup Working, NEW a \in Nat, NEW id \in Nat,
           pod[w].pc # "idle",
           w = Reaper => pc \in Waiting,
           RowsGrow, a <= Len(rows) + 1, id <= Len(rows'),
           pc \in Replying => id > 0 /\ rows'[id].p = pod[w].p,
           Go(w, [pod[w] EXCEPT !.pc = pc, !.a = a, !.id = id])
    PROVE  \E r : PodMoves(w, r)
<1> DEFINE r == [pod[w] EXCEPT !.pc = pc, !.a = a, !.id = id]
<1>1. pod[w] \in PodRec /\ Placed(pod[w], rows) /\ Len(rows) \in Nat /\ Len(rows') \in Nat
      /\ Len(rows) <= Len(rows')
  BY Numbered DEF Inv, Types, RowsGrow
<1>2. r \in PodRec /\ r.pc = pc /\ r.a = a /\ r.id = id /\ r.p = pod[w].p /\ r.mine = pod[w].mine
  BY <1>1 DEF PodRec
<1>3. r.p \in Prompts /\ r.mine \in Nat /\ r.mine <= Len(rows)
  BY <1>1, <1>2 DEF Placed, PodRec
<1> HIDE DEF r
<1>4. Placed(r, rows')
  BY <1>1, <1>2, <1>3 DEF Placed
<1>5. PodMoves(w, r)
  BY <1>2, <1>4 DEF PodMoves, Go, r
<1> QED BY <1>5

LEMMA WritesKeep ==
    ASSUME Inv, NEW w \in Procs, pod[w].pc # "idle", RowsGrow, NoneAnswers, \E r : PodMoves(w, r),
           absorbed' \in [Prompts -> 0..Len(rows')], told' \in [Prompts -> BOOLEAN],
           UNCHANGED <<sent, job, left>>
    PROVE  Inv'
BY Steps, JobKept DEF Inv, Types

LEMMA AbsorbedKept ==
    ASSUME Types, RowsGrow, absorbed' = absorbed
    PROVE  absorbed' \in [Prompts -> 0..Len(rows')]
BY Numbered DEF Types, RowsGrow

LEMMA AttemptForKeeps ==
    ASSUME Inv, NEW w \in Pods, AttemptFor(w)
    PROVE  Inv'
<1> DEFINE p == pod[w].p
           a == CurrentAttempt(p)
<1>1. w \in Procs /\ w # Reaper /\ pod[w] \in PodRec /\ pod[w].pc = "deciding"
      /\ p \in Prompts /\ Placed(pod[w], rows) /\ Types /\ Len(rows) \in Nat
  BY Bounds, Numbered DEF AttemptFor, At, Inv, Types, Procs, Placed
<1>2. pod[w].id \in Nat /\ pod[w].id <= Len(rows) /\ pod[w] = [pod[w] EXCEPT !.id = pod[w].id]
  BY <1>1 DEF PodRec, Placed
<1>3. RowsGrow /\ NoneAnswers /\ \E r : PodMoves(w, r)
  <2>1. CASE RepliesTo(p) = {}
    <3>1. rows' = rows /\ Go(w, [pod[w] EXCEPT !.pc = "claiming", !.a = 1])
      BY <2>1 DEF AttemptFor
    <3>2. Go(w, [pod[w] EXCEPT !.pc = "claiming", !.a = 1, !.id = pod[w].id])
      BY <1>1, <3>1 DEF Go, PodRec
    <3>3. RowsGrow /\ NoneAnswers
      BY <1>1, <3>1, Kept
    <3>4. 1 <= Len(rows) + 1 /\ pod[w].id <= Len(rows')
      BY <1>1, <1>2, <3>1
    <3>5. "claiming" \in Waiting \cup Working /\ "claiming" \notin Replying
      BY DEF Working, Replying
    <3>6. \E r : PodMoves(w, r)
      BY <1>1, <1>2, <3>2, <3>3, <3>4, <3>5, PodSets
    <3> QED BY <3>3, <3>6
  <2>2. CASE RepliesTo(p) # {}
    <3> DEFINE i == TheRow(p, a)
               sealed == Sealed(rows, i)
               n == NextAttempt(sealed, p, a, job[p].answered)
    <3>1. /\ rows' = sealed
          /\ Go(w, [pod[w] EXCEPT !.pc = "claiming", !.a = n])
      BY <2>2 DEF AttemptFor
    <3>2. a \in Nat /\ a <= Len(rows) /\ i \in Ids
      BY <1>1, <2>2, Latest, ItsRow
    <3>3. n \in {a, a + 1}
      BY DEF NextAttempt
    <3>4. n \in Nat /\ n <= Len(rows) + 1
      BY <1>1, <3>2, <3>3
    <3>5. RowsGrow /\ NoneAnswers /\ Len(rows') = Len(rows)
      <4> HIDE DEF i
      <4> QED BY <1>1, <3>1, <3>2, Seals
    <3> HIDE DEF n
    <3>6. Go(w, [pod[w] EXCEPT !.pc = "claiming", !.a = n, !.id = pod[w].id])
      BY <1>1, <3>1 DEF Go, PodRec
    <3> QED BY <1>1, <1>2, <3>4, <3>5, <3>6, PodSets DEF Working, Replying
  <2> QED BY <2>1, <2>2
<1> QED BY <1>1, <1>3, WritesKeep, AbsorbedKept DEF AttemptFor, Inv, Types

LEMMA ClaimsKeep ==
    ASSUME Inv, NEW w \in Pods, ClaimForTurn(w) \/ ClaimForReport(w)
    PROVE  Inv'
<1> DEFINE v == pod[w]
<1>1. w \in Procs /\ w # Reaper /\ v \in PodRec /\ v.pc \in {"claiming", "reporting"}
      /\ v.p \in Prompts /\ Placed(v, rows) /\ Types /\ Len(rows) \in Nat
  BY Bounds, Numbered DEF ClaimForTurn, ClaimForReport, At, Inv, Types, Procs, Placed
<1>2. v.a \in Nat /\ v.a <= Len(rows) + 1
  BY <1>1 DEF PodRec, Placed
<1>3. \E a \in Nat, pc \in {"ready", "streaming"}, pcOld \in {"returning", "streaming"} :
         a <= Len(rows) + 1 /\ ClaimPlaceholder(w, v.p, a, pc, pcOld)
  <2>1. CASE ClaimForTurn(w)
    BY <1>2, <2>1 DEF ClaimForTurn
  <2>2. CASE ClaimForReport(w)
    <3>1. CurrentAttempt(v.p) \in Nat /\ CurrentAttempt(v.p) <= Len(rows) + 1
      BY <1>1, Latest
    <3> QED BY <2>2, <3>1 DEF ClaimForReport
  <2> QED BY <2>1, <2>2
<1>4. PICK a \in Nat, pc \in {"ready", "streaming"}, pcOld \in {"returning", "streaming"} :
         a <= Len(rows) + 1 /\ ClaimPlaceholder(w, v.p, a, pc, pcOld)
  BY <1>3
<1>5. RowsGrow /\ NoneAnswers
  BY <1>1, <1>4, Claims
<1>6. \E id \in Nat, k \in {pc, pcOld} :
         /\ 0 < id /\ id <= Len(rows') /\ rows'[id].p = v.p
         /\ Go(w, [v EXCEPT !.pc = k, !.id = id])
  <2>1. CASE AttemptAt(v.p, a) = {}
    <3>1. /\ Len(rows') = Len(rows) + 1 /\ rows'[Len(rows) + 1] = Fresh(v.p, a)
          /\ Go(w, [v EXCEPT !.pc = pc, !.id = Len(rows) + 1])
      BY <1>1, <1>4, <2>1, Claims
    <3>2. Len(rows) + 1 \in Nat /\ 0 < Len(rows) + 1 /\ Fresh(v.p, a).p = v.p
      BY <1>1 DEF Fresh
    <3> HIDE DEF v
    <3> WITNESS Len(rows) + 1 \in Nat, pc \in {pc, pcOld}
    <3> QED BY <3>1, <3>2
  <2>2. CASE AttemptAt(v.p, a) # {}
    <3>1. rows' = rows /\ Go(w, [v EXCEPT !.pc = pcOld, !.id = TheRow(v.p, a)])
      BY <1>1, <1>4, <2>2, Claims
    <3>2. TheRow(v.p, a) \in Ids /\ rows[TheRow(v.p, a)].p = v.p
      BY <1>1, <2>2, ItsRow
    <3>3. TheRow(v.p, a) \in Nat /\ 0 < TheRow(v.p, a) /\ TheRow(v.p, a) <= Len(rows)
      BY <1>1, <3>2, Numbered DEF Ids
    <3> TheRow(v.p, a) \in Nat
      BY <3>3
    <3> HIDE DEF v
    <3> WITNESS TheRow(v.p, a) \in Nat, pcOld \in {pc, pcOld}
    <3> QED BY <3>1, <3>2, <3>3
  <2> QED BY <2>1, <2>2
<1>7. PICK id \in Nat, k \in {pc, pcOld} :
         /\ 0 < id /\ id <= Len(rows') /\ rows'[id].p = v.p
         /\ Go(w, [v EXCEPT !.pc = k, !.id = id])
  BY <1>6
<1>8. Go(w, [v EXCEPT !.pc = k, !.a = v.a, !.id = id])
  BY <1>1, <1>7 DEF Go, PodRec
<1>9. \E r : PodMoves(w, r)
  BY <1>1, <1>2, <1>5, <1>7, <1>8, PodSets DEF Working
<1> QED BY <1>1, <1>5, <1>9, WritesKeep, AbsorbedKept DEF ClaimForTurn, ClaimForReport, Inv, Types

LEMMA StreamKeeps ==
    ASSUME Inv, NEW w \in Pods, Stream(w)
    PROVE  Inv'
<1> DEFINE i == pod[w].id
           r == [rows[i] EXCEPT !.shown = TRUE]
<1>1. w \in Procs /\ pod[w].pc = "streaming" /\ Types /\ i \in Ids /\ rows[i] \in RowRec
  BY Numbered DEF Stream, At, Here, Inv, Procs
<1>2. r \in RowRec /\ r.p = rows[i].p /\ r.a = rows[i].a /\ r.how = rows[i].how
  BY <1>1 DEF RowRec
<1>3. rows' = [rows EXCEPT ![i] = r]
  BY DEF Stream
<1>4. RowsGrow /\ Ids' = Ids /\ rows'[i] = r /\ \A k \in Ids \ {i} : rows'[k] = rows[k]
  <2> HIDE DEF r, i
  <2> QED BY <1>1, <1>2, <1>3, Written
<1>5. NoneAnswers
  BY <1>2, <1>4 DEF NoneAnswers
<1>6. \E q : PodMoves(w, q)
  BY <1>1, <1>4, PodKept DEF Stream
<1> QED BY <1>1, <1>4, <1>5, <1>6, WritesKeep, AbsorbedKept DEF Stream, Inv, Types

LEMMA SealKeeps ==
    ASSUME Inv, NEW w \in Procs, Seal(w)
    PROVE  Inv'
<1> DEFINE p == pod[w].p
           a == CurrentAttempt(p)
<1>1. /\ pod[w] \in PodRec /\ pod[w].pc = "sealing" /\ p \in Prompts /\ Placed(pod[w], rows)
      /\ Types /\ Len(rows) \in Nat
  BY Numbered DEF Seal, At, Inv, Types, Placed
<1>2. pod[w].id \in Nat /\ pod[w].id <= Len(rows) /\ a \in Nat /\ a <= Len(rows) + 1
  BY <1>1, Latest DEF PodRec, Placed
<1>3. RowsGrow /\ NoneAnswers /\ Len(rows') = Len(rows)
  <2>1. CASE AttemptAt(p, a) = {}
    BY <1>1, <2>1, Kept DEF Seal
  <2>2. CASE AttemptAt(p, a) # {}
    <3>1. TheRow(p, a) \in Ids /\ rows' = Sealed(rows, TheRow(p, a))
      BY <1>1, <2>2, ItsRow DEF Seal
    <3> QED BY <1>1, <3>1, Seals
  <2> QED BY <2>1, <2>2
<1>4. Go(w, [pod[w] EXCEPT !.pc = "discarding", !.a = a, !.id = pod[w].id])
  BY <1>1 DEF Seal, Go, PodRec
<1>5. "discarding" \in Waiting /\ "discarding" \notin Replying
  BY DEF Waiting, Replying
<1>6. \E r : PodMoves(w, r)
  BY <1>1, <1>2, <1>3, <1>4, <1>5, PodSets
<1> QED BY <1>1, <1>3, <1>6, WritesKeep, AbsorbedKept DEF Seal, Inv, Types

\* Replies deleted stay where they were, and are no answers.
LEMMA Deletes ==
    ASSUME Types, NEW gone \in SUBSET Ids,
           rows' = [i \in Ids |-> IF i \in gone THEN [rows[i] EXCEPT !.st = "deleted"] ELSE rows[i]]
    PROVE  /\ RowsGrow /\ NoneAnswers /\ Len(rows') = Len(rows) /\ Ids' = Ids
           /\ \A i \in gone : rows'[i] = [rows[i] EXCEPT !.st = "deleted"]
           /\ \A i \in Ids \ gone : rows'[i] = rows[i]
<1>1. /\ \A i \in Ids : rows'[i] = IF i \in gone THEN [rows[i] EXCEPT !.st = "deleted"] ELSE rows[i]
      /\ DOMAIN rows' = Ids
  OBVIOUS
<1>2. \A i \in Ids : /\ rows'[i] \in RowRec /\ rows'[i].p = rows[i].p /\ rows'[i].a = rows[i].a
                     /\ rows'[i].how = rows[i].how
  BY <1>1, Numbered DEF RowRec, RowStates
<1>3. rows' \in [1..Len(rows) -> RowRec]
  BY <1>2 DEF Ids
<1>4. rows' \in Seq(RowRec) /\ Len(rows') = Len(rows)
  BY <1>3, Numbered
<1>5. Ids' = Ids
  BY <1>4 DEF Ids
<1>6. \A i \in Ids' : i \in Ids /\ rows'[i].a <= i
  BY <1>2, <1>5 DEF Types
<1>7. RowsGrow
  <2>1. Len(rows) <= Len(rows')
    <3>1. Len(rows) \in Nat
      BY Numbered
    <3>2. Len(rows) <= Len(rows)
      BY <3>1
    <3> QED BY <1>4, <3>2, Zenon
  <2> QED BY <1>2, <1>4, <1>6, <2>1 DEF RowsGrow
<1>8. NoneAnswers
  BY <1>2, <1>6 DEF NoneAnswers
<1> QED BY <1>1, <1>4, <1>5, <1>7, <1>8

LEMMA DiscardKeeps ==
    ASSUME Inv, NEW w \in Procs, Discard(w)
    PROVE  Inv'
<1> DEFINE p == pod[w].p
           gone == {i \in AttemptAt(p, pod[w].a) : ~SaidSomething(i)}
<1>1. pod[w].pc = "discarding" /\ p \in Prompts /\ Types /\ Len(rows) \in Nat
  BY Numbered DEF Discard, At, Inv, Placed
<1>2. gone \in SUBSET Ids
  BY DEF AttemptAt, RepliesTo
<1>3. RowsGrow /\ NoneAnswers /\ Len(rows') = Len(rows)
  <2>1. rows' = [i \in Ids |-> IF i \in gone THEN [rows[i] EXCEPT !.st = "deleted"] ELSE rows[i]]
    BY DEF Discard
  <2> HIDE DEF gone
  <2> QED BY <1>1, <1>2, <2>1, Deletes
<1>4. absorbed' \in [Prompts -> 0..Len(rows')] /\ told' \in [Prompts -> BOOLEAN]
  <2>1. told' = [told EXCEPT ![p] = TRUE]
        /\ absorbed' = [q \in Prompts |-> IF absorbed[q] \in gone THEN 0 ELSE absorbed[q]]
    BY DEF Discard, Told
  <2> HIDE DEF gone
  <2>2. 0 \in 0..Len(rows') /\ \A q \in Prompts : absorbed[q] \in 0..Len(rows')
    BY <1>1, <1>3 DEF Types
  <2> QED BY <1>1, <2>1, <2>2 DEF Types
<1>5. \E r : PodMoves(w, r)
  <2>1. [pod[w] EXCEPT !.pc = "recording"] \in Elsewhere(pod[w])
    BY DEF Elsewhere
  <2>2. LET r == [pod[w] EXCEPT !.pc = "recording"] IN
        r \in PodRec /\ Placed(r, rows) /\ r.pc \in Waiting
    BY <1>1, <2>1, Elsewheres
  <2>3. Go(w, [pod[w] EXCEPT !.pc = "recording"])
    BY DEF Discard, To
  <2>4. Placed([pod[w] EXCEPT !.pc = "recording"], rows')
    BY <1>3, <2>2 DEF Placed, Replying
  <2> QED BY <2>2, <2>3, <2>4 DEF PodMoves, Go
<1> QED BY <1>1, <1>3, <1>4, <1>5, WritesKeep DEF Discard

LEMMA TakesKeep ==
    ASSUME Inv, NEW w \in Pods, TakeBack(w) \/ TakePending(w)
    PROVE  Inv'
<1>1. w \in Procs /\ pod[w] \in PodRec /\ Placed(pod[w], rows) /\ pod[w].pc # "idle" /\ Types
      /\ Len(rows) \in Nat
  BY Numbered DEF TakeBack, TakePending, At, Inv, Types, Procs
<1>2. rows' = rows /\ RowsGrow /\ NoneAnswers
  BY <1>1, Kept DEF TakeBack, TakePending
<1>3. absorbed' \in [Prompts -> 0..Len(rows')]
  <2>1. CASE TakeBack(w)
    BY <1>1, <1>2, <2>1 DEF TakeBack, GivenBack, Types
  <2>2. CASE TakePending(w)
    BY <1>1, <1>2, <2>2 DEF TakePending, Types, PodRec, Placed
  <2> QED BY <2>1, <2>2
<1>4. \E r : PodMoves(w, r)
  <2>1. CASE TakeBack(w)
    <3>1. Go(w, [pod[w] EXCEPT !.pc = "ready"])
      BY <2>1 DEF TakeBack, To
    <3>2. LET r == [pod[w] EXCEPT !.pc = "ready"] IN r \in PodRec /\ Placed(r, rows')
      BY <1>1, <1>2, <2>1 DEF PodRec, Placed, Working, Replying
    <3>3. w # Reaper
      BY Bounds DEF Inv
    <3> QED BY <3>1, <3>2, <3>3 DEF PodMoves, Go
  <2>2. CASE TakePending(w)
    BY <1>1, <1>2, <2>2, PodKept DEF TakePending
  <2> QED BY <2>1, <2>2
<1> QED BY <1>1, <1>2, <1>3, <1>4, WritesKeep DEF TakeBack, TakePending, Inv, Types

-----------------------------------------------------------------------------
(* The answer                                                              *)

\* Closing the turn: the reply that is its answer, and the only one, for the turn was
\* running until now and so had none.
LEMMA CloseKeeps ==
    ASSUME Inv, NEW w \in Pods, Close(w)
    PROVE  Inv'
<1> DEFINE v == pod[w]
           how == IF v.parks THEN "parked" ELSE "succeeded"
           closed == Closed(job[v.p], how)
           j == IF how = "parked" THEN [closed EXCEPT !.tries = @ - 1] ELSE closed
           r == [rows[v.id] EXCEPT !.st = "closed", !.how = how]
<1>1. /\ w \in Procs /\ w # Reaper /\ v \in PodRec /\ v.pc = "closing" /\ v.p \in Prompts
      /\ Placed(v, rows) /\ Types /\ Len(rows) \in Nat /\ PromptsAssumption /\ job[v.p] \in JobRec
      /\ Tried(job[v.p])
  BY Bounds, Numbered DEF Close, At, Inv, Types, Procs, Placed
<1>2. Go(w, Idle) /\ Idle \in PodRec /\ UNCHANGED <<sent, absorbed, told, left>>
  BY DEF Close, Idle, PodRec, Waiting
<1>3. CASE ~(StillHeld(w) /\ Here(v.id))
  <2>1. rows' = rows /\ job' = job
    BY <1>3 DEF Close
  <2>2. Placed(Idle, rows')
    BY <1>1, <2>1 DEF Placed, Idle, Replying
  <2> QED BY <1>1, <1>2, <2>1, <2>2, OnlyPod DEF Inv, Types
<1>4. CASE StillHeld(w) /\ Here(v.id)
  <2>1. /\ rows' = [rows EXCEPT ![v.id] = r] /\ job' = [job EXCEPT ![v.p] = j]
    BY <1>4 DEF Close
  <2>2. /\ v.id \in Ids /\ rows[v.id] \in RowRec /\ rows[v.id].p = v.p
        /\ job[v.p].st = "running" /\ how \in {"parked", "succeeded"}
    BY <1>1, <1>4, Numbered DEF Here, Placed, Replying, StillHeld, Holds
  <2>3. r \in RowRec /\ r.p = v.p /\ r.a = rows[v.id].a /\ r.how = how
    BY <2>2 DEF RowRec, RowStates
  <2>4. j \in JobRec /\ Tried(j) /\ j.st = how
    <3>1. CASE how = "succeeded"
      BY <1>1, <3>1, Closes
    <3>2. CASE how = "parked"
      <4>1. j = [Closed(job[v.p], "parked") EXCEPT !.tries = @ - 1]
        BY <3>2
      <4>2. j \in JobRec /\ Tried(j)
        BY <1>1, <2>2, <4>1, HandingBack
      <4>3. j.st = "parked"
        BY <1>1, <4>1 DEF Closed, JobRec
      <4> QED BY <3>2, <4>2, <4>3
    <3> QED BY <2>2, <3>1, <3>2
  <2> HIDE DEF j, r, how
  <2>5. /\ RowsGrow /\ Len(rows') = Len(rows) /\ Ids' = Ids /\ rows'[v.id] = r
        /\ \A k \in Ids \ {v.id} : rows'[k] = rows[k]
    <3> HIDE DEF v
    <3> QED BY <1>1, <2>1, <2>2, <2>3, Written
  <2>6. JobsMove
    BY <1>1, <2>1, <2>2, <2>4, JobMoves
  <2>7. Placed(Idle, rows') /\ PodMoves(w, Idle)
    BY <1>1, <1>2, <2>5 DEF Placed, Idle, Replying, PodMoves, Go
  <2>8. Types'
    BY <1>2, <2>5, <2>6, <2>7, AbsorbedKept DEF Inv, Types, RowsGrow, JobsMove, PodMoves
  <2>9. \A u \in Procs : Placed(pod'[u], rows')
    <3>1. ASSUME NEW u \in Procs, u # w PROVE Placed(pod'[u], rows')
      <4>1. pod'[u] = pod[u] /\ pod[u] \in PodRec /\ Placed(pod[u], rows)
        BY <2>7, <3>1 DEF PodMoves, Inv, Types
      <4> QED BY <4>1, <2>5, Numbered DEF Placed, RowsGrow, PodRec, Inv, Ids
    <3> QED BY <1>1, <2>7, <3>1 DEF PodMoves, Inv, Types
  <2>10. \A i \in Ids : rows[i].how = "succeeded" => rows[i].p # v.p
    BY <2>2 DEF Inv, HowDone
  <2>11. job'[v.p].st = how /\ \A p \in Prompts : job[p].st = "succeeded" => job'[p].st = "succeeded"
    BY <1>1, <2>1, <2>4, <2>6 DEF JobsMove, Types
  <2>12. \A i \in Ids : /\ i # v.id => rows'[i] = rows[i] /\ rows[i].p \in Prompts
                        /\ i = v.id => rows'[i].p = v.p /\ rows'[i].how = how
    BY <2>3, <2>5, Numbered DEF Inv, RowRec
  <2>13. HowDone'
    <3> SUFFICES ASSUME NEW i \in Ids, rows'[i].how = "succeeded"
                 PROVE  job'[rows'[i].p].st = "succeeded"
      BY <2>5 DEF HowDone
    <3>1. CASE i = v.id
      BY <2>11, <2>12, <3>1
    <3>2. CASE i # v.id
      <4>1. rows'[i] = rows[i] /\ rows[i].p \in Prompts
        BY <2>12, <3>2
      <4>2. job[rows[i].p].st = "succeeded"
        BY <4>1 DEF HowDone, Inv
      <4> QED BY <2>11, <4>1, <4>2
    <3> QED BY <3>1, <3>2
  <2>14. OneAnswer'
    BY <2>5, <2>10, <2>12 DEF OneAnswer, Inv
  <2>15. pod'[Reaper].pc \in Waiting
    BY <1>1, <2>7 DEF PodMoves, Inv, Types, Procs
  <2> QED BY <1>1, <2>6, <2>8, <2>9, <2>13, <2>14, <2>15 DEF Inv, JobsMove
<1> QED BY <1>3, <1>4

LEMMA NextInv ==
    ASSUME Inv, [Next]_vars
    PROVE  Inv'
<1>1. CASE UNCHANGED vars
  BY <1>1 DEF vars, Inv, Types, HowDone, OneAnswer, Ids, Left
<1>2. ASSUME NEW p \in Prompts, Send(p) \/ EnqueueTurn(p) \/ RetryTurn(p) \/ Answer(p) \/ Reap(p)
      PROVE  Inv'
  BY <1>2, JobStepsKeep, ReapKeeps DEF JobSteps
<1>3. ASSUME NEW w \in Pods, Turn(w) \/ CannotPrepare(w) \/ TakePending(w) \/ Stream(w)
                              \/ HandBack(w) \/ Crash(w)
      PROVE  Inv'
  <2> w \in Procs
    BY DEF Procs
  <2>1. CASE \E p \in Prompts : Take(w, p)
    BY <2>1, TakeKeeps
  <2>2. CASE JobAndPodSteps(w)
    BY <2>2, JobAndPodStepsKeep
  <2>3. CASE PodSteps(w)
    BY <2>3, PodStepsKeep
  <2>4. CASE AttemptFor(w) \/ ClaimForTurn(w) \/ ClaimForReport(w) \/ TakeBack(w) \/ TakePending(w)
    BY <2>4, AttemptForKeeps, ClaimsKeep, TakesKeep
  <2>5. CASE Stream(w) \/ Seal(w) \/ Discard(w) \/ Close(w)
    BY <2>5, StreamKeeps, SealKeeps, DiscardKeeps, CloseKeeps
  <2> QED BY <1>3, <2>1, <2>2, <2>3, <2>4, <2>5 DEF Turn, Abandon, JobAndPodSteps, PodSteps
<1>4. CASE Abandon(Reaper)
  BY <1>4, SealKeeps, DiscardKeeps, JobAndPodStepsKeep DEF Abandon, JobAndPodSteps, Procs
<1> QED BY <1>1, <1>2, <1>3, <1>4 DEF Next

\* Whatever lapses, crashes, is handed back or asked for again, a message has one answer
\* (work.rs, close_turn): the closing is in the commit that makes the reply final.
THEOREM Answers ==
    ASSUME PromptsAssumption
    PROVE  Spec => [](TypeOK /\ OneAnswer)
<1>1. Init => Inv
  BY InitInv
<1>2. Inv /\ [Next]_vars => Inv'
  BY NextInv
<1>3. Inv => TypeOK /\ OneAnswer
  <2> SUFFICES ASSUME Inv
               PROVE  TypeOK /\ OneAnswer
    OBVIOUS
  <2>1. \A i \in Ids : rows[i].p \in Prompts /\ rows[i].st \in RowStates /\ rows[i].shown \in BOOLEAN
    BY Numbered DEF Inv, RowRec
  <2>2. \A w \in Procs : pod[w].p \in Prompts \cup {0} /\ pod[w].id \in 0..Len(rows)
    BY Numbered DEF Inv, Types, Placed, PodRec
  <2>3. ASSUME NEW p \in Prompts
        PROVE  /\ job[p].st \in {"none", "pending", "running"} \cup Over
               /\ job[p].holder \in Pods \cup {Nobody} /\ job[p].tries \in 0..MaxAttempts
    <3>1. job[p] \in JobRec /\ Tried(job[p]) /\ MaxAttempts \in Nat
      BY Bounds DEF Inv, Types
    <3> QED BY <3>1 DEF JobRec, Tried, Over
  <2> QED BY <2>1, <2>2, <2>3 DEF TypeOK, Inv, Types
<1> QED BY <1>1, <1>2, <1>3, PTL DEF Spec

-----------------------------------------------------------------------------
(* Failures are told, while no pod dies and no turn is handed back for good *)

GivingUp == {"sealing", "discarding"}
Telling(p) == told[p] \/ \E w \in Procs : pod[w].p = p /\ pod[w].pc \in GivingUp

\* A turn that failed is told, or whoever gave up on it is about to; the hand-backs
\* counted against a turn are of those there are.
ToldInv ==
    /\ left.crash = 0
    /\ \A p \in Prompts : job[p].rel + left.back <= Backs
    /\ \A p \in Prompts : job[p].st = "failed" => Telling(p)

\* What a step of w must do to keep it so: go on to tell, and give up on a turn only to
\* tell of it.
GoesOnTelling(w) ==
    /\ \A u \in Procs \ {w} : pod'[u] = pod[u]
    /\ pod[w].pc \in GivingUp =>
          told'[pod[w].p] \/ (pod'[w].p = pod[w].p /\ pod'[w].pc \in GivingUp)
    /\ \A p \in Prompts : job'[p].st = "failed" =>
          \/ told'[p] \/ (pod'[w].p = p /\ pod'[w].pc \in GivingUp)
          \/ job[p].st = "failed" /\ (told[p] => told'[p])

LEMMA ToldSteps ==
    ASSUME Inv, ToldInv, NEW w \in Procs, GoesOnTelling(w), left'.crash = 0,
           \A p \in Prompts : job'[p].rel + left'.back <= Backs
    PROVE  ToldInv'
<1> SUFFICES ASSUME NEW p \in Prompts, job'[p].st = "failed"
             PROVE  Telling(p)'
  BY DEF ToldInv
<1>1. CASE told'[p] \/ (pod'[w].p = p /\ pod'[w].pc \in GivingUp)
  BY <1>1 DEF Telling
<1>2. CASE job[p].st = "failed" /\ (told[p] => told'[p])
  <2>1. CASE told[p]
    BY <1>2, <2>1 DEF Telling
  <2>2. CASE \E u \in Procs : pod[u].p = p /\ pod[u].pc \in GivingUp
    <3>1. PICK u \in Procs : pod[u].p = p /\ pod[u].pc \in GivingUp
      BY <2>2
    <3>2. CASE u = w
      BY <3>1, <3>2 DEF Telling, GoesOnTelling
    <3>3. CASE u # w
      BY <3>1, <3>3 DEF Telling, GoesOnTelling
    <3> QED BY <3>2, <3>3
  <2> QED BY <1>2, <2>1, <2>2 DEF ToldInv, Telling
<1> QED BY <1>1, <1>2 DEF GoesOnTelling

\* Another's step leaves the jobs, what is told and what is left as they are.
LEMMA ToldKept ==
    ASSUME Inv, ToldInv, NEW w \in Procs, UNCHANGED <<job, told>>,
           left'.crash = 0, left'.back = left.back,
           pod[w].pc \notin GivingUp, pod' = pod \/ \E r : Go(w, r)
    PROVE  ToldInv'
<1>1. GoesOnTelling(w)
  BY DEF GoesOnTelling, Go, Inv, Types
<1>2. \A p \in Prompts : job'[p].rel + left'.back <= Backs
  BY DEF ToldInv
<1> QED BY <1>1, <1>2, ToldSteps

LEMMA ToldInit ==
    ASSUME PromptsAssumption, Crashes = 0, Init
    PROVE  ToldInv
BY DEF PromptsAssumption, Init, ToldInv, NoJob

LEMMA ToldNext ==
    ASSUME Inv, ToldInv, [Next]_vars, Backs < MaxReleases, Backs \in Nat
    PROVE  ToldInv'
<1>0. /\ left \in Left /\ left.crash = 0 /\ PromptsAssumption
      /\ \A p \in Prompts : job[p] \in JobRec /\ job[p].rel + left.back <= Backs
      /\ \A w \in Procs : pod[w] \in PodRec /\ (pod[w].pc # "idle" => pod[w].p \in Prompts)
  BY DEF Inv, Types, ToldInv, Placed
<1>1. CASE UNCHANGED vars
  BY <1>1 DEF vars, ToldInv, Telling
<1>2. ASSUME NEW p \in Prompts, JobSteps(p)
      PROVE  ToldInv'
  <2>1. \A u \in Procs : pod'[u] = pod[u]
    BY <1>2 DEF JobSteps, Send, EnqueueTurn, RetryTurn, Answer
  <2>2. \A q \in Prompts : /\ job'[q].rel = job[q].rel
                           /\ job'[q].st = "failed" => job[q].st = "failed" /\ told'[q] = told[q]
    <3>0. job[p] \in JobRec /\ job \in [Prompts -> JobRec]
      BY DEF Inv, Types
    <3>1. CASE Send(p)
      BY <3>1 DEF Send
    <3>2. CASE EnqueueTurn(p)
      BY <3>0, <3>2 DEF EnqueueTurn, JobRec
    <3>3. CASE RetryTurn(p)
      BY <3>0, <3>3 DEF RetryTurn, JobRec
    <3>4. CASE Answer(p)
      BY <3>0, <3>4 DEF Answer, JobRec
    <3> QED BY <1>2, <3>1, <3>2, <3>3, <3>4 DEF JobSteps
  <2>3. left'.crash = 0 /\ left'.back = left.back
    BY <1>0, <1>2 DEF JobSteps, Send, EnqueueTurn, RetryTurn, Answer, Spent, Left
  <2>4. Reaper \in Procs
    BY DEF Procs
  <2>5. GoesOnTelling(Reaper)
    BY <2>1, <2>2, <2>4 DEF GoesOnTelling
  <2>6. \A q \in Prompts : job'[q].rel + left'.back <= Backs
    BY <1>0, <2>2, <2>3
  <2> QED BY <2>3, <2>4, <2>5, <2>6, ToldSteps
<1>3. ASSUME NEW p \in Prompts, Reap(p)
      PROVE  ToldInv'
  <2>1. Reaper \in Procs /\ pod[Reaper].pc = "idle" /\ told' = told /\ job[p].st = "running"
        /\ job' = [job EXCEPT ![p] = FailedAs(job[p], FALSE)]
    BY <1>3 DEF Reap, Lapsed, At, Procs
  <2>2. left'.crash = 0 /\ left'.back = left.back
    BY <1>0, <1>3 DEF Reap, Lapsed, Spent, Left
  <2>3. \A q \in Prompts : job'[q].rel = job[q].rel /\ (q # p => job'[q] = job[q])
    BY <1>0, <2>1 DEF FailedAs, Closed, JobRec, Inv, Types
  <2>4. job[p].tries >= MaxAttempts =>
           pod' = [pod EXCEPT ![Reaper] = [Idle EXCEPT !.pc = "sealing", !.p = p]]
    BY <1>3 DEF Reap, Go
  <2>5. ~(job[p].tries >= MaxAttempts) => pod' = pod /\ job'[p].st = "pending"
    BY <1>0, <1>3, <2>1 DEF Reap, FailedAs, Closed, JobRec, Inv, Types
  <2>6. GoesOnTelling(Reaper)
    <3>1. \A u \in Procs \ {Reaper} : pod'[u] = pod[u]
      BY <2>4, <2>5 DEF Inv, Types
    <3>2. job[p].tries >= MaxAttempts => pod'[Reaper].p = p /\ pod'[Reaper].pc \in GivingUp
      BY <2>1, <2>4 DEF Idle, GivingUp, Inv, Types
    <3> QED BY <2>1, <2>3, <2>5, <3>1, <3>2 DEF GoesOnTelling, GivingUp
  <2>7. \A q \in Prompts : job'[q].rel + left'.back <= Backs
    BY <1>0, <2>2, <2>3
  <2> QED BY <2>1, <2>2, <2>6, <2>7, ToldSteps
<1>4. ASSUME NEW w \in Pods, NEW p \in Prompts, Take(w, p)
      PROVE  ToldInv'
  <2>1. w \in Procs /\ pod[w].pc = "idle" /\ told' = told /\ left' = left /\ \E r : Go(w, r)
    BY <1>4 DEF Take, At, Procs
  <2>2. \A q \in Prompts : job'[q].rel = job[q].rel /\ (job'[q].st = "failed" => job[q].st = "failed")
    BY <1>0, <1>4 DEF Take, JobRec, Inv, Types
  <2>3. GoesOnTelling(w)
    BY <2>1, <2>2 DEF GoesOnTelling, GivingUp, Go, Inv, Types
  <2> QED BY <1>0, <2>1, <2>2, <2>3, ToldSteps
<1>5. ASSUME NEW w \in Pods, PodSteps(w) \/ AttemptFor(w) \/ ClaimForTurn(w) \/ ClaimForReport(w)
                              \/ TakeBack(w) \/ TakePending(w) \/ Stream(w)
      PROVE  ToldInv'
  <2>1. w \in Procs /\ UNCHANGED <<job, told>> /\ (pod' = pod \/ \E r : Go(w, r))
    BY <1>5 DEF PodSteps, Begin, HandOut, Report, Done, Awaits, Breaks, CheckLease, CheckFailure,
                Crash, AttemptFor, ClaimForTurn, ClaimForReport, ClaimPlaceholder, TakeBack,
                TakePending, Stream, To, Procs
  <2>2. ~Crash(w)
    BY <1>0 DEF Crash, Spent, Left
  <2>3. pod[w].pc \notin GivingUp
    BY <1>5, <2>2 DEF PodSteps, Begin, HandOut, Report, Done, Awaits, Breaks, CheckLease, CheckFailure,
                AttemptFor, ClaimForTurn, ClaimForReport, TakeBack, TakePending, Stream, At, GivingUp
  <2>4. left' = left \/ left' = [left EXCEPT !["park"] = @ - 1]
    BY <1>5, <2>2 DEF PodSteps, Begin, HandOut, Report, Done, Awaits, Breaks, CheckLease, CheckFailure,
                AttemptFor, ClaimForTurn, ClaimForReport, TakeBack, TakePending, Stream, Spent
  <2>5. left'.crash = 0 /\ left'.back = left.back
    BY <1>0, <2>4 DEF Left
  <2> QED BY <2>1, <2>3, <2>5, ToldKept
<1>6. ASSUME NEW w \in Procs, Seal(w) \/ Discard(w)
      PROVE  ToldInv'
  <2>1. job' = job /\ left' = left /\ pod[w].p \in Prompts /\ pod[w] \in PodRec
    BY <1>0, <1>6 DEF Seal, Discard, At
  <2>2. \A u \in Procs \ {w} : pod'[u] = pod[u]
    BY <1>6 DEF Seal, Discard, To, Go, Inv, Types
  <2>3. \A q \in Prompts : told[q] => told'[q]
    BY <1>6 DEF Seal, Discard, Told, Inv, Types
  <2>4. pod[w].pc \in GivingUp =>
          told'[pod[w].p] \/ (pod'[w].p = pod[w].p /\ pod'[w].pc \in GivingUp)
    <3>1. CASE Seal(w)
      BY <2>1, <3>1 DEF Seal, Go, GivingUp, Inv, Types, PodRec
    <3>2. CASE Discard(w)
      BY <2>1, <3>2 DEF Discard, Told, Inv, Types
    <3> QED BY <1>6, <3>1, <3>2
  <2>5. GoesOnTelling(w)
    BY <2>1, <2>2, <2>3, <2>4 DEF GoesOnTelling
  <2> QED BY <1>0, <2>1, <2>5, ToldSteps
<1>7. ASSUME NEW w \in Procs, Nothing(w) \/ Close(w)
      PROVE  ToldInv'
  <2>1. w \in Procs /\ pod[w].pc \in {"taken", "closing"} /\ told' = told /\ left' = left /\ Go(w, Idle)
    BY <1>7 DEF Nothing, Close, At
  <2>2. \A q \in Prompts : job'[q].rel = job[q].rel /\ (job'[q].st = "failed" => job[q].st = "failed")
    <3> DEFINE p == pod[w].p
               how == IF pod[w].parks THEN "parked" ELSE "succeeded"
               closed == Closed(job[p], how)
    <3>0. job \in [Prompts -> JobRec] /\ p \in Prompts /\ job[p] \in JobRec
      BY <1>0, <2>1 DEF Inv, Types
    <3>1. CASE job' = job
      BY <3>1
    <3>2. CASE job' = [job EXCEPT ![p] = Closed(job[p], "succeeded")]
      BY <3>0, <3>2 DEF Closed, JobRec
    <3>3. CASE job' = [job EXCEPT ![p] = [Closed(job[p], "parked") EXCEPT !.tries = @ - 1]]
      BY <3>0, <3>3 DEF Closed, JobRec
    <3>4. Close(w) => job' = job \/ job' = [job EXCEPT ![p] =
                         IF how = "parked" THEN [closed EXCEPT !.tries = @ - 1] ELSE closed]
      BY DEF Close
    <3>5. CASE Close(w)
      <4>1. CASE pod[w].parks
        BY <3>1, <3>3, <3>4, <3>5, <4>1
      <4>2. CASE ~pod[w].parks
        BY <3>1, <3>2, <3>4, <3>5, <4>2
      <4> QED BY <4>1, <4>2
    <3>6. CASE Nothing(w)
      BY <3>1, <3>2, <3>6 DEF Nothing
    <3> QED BY <1>7, <3>5, <3>6
  <2>3. GoesOnTelling(w)
    BY <2>1, <2>2 DEF GoesOnTelling, GivingUp, Go, Inv, Types
  <2> QED BY <1>0, <2>1, <2>2, <2>3, ToldSteps
<1>8. ASSUME NEW w \in Procs, CannotPrepare(w)
      PROVE  ToldInv'
  <2> DEFINE p == pod[w].p
  <2>1. /\ told' = told /\ left' = left /\ pod[w].pc \notin GivingUp /\ p \in Prompts
        /\ \E r : Go(w, r) /\ (job[p].tries >= MaxAttempts => r = [pod[w] EXCEPT !.pc = "sealing"])
    BY <1>0, <1>8 DEF CannotPrepare, GivingUp, To
  <2>2. \A q \in Prompts :
           /\ job'[q].rel = job[q].rel /\ (q # p => job'[q] = job[q])
           /\ job'[q].st = "failed" => job[q].st = "failed" \/ job[p].tries >= MaxAttempts
    BY <1>0, <1>8 DEF CannotPrepare, FailedAs, Closed, JobRec, Inv, Types
  <2>3. job[p].tries >= MaxAttempts => pod'[w].p = p /\ pod'[w].pc \in GivingUp
    BY <1>0, <2>1 DEF Go, GivingUp, PodRec, Inv, Types
  <2>4. GoesOnTelling(w)
    BY <2>1, <2>2, <2>3 DEF GoesOnTelling, Go, Inv, Types
  <2> QED BY <1>0, <2>1, <2>2, <2>4, ToldSteps
<1>9. ASSUME NEW w \in Procs, RecordFailure(w)
      PROVE  ToldInv'
  <2> DEFINE p == pod[w].p
  <2>1. left' = left /\ pod[w].pc \notin GivingUp /\ p \in Prompts /\ Go(w, Idle)
    BY <1>0, <1>9 DEF RecordFailure, At, GivingUp
  <2>2. \A q \in Prompts : /\ job'[q].rel = job[q].rel /\ (told[q] => told'[q])
                           /\ (job'[q].st = "failed" => job[q].st = "failed" \/ told'[q])
    <3>1. CASE Holds(w)
      BY <1>0, <1>9, <3>1 DEF RecordFailure, FailedAs, Closed, JobRec, Inv, Types
    <3>2. CASE ~Holds(w)
      BY <1>9, <3>2 DEF RecordFailure
    <3> QED BY <3>1, <3>2
  <2>3. GoesOnTelling(w)
    BY <2>1, <2>2 DEF GoesOnTelling, Go, Inv, Types
  <2> QED BY <1>0, <2>1, <2>2, <2>3, ToldSteps
<1>10. ASSUME NEW w \in Procs, HandBack(w)
      PROVE  ToldInv'
  <2> DEFINE p == pod[w].p
             st == IF job[p].rel + 1 >= MaxReleases THEN "failed" ELSE "pending"
  <2>1. /\ told' = told /\ pod[w].pc \notin GivingUp /\ p \in Prompts /\ Go(w, Idle)
        /\ left.back > 0 /\ left' = [left EXCEPT !["back"] = @ - 1]
    BY <1>0, <1>10 DEF HandBack, GivingUp, Spent
  <2>2. left'.crash = 0 /\ left'.back = left.back - 1 /\ left.back \in Nat
    BY <1>0, <2>1 DEF Left
  <2>3. job[p].rel \in Nat /\ MaxReleases \in Nat
    BY <1>0, <2>1, Bounds DEF JobRec
  <2>4. job[p].rel + 1 < MaxReleases
    BY <1>0, <2>1, <2>2, <2>3
  <2>5. job' \in {job, [job EXCEPT ![p] =
                           [Closed(job[p], "pending") EXCEPT !.rel = @ + 1, !.tries = @ - 1]]}
    <3>1. st = "pending"
      BY <2>3, <2>4
    <3>2. job' = IF Holds(w)
                   THEN [job EXCEPT ![p] = [Closed(job[p], st) EXCEPT !.rel = @ + 1, !.tries = @ - 1]]
                             ELSE job
      BY <1>10 DEF HandBack
    <3> HIDE DEF st
    <3> QED BY <3>1, <3>2
  <2>6. \A q \in Prompts : /\ job'[q].rel \in {job[q].rel, job[q].rel + 1}
                           /\ (job'[q].st = "failed" => job[q].st = "failed")
    <3> DEFINE j == [Closed(job[p], "pending") EXCEPT !.rel = @ + 1, !.tries = @ - 1]
    <3>1. j.rel = job[p].rel + 1 /\ j.st = "pending"
      BY <1>0, <2>1 DEF Closed, JobRec
    <3>2. job \in [Prompts -> JobRec]
      BY DEF Inv, Types
    <3>3. job' \in {job, [job EXCEPT ![p] = j]}
      BY <2>5
    <3> HIDE DEF j
    <3>4. \A q \in Prompts : job'[q] = job[q] \/ (q = p /\ job'[q] = j)
      BY <3>2, <3>3
    <3> QED BY <3>1, <3>4
  <2>7. \A q \in Prompts : job'[q].rel + left'.back <= Backs
    <3> SUFFICES ASSUME NEW q \in Prompts
                 PROVE  job'[q].rel + left'.back <= Backs
      OBVIOUS
    <3>1. /\ job[q].rel \in Nat /\ job[q].rel + left.back <= Backs
          /\ job'[q].rel \in {job[q].rel, job[q].rel + 1}
      BY <1>0, <2>6 DEF JobRec
    <3> QED BY <2>2, <3>1
  <2>8. GoesOnTelling(w)
    BY <2>1, <2>6 DEF GoesOnTelling, Go, Inv, Types
  <2> QED BY <2>2, <2>7, <2>8, ToldSteps
<1>11. ASSUME NEW w \in Pods, Turn(w) \/ CannotPrepare(w) \/ TakePending(w) \/ Stream(w)
                               \/ HandBack(w) \/ Crash(w)
       PROVE  ToldInv'
  <2>1. w \in Procs
    BY DEF Procs
  <2> QED BY <1>4, <1>5, <1>6, <1>7, <1>8, <1>9, <1>10, <1>11, <2>1 DEF Turn, Abandon, PodSteps
<1>12. CASE Abandon(Reaper)
  BY <1>6, <1>9, <1>12 DEF Abandon, Procs
<1> QED BY <1>1, <1>2, <1>3, <1>11, <1>12 DEF Next, JobSteps

\* While no pod dies and no turn can be handed back for good, a turn that came to nothing is
\* told to whoever reads it once whoever gave up on it is done (abandon_payload, fail).
THEOREM FailuresTold ==
    ASSUME PromptsAssumption, Crashes = 0, Backs < MaxReleases
    PROVE  Spec => []FailedTold
<1>1. Backs \in Nat
  BY DEF PromptsAssumption
<1>2. Init => Inv /\ ToldInv
  BY InitInv, ToldInit
<1>3. Inv /\ ToldInv /\ [Next]_vars => Inv' /\ ToldInv'
  BY <1>1, NextInv, ToldNext
<1>4. Inv /\ ToldInv => FailedTold
  BY DEF ToldInv, Telling, FailedTold
<1> QED BY <1>2, <1>3, <1>4, PTL DEF Spec

-----------------------------------------------------------------------------
(* While no lease lapses under a pod that goes on                          *)

\* A turn has one reply to an attempt, and one still open is the latest.
Attempts == \A i, k \in Ids :
    Here(i) /\ Here(k) /\ rows[i].p = rows[k].p =>
        (rows[i].a = rows[k].a => i = k) /\ (rows[i].st = "open" => rows[k].a <= rows[i].a)

\* A pod at work has the lease, and nobody took its message once it set about it. The
\* attempt it settles on is the latest and the only one that may be open; so is the reply
\* it streams.
AtWork(w) ==
    LET v == pod[w] IN
    v.pc \in Working =>
        /\ Holds(w)
        /\ v.pc # "taken" => absorbed[v.p] = 0
        /\ v.pc = "claiming" => \A i \in Ids : Here(i) /\ rows[i].p = v.p =>
              rows[i].a <= v.a /\ (rows[i].st = "open" => rows[i].a = v.a)
        /\ v.pc \in {"returning", "ready"} => v.id > 0 /\ rows[v.id].p = v.p
        /\ v.pc \in {"out", "reporting", "streaming"} => v.mine > 0 /\ rows[v.mine].p = v.p
        /\ v.pc \in Replying => \A i \in Ids :
              rows[i].st = "open" /\ rows[i].p = v.p => i = v.id

OneRunning == \A p, q \in Prompts : job[p].st = "running" /\ job[q].st = "running" => p = q

\* A message another turn took has no reply of its own.
TakenBare == \A p \in Prompts : absorbed[p] # 0 => RepliesTo(p) = {}

Calm ==
    /\ left.stall = 0
    /\ \A w \in Pods : AtWork(w)
    /\ OneRunning /\ Attempts /\ TakenBare /\ NothingOpen

\* No reply comes back, or open again.
Fewer ==
    /\ RowsGrow /\ Ids' = Ids
    /\ \A i \in Ids : /\ rows'[i].st # "deleted" => rows[i].st # "deleted"
                      /\ rows'[i].st = "open" => rows[i].st = "open"

\* One pod at a time is at work.
LEMMA OneAtWork ==
    ASSUME Inv, Calm, NEW w \in Pods, NEW u \in Pods,
           pod[w].pc \in Working, pod[u].pc \in Working
    PROVE  u = w
<1>1. Holds(w) /\ Holds(u) /\ pod[w].p \in Prompts /\ pod[u].p \in Prompts
  BY DEF Calm, AtWork, Inv, Placed, Working, Procs
<1> QED BY <1>1 DEF Calm, OneRunning, Holds

LEMMA FewerReplies ==
    ASSUME Types, Fewer
    PROVE  \A p \in Prompts : \A i \in RepliesTo(p)' :
              /\ i \in RepliesTo(p) /\ rows'[i].a = rows[i].a
              /\ rows'[i].st = "open" => rows[i].st = "open"
BY DEF Fewer, RowsGrow, RepliesTo, Here

\* A pod at work is as it was while its turn and its message are, and no reply is added.
LEMMA StillAtWork ==
    ASSUME Inv, Calm, NEW u \in Pods, pod'[u] = pod[u], Fewer,
           pod[u].pc \in Working => /\ job'[pod[u].p] = job[pod[u].p]
                                    /\ (absorbed[pod[u].p] = 0 => absorbed'[pod[u].p] = 0)
    PROVE  AtWork(u)'
<1>0. CASE pod[u].pc \notin Working
  BY <1>0 DEF AtWork
<1>1. CASE pod[u].pc \in Working
  <2>1. /\ pod[u] \in PodRec /\ Placed(pod[u], rows) /\ pod[u].p \in Prompts /\ AtWork(u) /\ Types
        /\ Len(rows) \in Nat
    BY <1>1, Numbered DEF Inv, Types, Procs, Placed, Working, Calm
  <2> DEFINE v == pod[u]
             R == rows'
  <2>2. \A i \in Ids :
          /\ Here(i)' => Here(i)
          /\ R[i].a = rows[i].a /\ R[i].p = rows[i].p /\ (R[i].st = "open" => rows[i].st = "open")
    BY DEF Fewer, RowsGrow, Here
  <2>3. /\ v.id > 0 => R[v.id].p = rows[v.id].p
        /\ v.mine > 0 => R[v.mine].p = rows[v.mine].p
    BY <2>1 DEF Fewer, RowsGrow, PodRec, Placed, Ids
  <2>4. Holds(u)' /\ (v.pc # "taken" => absorbed'[v.p] = 0)
    BY <1>1, <2>1 DEF AtWork, Holds
  <2>5. v.pc = "claiming" => \A i \in Ids : Here(i)' /\ R[i].p = v.p =>
           R[i].a <= v.a /\ (R[i].st = "open" => R[i].a = v.a)
    BY <1>1, <2>1, <2>2 DEF AtWork
  <2>6. v.pc \in Replying => \A i \in Ids : R[i].st = "open" /\ R[i].p = v.p => i = v.id
    BY <1>1, <2>1, <2>2 DEF AtWork
  <2>7. /\ v.pc \in {"returning", "ready"} => v.id > 0 /\ R[v.id].p = v.p
        /\ v.pc \in {"out", "reporting", "streaming"} => v.mine > 0 /\ R[v.mine].p = v.p
    BY <1>1, <2>1, <2>3 DEF AtWork
  <2>8. pod'[u] = v /\ Ids' = Ids
    BY DEF Fewer
  <2> HIDE DEF v
  <2> QED BY <2>4, <2>5, <2>6, <2>7, <2>8 DEF AtWork
<1> QED BY <1>0, <1>1

\* What keeps the rest: no other turn runs, what is taken has no reply, and a turn that
\* succeeds leaves none open.
LEMMA CalmSteps ==
    ASSUME Inv, Calm, left'.stall = 0, \A u \in Pods : AtWork(u)', OneRunning', Fewer,
           \A p \in Prompts : absorbed'[p] # 0 => absorbed[p] # 0 \/ RepliesTo(p) = {},
           \A p \in Prompts : job'[p].st = "succeeded" => job[p].st = "succeeded"
                                  \/ \A i \in Ids : rows'[i].p = p => rows'[i].st # "open"
    PROVE  Calm'
<1>1. Types /\ \A i \in Ids : rows[i].p \in Prompts
  BY Numbered DEF Inv, RowRec
<1>2. Attempts'
  BY DEF Attempts, Calm, Fewer, RowsGrow, Here
<1>3. TakenBare'
  BY <1>1, FewerReplies DEF TakenBare, Calm
<1>4. NothingOpen'
  BY <1>1 DEF NothingOpen, Calm, Fewer, RowsGrow
<1> QED BY <1>2, <1>3, <1>4 DEF Calm

\* One pod moves, or none.
Others(w) == \A u \in Procs \ {w} : pod'[u] = pod[u]

\* A step in which no turn is taken, and the turns of other pods at work are left alone.
LEMMA CalmMoves ==
    ASSUME Inv, Calm, NEW w \in Procs, Others(w), w \in Pods => AtWork(w)', left'.stall = 0, Fewer,
           \A u \in Pods \ {w} : pod[u].pc \in Working =>
              job'[pod[u].p] = job[pod[u].p] /\ (absorbed[pod[u].p] = 0 => absorbed'[pod[u].p] = 0),
           \A p \in Prompts : job'[p].st = "running" => job[p].st = "running",
           \A p \in Prompts : absorbed'[p] # 0 => absorbed[p] # 0 \/ RepliesTo(p) = {},
           \A p \in Prompts : job'[p].st = "succeeded" => job[p].st = "succeeded"
                                  \/ \A i \in Ids : rows'[i].p = p => rows'[i].st # "open"
    PROVE  Calm'
<1>1. \A u \in Pods : AtWork(u)'
  <2>1. ASSUME NEW u \in Pods, u # w PROVE AtWork(u)'
    BY <2>1, StillAtWork DEF Others, Procs
  <2> QED BY <2>1
<1>2. OneRunning'
  BY DEF OneRunning, Calm
<1> QED BY <1>1, <1>2, CalmSteps

LEMMA FewerKept ==
    ASSUME Types, rows' = rows
    PROVE  Fewer
BY Kept DEF Fewer, Ids

\* A step of one pod that changes no reply, no job and no message.
LEMMA CalmPods ==
    ASSUME Inv, Calm, NEW w \in Procs, Others(w), w \in Pods => AtWork(w)', left'.stall = 0,
           UNCHANGED <<absorbed, job, rows>>
    PROVE  Calm'
BY CalmMoves, FewerKept DEF Inv

\* A step by which a pod stops work, or goes on without it, is nobody else's.
LEMMA CalmStops ==
    ASSUME Inv, Calm, NEW w \in Procs, Others(w), pod'[w].pc \notin Working, left'.stall = 0,
           UNCHANGED <<absorbed, rows>>,
           job' = job \/ (Holds(w) /\ \E j : job' = [job EXCEPT ![pod[w].p] = j] /\ j.st # "running"),
           \A p \in Prompts : job'[p].st = "succeeded" => job[p].st = "succeeded" \/ absorbed[p] # 0
    PROVE  Calm'
<1>1. AtWork(w)'
  BY DEF AtWork
<1>2. \A u \in Pods \ {w} : pod[u].pc \in Working => job'[pod[u].p] = job[pod[u].p]
  <2> SUFFICES ASSUME NEW u \in Pods, u # w, pod[u].pc \in Working
               PROVE  job'[pod[u].p] = job[pod[u].p]
    OBVIOUS
  <2>1. Holds(u) /\ pod[u].p \in Prompts
    BY DEF Calm, AtWork, Inv, Placed, Working, Procs
  <2>2. Holds(w) => pod[w].p # pod[u].p
    BY <2>1 DEF Holds
  <2> QED BY <2>1, <2>2 DEF Inv, Types
<1>3. \A p \in Prompts : job'[p].st = "running" => job[p].st = "running"
  BY DEF Inv, Types
<1>4. \A p \in Prompts : job'[p].st = "succeeded" => job[p].st = "succeeded"
         \/ \A i \in Ids : rows'[i].p = p => rows'[i].st # "open"
  <2>1. \A p \in Prompts : absorbed[p] # 0 => \A i \in Ids : rows[i].p = p => rows[i].st # "open"
    BY DEF Calm, TakenBare, RepliesTo, Here
  <2> QED BY <2>1
<1>5. Fewer /\ w \in Procs
  BY FewerKept DEF Inv, Procs
<1> QED BY <1>1, <1>2, <1>3, <1>4, <1>5, CalmMoves

LEMMA CalmPodSteps ==
    ASSUME Inv, Calm, NEW w \in Pods, PodSteps(w)
    PROVE  Calm'
<1> DEFINE v == pod[w]
<1>1. /\ w \in Procs /\ v \in PodRec /\ AtWork(w) /\ left \in Left /\ left.stall = 0 /\ Types
  BY DEF Inv, Types, Calm, Procs
<1>2. UNCHANGED <<absorbed, job, rows>> /\ \E r : pod' = [pod EXCEPT ![w] = r]
  BY DEF PodSteps, Begin, HandOut, Report, Done, Awaits, Breaks, CheckLease, CheckFailure, Crash,
         To, Go
<1>3. Others(w)
  BY <1>1, <1>2 DEF Others, Types
<1>4. left'.stall = 0
  <2>1. left' = left \/ \E k \in {"park", "crash"} : left' = [left EXCEPT ![k] = @ - 1]
    BY DEF PodSteps, Begin, HandOut, Report, Done, Awaits, Breaks, CheckLease, CheckFailure, Crash,
           Spent
  <2> QED BY <1>1, <2>1 DEF Left
<1>5. AtWork(w)'
  <2>1. Holds(w) /\ pod'[w].p = pod[w].p => Holds(w)'
    BY <1>1, <1>2 DEF Holds
  <2>2. Ids' = Ids /\ rows' = rows /\ absorbed' = absorbed /\ \A i \in Ids : Here(i)' = Here(i)
    BY <1>2 DEF Ids, Here
  <2>3. CASE Begin(w)
    <3>1. v.pc = "taken" /\ absorbed[v.p] = 0 /\ pod'[w] = [v EXCEPT !.pc = "deciding"]
      BY <1>1, <2>3 DEF Begin, At, WasAbsorbed, To, Go, Types
    <3>2. pod'[w].pc = "deciding" /\ pod'[w].p = v.p /\ Holds(w)
      BY <1>1, <3>1 DEF PodRec, AtWork, Working
    <3> QED BY <2>1, <2>2, <3>1, <3>2 DEF AtWork, Replying
  <2>4. CASE HandOut(w)
    <3>1. v.pc = "ready" /\ Holds(w)
      BY <1>1, <2>4 DEF HandOut, At, AtWork, Working
    <3>2. pod'[w] = [v EXCEPT !.pc = "out", !.mine = v.id]
      BY <1>1, <2>4, <3>1 DEF HandOut, Go, Types
    <3>3. pod'[w].pc = "out" /\ pod'[w].p = v.p /\ pod'[w].mine = v.id
      BY <1>1, <3>2 DEF PodRec
    <3>4. v.id > 0 /\ rows[v.id].p = v.p /\ absorbed[v.p] = 0
      BY <1>1, <3>1 DEF AtWork, Working
    <3> QED BY <2>1, <2>2, <3>1, <3>3, <3>4 DEF AtWork, Replying
  <2>5. CASE Report(w)
    <3>1. v.pc = "out" /\ Holds(w) /\ pod'[w] = [v EXCEPT !.pc = "reporting"]
      BY <1>1, <2>5 DEF Report, To, Go, At, AtWork, Working, Types
    <3>2. pod'[w].pc = "reporting" /\ pod'[w].p = v.p /\ pod'[w].mine = v.mine
      BY <1>1, <3>1 DEF PodRec
    <3>3. v.mine > 0 /\ rows[v.mine].p = v.p /\ absorbed[v.p] = 0
      BY <1>1, <3>1 DEF AtWork, Working
    <3> QED BY <2>1, <2>2, <3>1, <3>2, <3>3 DEF AtWork, Replying
  <2>6. CASE Done(w) \/ Awaits(w) \/ CheckLease(w)
    <3>1. v.pc \in {"streaming", "checking"} /\ Holds(w)
      BY <1>1, <2>6 DEF Done, Awaits, CheckLease, At, AtWork, Working
    <3>2. pod'[w] \in {[v EXCEPT !.pc = "checking"], [v EXCEPT !.pc = "checking", !.parks = TRUE],
                       [v EXCEPT !.pc = "closing"]}
      BY <1>1, <2>6, <3>1 DEF Done, Awaits, CheckLease, To, Go, Types
    <3>3. pod'[w].pc \in {"checking", "closing"} /\ pod'[w].p = v.p /\ pod'[w].id = v.id
      BY <1>1, <3>2 DEF PodRec
    <3>4. absorbed[v.p] = 0 /\ \A i \in Ids : rows[i].st = "open" /\ rows[i].p = v.p => i = v.id
      BY <1>1, <3>1 DEF AtWork, Working, Replying
    <3> QED BY <2>1, <2>2, <3>1, <3>3, <3>4 DEF AtWork
  <2>7. CASE \E forGood \in BOOLEAN : Breaks(w, forGood)
    <3>1. v.pc = "streaming" /\ Holds(w) /\ absorbed[v.p] = 0
      BY <1>1, <2>7 DEF Breaks, At, AtWork, Working
    <3>2. pod'[w].pc = "failing" /\ pod'[w].p = v.p
      BY <1>1, <2>7 DEF Breaks, Go, Types, PodRec
    <3> QED BY <2>1, <2>2, <3>1, <3>2 DEF AtWork, Replying
  <2>8. CASE CheckFailure(w) \/ Crash(w)
    <3>1. pod'[w].pc \in Waiting
      BY <1>1, <2>8 DEF CheckFailure, Crash, To, Go, Idle, Types, PodRec, Waiting
    <3> QED BY <3>1 DEF AtWork, Waiting, Working
  <2> QED BY <2>3, <2>4, <2>5, <2>6, <2>7, <2>8 DEF PodSteps
<1> QED BY <1>1, <1>2, <1>3, <1>4, <1>5, CalmPods

LEMMA CalmJobSteps ==
    ASSUME Inv, Calm, NEW p \in Prompts, JobSteps(p)
    PROVE  Calm'
<1>1. /\ UNCHANGED <<absorbed, rows, pod>> /\ Types /\ left \in Left /\ left.stall = 0
      /\ \A q \in Prompts : job[q] \in JobRec
  BY DEF JobSteps, Send, EnqueueTurn, RetryTurn, Answer, Inv, Types, Calm
<1>2. left'.stall = 0
  BY <1>1 DEF JobSteps, Send, EnqueueTurn, RetryTurn, Answer, Spent, Left
<1>3. \A q \in Prompts : \/ job'[q] = job[q]
                         \/ job[q].st # "running" /\ job'[q].st = "pending"
  <2>1. CASE Send(p)
    BY <2>1 DEF Send
  <2>2. CASE EnqueueTurn(p)
    BY <1>1, <2>2 DEF EnqueueTurn, Types, JobRec
  <2>3. CASE RetryTurn(p)
    BY <1>1, <2>3 DEF RetryTurn, Types, JobRec
  <2>4. CASE Answer(p)
    BY <1>1, <2>4 DEF Answer, Types, JobRec
  <2> QED BY <2>1, <2>2, <2>3, <2>4 DEF JobSteps
<1>4. \A u \in Pods : pod[u].pc \in Working => job'[pod[u].p] = job[pod[u].p]
  BY <1>3 DEF Calm, AtWork, Holds, Inv, Placed, Working, Procs
<1>5. Reaper \in Procs /\ Reaper \notin Pods /\ Others(Reaper) /\ Fewer
  BY <1>1, Bounds, FewerKept DEF Procs, Others, Inv
<1> QED BY <1>1, <1>2, <1>3, <1>4, <1>5, CalmMoves

\* The sweep takes back the lease of a pod that is gone.
LEMMA CalmReap ==
    ASSUME Inv, Calm, NEW p \in Prompts, Reap(p)
    PROVE  Calm'
<1>1. /\ UNCHANGED <<absorbed, rows>> /\ Types /\ left \in Left /\ left.stall = 0
      /\ Reaper \in Procs /\ Reaper \notin Pods /\ job[p] \in JobRec
  BY Bounds DEF Reap, Inv, Types, Calm, Procs
<1>2. ~Spent("stall")
  BY <1>1 DEF Spent, Left
<1>3. left' = left /\ pod[job[p].holder].p # p /\ job[p].st = "running"
  BY <1>2 DEF Reap, Lapsed
<1>4. job' = [job EXCEPT ![p] = FailedAs(job[p], FALSE)]
  BY DEF Reap
<1>5. \A q \in Prompts : job'[q] = job[q] \/ (q = p /\ job'[q].st \in {"pending", "failed"})
  BY <1>1, <1>4 DEF FailedAs, Closed, JobRec, Types
<1>6. \A u \in Pods : pod[u].pc \in Working => job'[pod[u].p] = job[pod[u].p]
  <2> SUFFICES ASSUME NEW u \in Pods, pod[u].pc \in Working
               PROVE  job'[pod[u].p] = job[pod[u].p]
    OBVIOUS
  <2>1. Holds(u) /\ pod[u].p \in Prompts
    BY DEF Calm, AtWork, Inv, Placed, Working, Procs
  <2>2. pod[u].p # p
    BY <1>3, <2>1 DEF Holds
  <2> QED BY <1>4, <2>1, <2>2, <1>1 DEF Types
<1>7. Others(Reaper) /\ Fewer
  BY <1>1, FewerKept DEF Others, Reap, Go, Types
<1> QED BY <1>1, <1>3, <1>5, <1>6, <1>7, CalmMoves

LEMMA CalmTake ==
    ASSUME Inv, Calm, NEW w \in Pods, NEW p \in Prompts, Take(w, p)
    PROVE  Calm'
<1>1. /\ UNCHANGED <<absorbed, rows, left>> /\ Types /\ w \in Procs /\ job[p] \in JobRec /\ p # 0
      /\ pod' = [pod EXCEPT ![w] = [Idle EXCEPT !.pc = "taken", !.p = p]]
      /\ job' = [job EXCEPT ![p] = [job[p] EXCEPT !.st = "running", !.holder = w, !.tries = @ + 1]]
  BY Bounds DEF Take, Go, Inv, Types, Procs
<1>2. \A q \in Prompts : job[q].st # "running"
  BY DEF Take
<1>3. /\ job'[p].st = "running" /\ job'[p].holder = w
      /\ \A q \in Prompts : q # p => job'[q] = job[q]
  BY <1>1 DEF JobRec, Types
<1>4. pod'[w].pc = "taken" /\ pod'[w].p = p /\ \A u \in Procs \ {w} : pod'[u] = pod[u]
  BY <1>1 DEF Idle, Types
<1>5. \A u \in Pods : AtWork(u)'
  <2>1. AtWork(w)'
    BY <1>1, <1>3, <1>4 DEF AtWork, Holds, Replying
  <2>2. ASSUME NEW u \in Pods, u # w PROVE AtWork(u)'
    <3>1. pod[u].pc \notin Working
      BY <1>2 DEF Calm, AtWork, Holds, Inv, Placed, Working, Procs
    <3> QED BY <1>4, <2>2, <3>1 DEF AtWork, Procs
  <2> QED BY <2>1, <2>2
<1>6. OneRunning'
  BY <1>2, <1>3 DEF OneRunning
<1>7. Fewer /\ left'.stall = 0
  BY <1>1, FewerKept DEF Calm
<1>8. \A q \in Prompts : job'[q].st = "succeeded" => job[q].st = "succeeded"
  BY <1>3
<1> QED BY <1>1, <1>5, <1>6, <1>7, <1>8, CalmSteps

LEMMA CalmJobAndPodSteps ==
    ASSUME Inv, Calm, NEW w \in Procs, JobAndPodSteps(w)
    PROVE  Calm'
<1> DEFINE p == pod[w].p
           j == job[p]
           back == [Closed(j, IF j.rel + 1 >= MaxReleases THEN "failed" ELSE "pending")
                       EXCEPT !.rel = @ + 1, !.tries = @ - 1]
<1>1. /\ UNCHANGED <<absorbed, rows>> /\ Types /\ w \in Procs /\ left \in Left /\ left.stall = 0
      /\ pod[w] \in PodRec /\ p \in Prompts /\ j \in JobRec
  BY DEF JobAndPodSteps, Nothing, CannotPrepare, RecordFailure, HandBack, At, Inv, Types, Calm, Procs,
         Placed
<1>2. left'.stall = 0
  <2>1. left' = left \/ left' = [left EXCEPT !["back"] = @ - 1]
    BY DEF JobAndPodSteps, Nothing, CannotPrepare, RecordFailure, HandBack, Spent
  <2> QED BY <1>1, <2>1 DEF Left
<1>3. Others(w) /\ pod'[w].pc \notin Working
  <2>1. \E r \in {Idle, [pod[w] EXCEPT !.pc = "sealing"]} : pod' = [pod EXCEPT ![w] = r]
    BY DEF JobAndPodSteps, Nothing, CannotPrepare, RecordFailure, HandBack, To, Go
  <2>2. \A r \in {Idle, [pod[w] EXCEPT !.pc = "sealing"]} : r.pc \notin Working
    BY <1>1 DEF Idle, PodRec, Working
  <2> QED BY <1>1, <2>1, <2>2 DEF Others, Types
<1>4. job' = job \/ (Holds(w) /\ \E k \in {Closed(j, "succeeded"), FailedAs(j, FALSE),
                                          FailedAs(j, pod[w].good), back} :
                        /\ job' = [job EXCEPT ![p] = k]
                        /\ k = Closed(j, "succeeded") => absorbed[p] # 0)
  <2>1. CASE Nothing(w)
    BY <2>1 DEF Nothing, WasAbsorbed
  <2>2. CASE CannotPrepare(w) \/ RecordFailure(w)
    <3>1. \A g \in BOOLEAN : FailedAs(j, g) # Closed(j, "succeeded")
      BY <1>1 DEF FailedAs, Closed, JobRec
    <3>2. pod[w].good \in BOOLEAN
      BY <1>1 DEF PodRec
    <3> QED BY <2>2, <3>1, <3>2 DEF CannotPrepare, RecordFailure
  <2>3. CASE HandBack(w)
    <3>1. back # Closed(j, "succeeded")
      BY <1>1 DEF Closed, JobRec
    <3>2. job' = IF Holds(w) THEN [job EXCEPT ![p] = back] ELSE job
      BY <2>3 DEF HandBack
    <3> HIDE DEF back
    <3> QED BY <3>1, <3>2
  <2> QED BY <2>1, <2>2, <2>3 DEF JobAndPodSteps
<1>5. /\ FailedAs(j, FALSE).st \in {"pending", "failed"} /\ back.st \in {"pending", "failed"}
      /\ FailedAs(j, pod[w].good).st \in {"pending", "failed"} /\ Closed(j, "succeeded").st = "succeeded"
  BY <1>1 DEF FailedAs, Closed, JobRec
<1> HIDE DEF back
<1>6. job' = job \/ (Holds(w) /\ \E k : /\ job' = [job EXCEPT ![p] = k] /\ k.st # "running"
                                        /\ (k.st = "succeeded" => absorbed[p] # 0))
  BY <1>4, <1>5
<1>7. \A q \in Prompts : job'[q].st = "succeeded" => job[q].st = "succeeded" \/ absorbed[q] # 0
  BY <1>1, <1>6 DEF Types
<1> QED BY <1>1, <1>2, <1>3, <1>6, <1>7, CalmStops

\* Abandoning: by a pod that has stopped work, or the sweep.
LEMMA CalmAbandons ==
    ASSUME Inv, Calm, NEW w \in Procs, Seal(w) \/ Discard(w)
    PROVE  Calm'
<1> DEFINE p == pod[w].p
           gone == {i \in AttemptAt(p, pod[w].a) : ~SaidSomething(i)}
<1>1. /\ job' = job /\ left' = left /\ Types /\ p \in Prompts /\ left.stall = 0 /\ pod[w] \in PodRec
  BY DEF Seal, Discard, At, Inv, Types, Calm, Placed
<1>2. Others(w) /\ pod'[w].pc \notin Working
  <2>1. CASE Seal(w)
    <3>1. pod' = [pod EXCEPT ![w] = [pod[w] EXCEPT !.pc = "discarding", !.a = CurrentAttempt(p)]]
      BY <2>1 DEF Seal, Go
    <3> QED BY <1>1, <3>1 DEF Others, Types, PodRec, Working
  <2>2. CASE Discard(w)
    <3>1. pod' = [pod EXCEPT ![w] = [pod[w] EXCEPT !.pc = "recording"]]
      BY <2>2 DEF Discard, To, Go
    <3> QED BY <1>1, <3>1 DEF Others, Types, PodRec, Working
  <2> QED BY <2>1, <2>2
<1>3. Fewer
  <2>1. CASE Seal(w)
    <3> DEFINE a == CurrentAttempt(p)
    <3>1. CASE AttemptAt(p, a) = {}
      BY <1>1, <2>1, <3>1, FewerKept DEF Seal
    <3>2. CASE AttemptAt(p, a) # {}
      <4>1. TheRow(p, a) \in Ids /\ rows' = Sealed(rows, TheRow(p, a))
        BY <1>1, <2>1, <3>2, ItsRow DEF Seal
      <4> DEFINE i == TheRow(p, a)
      <4> HIDE DEF i
      <4>2. /\ RowsGrow /\ Ids' = Ids /\ \A k \in Ids \ {i} : rows'[k] = rows[k]
            /\ rows'[i] = rows[i] \/ (rows[i].st = "open" /\ rows'[i] = [rows[i] EXCEPT !.st = "sealed"])
            /\ rows[i] \in RowRec
        BY <1>1, <4>1, Seals, Numbered DEF i
      <4>3. rows'[i] = rows[i] \/ (rows'[i].st = "sealed" /\ rows[i].st = "open")
        BY <4>2 DEF RowRec
      <4> QED BY <4>2, <4>3 DEF Fewer
    <3> QED BY <3>1, <3>2
  <2>2. CASE Discard(w)
    <3>1. rows' = [i \in Ids |-> IF i \in gone THEN [rows[i] EXCEPT !.st = "deleted"] ELSE rows[i]]
      BY <2>2 DEF Discard
    <3>2. gone \in SUBSET Ids
      BY DEF AttemptAt, RepliesTo
    <3> HIDE DEF gone
    <3>3. /\ RowsGrow /\ Ids' = Ids /\ \A i \in gone : rows'[i] = [rows[i] EXCEPT !.st = "deleted"]
          /\ \A i \in Ids \ gone : rows'[i] = rows[i]
      BY <1>1, <3>1, <3>2, Deletes
    <3>4. \A i \in gone : rows'[i].st = "deleted"
      BY <3>2, <3>3, <1>1, Numbered DEF RowRec
    <3> QED BY <3>3, <3>4 DEF Fewer
  <2> QED BY <2>1, <2>2
<1>4. \A q \in Prompts : absorbed'[q] \in {0, absorbed[q]}
  BY DEF Seal, Discard
<1>5. /\ w \in Pods => AtWork(w)'
      /\ \A u \in Pods : absorbed[pod[u].p] = 0 /\ pod[u].pc \in Working => absorbed'[pod[u].p] = 0
  BY <1>2, <1>4 DEF AtWork, Inv, Placed, Working, Procs
<1>6. \A q \in Prompts : job'[q].st = "succeeded" => job[q].st = "succeeded"
  BY <1>1
<1> QED BY <1>1, <1>2, <1>3, <1>4, <1>5, <1>6, CalmMoves

\* What follows is done by the one pod that is at work: the others are not.
LEMMA Alone ==
    ASSUME Inv, Calm, NEW w \in Pods, pod[w].pc \in Working, Others(w), AtWork(w)'
    PROVE  /\ \A u \in Pods \ {w} : pod[u].pc \notin Working
           /\ \A u \in Pods : AtWork(u)'
<1>1. ASSUME NEW u \in Pods, u # w PROVE pod[u].pc \notin Working
  BY <1>1, OneAtWork
<1>2. ASSUME NEW u \in Pods PROVE AtWork(u)'
  BY <1>1 DEF Others, AtWork, Procs
<1> QED BY <1>1, <1>2

\* The turn goes on with the next attempt after one that is final, and so none is open; or
\* with the latest.
LEMMA CalmAttemptFor ==
    ASSUME Inv, Calm, NEW w \in Pods, AttemptFor(w)
    PROVE  Calm'
<1> DEFINE v == pod[w]
           p == v.p
           a == CurrentAttempt(p)
<1>1. /\ w \in Procs /\ v \in PodRec /\ v.pc = "deciding" /\ p \in Prompts /\ Types /\ AtWork(w) /\ Calm
      /\ v.pc \in Working /\ Holds(w) /\ absorbed[p] = 0 /\ Len(rows) \in Nat
      /\ UNCHANGED <<absorbed, job, left>>
  BY Numbered DEF AttemptFor, At, Inv, Types, Procs, Placed, Calm, AtWork, Working
<1>2. \E n \in Nat :
         /\ pod' = [pod EXCEPT ![w] = [v EXCEPT !.pc = "claiming", !.a = n]] /\ Fewer
         /\ \A k \in Ids : Here(k)' /\ rows'[k].p = p =>
               rows'[k].a <= n /\ (rows'[k].st = "open" => rows'[k].a = n)
  <2>1. CASE RepliesTo(p) = {}
    <3>1. rows' = rows /\ pod' = [pod EXCEPT ![w] = [v EXCEPT !.pc = "claiming", !.a = 1]]
      BY <2>1 DEF AttemptFor, Go
    <3>2. \A k \in Ids : Here(k) => rows[k].p # p
      BY <2>1 DEF RepliesTo
    <3>3. Fewer /\ \A k \in Ids : Here(k)' = Here(k) /\ rows'[k] = rows[k]
      BY <1>1, <3>1, FewerKept DEF Here, Ids
    <3> HIDE DEF v, p
    <3> WITNESS 1 \in Nat
    <3> QED BY <3>1, <3>2, <3>3
  <2>2. CASE RepliesTo(p) # {}
    <3> DEFINE i == TheRow(p, a)
               n == NextAttempt(Sealed(rows, i), p, a, job[p].answered)
    <3>1. rows' = Sealed(rows, i) /\ pod' = [pod EXCEPT ![w] = [v EXCEPT !.pc = "claiming", !.a = n]]
      BY <2>2 DEF AttemptFor, Go
    <3>2. /\ a \in Nat /\ i \in Ids /\ rows[i] \in RowRec /\ rows[i].p = p /\ rows[i].a = a /\ Here(i)
          /\ \A k \in Ids : Here(k) /\ rows[k].p = p => rows[k].a <= a /\ rows[k].a \in Nat
      BY <1>1, <2>2, Latest, ItsRow, Numbered DEF RepliesTo, RowRec
    <3>3. n \in {a, a + 1} /\ (n = a + 1 => rows'[i].st # "open")
      BY <3>1, <3>2 DEF NextAttempt
    <3> HIDE DEF i, n
    <3>4. /\ RowsGrow /\ Ids' = Ids /\ \A k \in Ids \ {i} : rows'[k] = rows[k]
          /\ rows'[i] = rows[i] \/ (rows[i].st = "open" /\ rows'[i] = [rows[i] EXCEPT !.st = "sealed"])
      BY <1>1, <3>1, <3>2, Seals
    <3>5. rows'[i] = rows[i] \/ (rows'[i].st = "sealed" /\ rows[i].st = "open")
      BY <3>2, <3>4 DEF RowRec
    <3>6. Fewer
      BY <3>4, <3>5 DEF Fewer
    <3>7. n \in Nat
      BY <3>2, <3>3
    <3>8. ASSUME NEW k \in Ids, Here(k)', rows'[k].p = p
          PROVE  rows'[k].a <= n /\ (rows'[k].st = "open" => rows'[k].a = n)
      <4>1. /\ Here(k) /\ rows[k].p = p /\ rows'[k].a = rows[k].a
            /\ rows'[k].st = "open" => rows[k].st = "open"
        BY <3>6, <3>8 DEF Fewer, RowsGrow, Here
      <4>2. rows[k].a <= a /\ rows[k].a \in Nat
        BY <3>2, <4>1
      <4>3. rows[k].st = "open" => k = i
        BY <1>1, <3>2, <4>1, <4>2 DEF Calm, Attempts
      <4> QED BY <3>2, <3>3, <4>1, <4>2, <4>3
    <3> HIDE DEF v, p
    <3> n \in Nat
      BY <3>7
    <3> WITNESS n \in Nat
    <3> QED BY <3>1, <3>6, <3>8
  <2> QED BY <2>1, <2>2
<1>3. PICK n \in Nat :
         /\ pod' = [pod EXCEPT ![w] = [v EXCEPT !.pc = "claiming", !.a = n]] /\ Fewer
         /\ \A k \in Ids : Here(k)' /\ rows'[k].p = p =>
               rows'[k].a <= n /\ (rows'[k].st = "open" => rows'[k].a = n)
  BY <1>2
<1>4. /\ pod'[w].pc = "claiming" /\ pod'[w].p = p /\ pod'[w].a = n /\ Others(w) /\ Ids' = Ids
  BY <1>1, <1>3 DEF PodRec, Others, Types, Fewer
<1>5. AtWork(w)'
  <2>1. Holds(w)'
    BY <1>1, <1>4 DEF Holds
  <2> HIDE DEF v, p
  <2> QED BY <1>1, <1>3, <1>4, <2>1 DEF AtWork, Replying
<1>6. \A u \in Pods : AtWork(u)'
  BY <1>1, <1>4, <1>5, Alone
<1>7. OneRunning' /\ left'.stall = 0
  BY <1>1 DEF OneRunning, Calm
<1>8. /\ \A q \in Prompts : absorbed'[q] # 0 => absorbed[q] # 0
      /\ \A q \in Prompts : job'[q].st = "succeeded" => job[q].st = "succeeded"
  BY <1>1
<1> QED BY <1>1, <1>3, <1>6, <1>7, <1>8, CalmSteps

\* A reply is added when the attempt has none, and then none of the turn is open.
LEMMA CalmClaims ==
    ASSUME Inv, Calm, NEW w \in Pods, ClaimForTurn(w) \/ ClaimForReport(w)
    PROVE  Calm'
<1> DEFINE v == pod[w]
           p == v.p
           N == Len(rows) + 1
           a == IF ClaimForTurn(w) THEN v.a ELSE CurrentAttempt(p)
           pc == IF ClaimForTurn(w) THEN "ready" ELSE "streaming"
           old == IF ClaimForTurn(w) THEN "returning" ELSE "streaming"
<1>1. /\ w \in Procs /\ v \in PodRec /\ p \in Prompts /\ Types /\ AtWork(w) /\ v.pc \in Working
      /\ v.pc \in {"claiming", "reporting"} /\ (v.pc = "claiming" <=> ClaimForTurn(w))
      /\ Holds(w) /\ absorbed[p] = 0 /\ Len(rows) \in Nat /\ Placed(v, rows)
      /\ UNCHANGED <<absorbed, job, left>>
  BY Numbered DEF ClaimForTurn, ClaimForReport, At, Inv, Types, Procs, Placed, Calm, AtWork, Working
<1>2. a \in Nat /\ a <= Len(rows) + 1
  BY <1>1, Latest DEF PodRec, Placed
<1>3. ClaimPlaceholder(w, p, a, pc, old)
  BY <1>1 DEF ClaimForTurn, ClaimForReport
\* The others of the turn are no later, and the open ones of this attempt.
<1>4. \A i \in Ids : Here(i) /\ rows[i].p = p => rows[i].a <= a /\ rows[i].a \in Nat
         /\ (rows[i].st = "open" => rows[i].a = a)
  <2>1. CASE ClaimForTurn(w)
    BY <1>1, <2>1, Numbered DEF AtWork, RowRec
  <2>2. CASE ~ClaimForTurn(w)
    <3>1. \A i \in Ids : Here(i) /\ rows[i].p = p => i \in RepliesTo(p) /\ rows[i].a \in Nat
      BY <1>1, Numbered DEF RepliesTo, RowRec
    <3>2. \A i \in RepliesTo(p) : rows[i].a <= a
      BY <1>1, <2>2, Latest
    <3>3. ASSUME NEW i \in Ids, Here(i), rows[i].p = p, rows[i].st = "open" PROVE rows[i].a = a
      <4>1. PICK k \in AttemptAt(p, a) : TRUE
        BY <1>1, <2>2, <3>1, <3>3, Latest
      <4>2. k \in Ids /\ Here(k) /\ rows[k].p = p /\ rows[k].a = a
        BY <4>1 DEF AttemptAt, RepliesTo
      <4>3. a <= rows[i].a
        BY <3>3, <4>2 DEF Calm, Attempts
      <4> QED BY <1>2, <3>1, <3>2, <3>3, <4>3
    <3> QED BY <3>1, <3>2, <3>3
  <2> QED BY <2>1, <2>2
<1> HIDE DEF a, pc, old
<1>5. /\ RowsGrow
      /\ \/ /\ AttemptAt(p, a) = {} /\ Len(rows') = N
            /\ \A i \in Ids : rows'[i] = rows[i]
            /\ rows'[N] = Fresh(p, a)
            /\ Go(w, [v EXCEPT !.pc = pc, !.id = N])
         \/ /\ AttemptAt(p, a) # {} /\ rows' = rows
            /\ Go(w, [v EXCEPT !.pc = old, !.id = TheRow(p, a)])
  BY <1>1, <1>2, <1>3, Claims
<1> DEFINE id == IF AttemptAt(p, a) = {} THEN N ELSE TheRow(p, a)
           k == IF AttemptAt(p, a) = {} THEN pc ELSE old
<1>7. /\ id \in Nat /\ k \in {pc, old}
      /\ pod' = [pod EXCEPT ![w] = [v EXCEPT !.pc = k, !.id = id]]
      /\ 0 < id /\ id <= Len(rows') /\ rows'[id].p = p /\ rows'[id].a = a
      /\ \A i \in Ids' \ {id} : i \in Ids /\ rows'[i] = rows[i]
      /\ \A i \in Ids : Here(i) /\ rows[i].p = p /\ rows[i].a = a => i = id
      /\ id \in Ids => rows'[id] = rows[id]
  <2>1. CASE AttemptAt(p, a) = {}
    <3>1. /\ Len(rows') = N /\ rows'[N] = Fresh(p, a) /\ \A i \in Ids : rows'[i] = rows[i]
          /\ pod' = [pod EXCEPT ![w] = [v EXCEPT !.pc = pc, !.id = N]]
      BY <1>5, <2>1 DEF Go
    <3>2. N \in Nat /\ 0 < N /\ Fresh(p, a).p = p /\ Fresh(p, a).a = a
      BY <1>1 DEF Fresh
    <3>3. N \in Ids' /\ N \notin Ids /\ \A i \in Ids' \ {N} : i \in Ids
      BY <1>1, <3>1 DEF Ids
    <3>4. \A i \in Ids : ~(Here(i) /\ rows[i].p = p /\ rows[i].a = a)
      BY <2>1 DEF AttemptAt, RepliesTo
    <3>5. id = N /\ k = pc
      BY <2>1
    <3>6. N <= Len(rows')
      BY <3>1, <3>2
    <3> HIDE DEF v, p, N, id, k
    <3> QED BY <3>1, <3>2, <3>3, <3>4, <3>5, <3>6
  <2>2. CASE AttemptAt(p, a) # {}
    <3>1. rows' = rows /\ pod' = [pod EXCEPT ![w] = [v EXCEPT !.pc = old, !.id = TheRow(p, a)]]
      BY <1>5, <2>2 DEF Go
    <3>2. id = TheRow(p, a) /\ k = old
      BY <2>2
    <3> HIDE DEF id, k
    <3>3. id \in Ids /\ rows[id].p = p /\ rows[id].a = a /\ Here(id)
      BY <1>1, <2>2, <3>2, ItsRow
    <3>4. \A i \in Ids : Here(i) /\ rows[i].p = p /\ rows[i].a = a => i = id
      BY <3>3 DEF Calm, Attempts
    <3>5. id \in Nat /\ 0 < id /\ id <= Len(rows') /\ Ids' = Ids
      BY <1>1, <3>1, <3>3 DEF Ids
    <3> HIDE DEF v, p
    <3> QED BY <3>1, <3>2, <3>3, <3>4, <3>5
  <2> QED BY <2>1, <2>2
<1> HIDE DEF id, k
<1>8. /\ pod'[w].pc = k /\ pod'[w].p = p /\ pod'[w].id = id /\ pod'[w].mine = v.mine /\ Others(w)
      /\ k \in {"ready", "returning", "streaming"} /\ (k = "streaming" => v.pc = "reporting")
  BY <1>1, <1>7 DEF PodRec, Others, Types, pc, old
\* The rest of the turn's replies, and the others', are as they were.
<1>9. \A i \in Ids' \ {id} : /\ i \in Ids /\ rows'[i] = rows[i] /\ (Here(i)' <=> Here(i))
                             /\ rows[i] \in RowRec
                             /\ Here(i) /\ rows[i].p = p =>
                                   rows[i].a <= a /\ rows[i].a \in Nat /\ rows[i].a # a /\ rows[i].st # "open"
  <2> SUFFICES ASSUME NEW i \in Ids', i # id
               PROVE  /\ i \in Ids /\ rows'[i] = rows[i] /\ (Here(i)' <=> Here(i))
                      /\ rows[i] \in RowRec
                      /\ Here(i) /\ rows[i].p = p =>
                            rows[i].a <= a /\ rows[i].a \in Nat /\ rows[i].a # a /\ rows[i].st # "open"
    OBVIOUS
  <2>1. i \in Ids /\ rows'[i] = rows[i]
    BY <1>7
  <2>2. Here(i)' <=> Here(i)
    BY <2>1 DEF Here
  <2>3. Here(i) /\ rows[i].p = p => rows[i].a # a
    BY <1>7, <2>1
  <2> QED BY <1>1, <1>4, <2>1, <2>2, <2>3, Numbered
<1>10. AtWork(w)'
  <2>1. Holds(w)'
    BY <1>1, <1>8 DEF Holds
  <2>2. k = "streaming" => \A i \in Ids' : rows'[i].st = "open" /\ rows'[i].p = p => i = id
    BY <1>9 DEF Here
  <2>3. k = "streaming" => v.mine > 0 /\ rows'[v.mine].p = p
    BY <1>1, <1>5, <1>8 DEF AtWork, RowsGrow, Placed, PodRec, Ids
  <2> HIDE DEF v, p
  <2> QED BY <1>1, <1>7, <1>8, <2>1, <2>2, <2>3 DEF AtWork, Replying
<1>11. \A u \in Pods : AtWork(u)'
  BY <1>1, <1>8, <1>10, Alone
<1>12. Attempts'
  <2> SUFFICES ASSUME NEW i \in Ids', NEW j \in Ids', Here(i)', Here(j)', rows'[i].p = rows'[j].p
               PROVE  /\ rows'[i].a = rows'[j].a => i = j
                      /\ rows'[i].st = "open" => rows'[j].a <= rows'[i].a
    BY DEF Attempts
  <2>1. CASE i # id /\ j # id
    BY <1>9, <2>1 DEF Calm, Attempts
  <2>2. CASE i = id /\ j # id
    BY <1>2, <1>7, <1>9, <2>2
  <2>3. CASE i # id /\ j = id
    BY <1>2, <1>7, <1>9, <2>3
  <2>4. CASE i = id /\ j = id
    BY <1>2, <1>7, <2>4
  <2> QED BY <2>1, <2>2, <2>3, <2>4
<1>13. TakenBare'
  <2> SUFFICES ASSUME NEW q \in Prompts, absorbed[q] # 0, NEW i \in Ids', Here(i)', rows'[i].p = q
               PROVE  FALSE
    BY <1>1 DEF TakenBare, RepliesTo
  <2>1. i # id
    BY <1>1, <1>7
  <2>2. i \in RepliesTo(q)
    BY <1>9, <2>1 DEF RepliesTo
  <2> QED BY <2>2 DEF Calm, TakenBare
<1>14. NothingOpen'
  <2> SUFFICES ASSUME NEW i \in Ids', job[rows'[i].p].st = "succeeded"
               PROVE  rows'[i].st # "open"
    BY <1>1 DEF NothingOpen
  <2>1. i # id
    BY <1>1, <1>7 DEF Holds
  <2> QED BY <1>9, <2>1 DEF Calm, NothingOpen
<1>15. OneRunning' /\ left'.stall = 0
  BY <1>1 DEF OneRunning, Calm
<1> QED BY <1>11, <1>12, <1>13, <1>14, <1>15 DEF Calm

\* What a pod at work takes is nobody's yet, and not its own: its own has a reply.
LEMMA CalmTakes ==
    ASSUME Inv, Calm, NEW w \in Pods, TakeBack(w) \/ TakePending(w)
    PROVE  Calm'
<1> DEFINE v == pod[w]
<1>1. /\ w \in Procs /\ v \in PodRec /\ v.p \in Prompts /\ Types /\ AtWork(w) /\ v.pc \in Working
      /\ Len(rows) \in Nat /\ Placed(v, rows) /\ UNCHANGED <<job, rows, left>> /\ Holds(w)
      /\ absorbed[v.p] = 0 /\ v.pc \in {"returning", "out", "streaming"} /\ Fewer
  BY Numbered, FewerKept DEF TakeBack, TakePending, At, Inv, Types, Procs, Placed, Calm, AtWork, Working
<1>2. Others(w) /\ \A i \in Ids : (Here(i)' <=> Here(i)) /\ rows'[i] = rows[i] /\ Ids' = Ids
  BY <1>1 DEF TakeBack, TakePending, To, Go, Others, Types, Ids, Here
<1>3. /\ absorbed'[v.p] = 0
      /\ \A q \in Prompts : absorbed'[q] # 0 => absorbed[q] # 0 \/ RepliesTo(q) = {}
  <2>1. CASE TakeBack(w)
    BY <1>1, <2>1 DEF TakeBack, GivenBack
  <2>2. CASE TakePending(w)
    <3>1. v.mine > 0 /\ rows[v.mine].p = v.p /\ Here(v.mine)
      BY <1>1, <2>2 DEF TakePending, AtWork
    <3>2. v.mine \in RepliesTo(v.p)
      BY <3>1 DEF RepliesTo, Here
    <3>3. v.p \notin Pending(v.mine)
      BY <3>2 DEF Pending
    <3> QED BY <1>1, <2>2, <3>3 DEF TakePending, Pending
  <2> QED BY <2>1, <2>2
<1>4. AtWork(w)'
  <2>1. CASE TakeBack(w)
    <3>1. v.pc = "returning" /\ pod'[w] = [v EXCEPT !.pc = "ready"]
      BY <1>1, <2>1 DEF TakeBack, At, To, Go, Types
    <3>2. pod'[w].pc = "ready" /\ pod'[w].p = v.p /\ pod'[w].id = v.id
      BY <1>1, <3>1 DEF PodRec
    <3>3. v.id > 0 /\ rows[v.id].p = v.p /\ Holds(w)'
      BY <1>1, <3>1, <3>2 DEF AtWork, Holds
    <3> HIDE DEF v
    <3> QED BY <1>1, <1>3, <3>2, <3>3 DEF AtWork, Replying
  <2>2. CASE TakePending(w)
    <3>1. pod'[w] = v /\ v.pc \in {"out", "streaming"} /\ Holds(w)' /\ Ids' = Ids
      BY <1>1, <2>2 DEF TakePending, Holds, Ids
    <3>2. /\ v.mine > 0 /\ rows[v.mine].p = v.p
          /\ v.pc = "streaming" => \A i \in Ids : rows[i].st = "open" /\ rows[i].p = v.p => i = v.id
      BY <1>1, <3>1 DEF AtWork, Replying
    <3> HIDE DEF v
    <3> QED BY <1>1, <1>3, <3>1, <3>2 DEF AtWork, Replying
  <2> QED BY <2>1, <2>2
<1>5. \A u \in Pods : AtWork(u)'
  BY <1>1, <1>2, <1>4, Alone
<1>6. /\ OneRunning' /\ left'.stall = 0
      /\ \A q \in Prompts : job'[q].st = "succeeded" => job[q].st = "succeeded"
  BY <1>1 DEF OneRunning, Calm
<1> QED BY <1>1, <1>3, <1>5, <1>6, CalmSteps

LEMMA CalmStream ==
    ASSUME Inv, Calm, NEW w \in Pods, Stream(w)
    PROVE  Calm'
<1> DEFINE id == pod[w].id
           r == [rows[id] EXCEPT !.shown = TRUE]
<1>1. /\ w \in Procs /\ pod[w].pc \in Working /\ Types /\ id \in Ids /\ rows[id] \in RowRec
      /\ UNCHANGED <<absorbed, job, pod, left>>
  BY Numbered DEF Stream, At, Here, Inv, Procs, Working
<1>2. r \in RowRec /\ r.p = rows[id].p /\ r.a = rows[id].a /\ r.st = rows[id].st
  BY <1>1 DEF RowRec
<1>3. rows' = [rows EXCEPT ![id] = r]
  BY DEF Stream
<1>4. Fewer
  <2> HIDE DEF id, r
  <2>1. RowsGrow /\ Ids' = Ids /\ rows'[id] = r /\ \A k \in Ids \ {id} : rows'[k] = rows[k]
    BY <1>1, <1>2, <1>3, Written
  <2> QED BY <1>2, <2>1 DEF Fewer
<1>5. Others(w) /\ left'.stall = 0
  BY <1>1 DEF Others, Calm
<1>6. AtWork(w)'
  BY <1>1, <1>4, StillAtWork
<1>7. /\ \A u \in Pods : job'[pod[u].p] = job[pod[u].p] /\ absorbed'[pod[u].p] = absorbed[pod[u].p]
      /\ \A q \in Prompts : absorbed'[q] = absorbed[q] /\ job'[q] = job[q]
  BY <1>1
<1> QED BY <1>1, <1>4, <1>5, <1>6, <1>7, CalmMoves

\* The reply that closes was the only one that could be open.
LEMMA CalmClose ==
    ASSUME Inv, Calm, NEW w \in Pods, Close(w)
    PROVE  Calm'
<1> DEFINE v == pod[w]
           how == IF v.parks THEN "parked" ELSE "succeeded"
           closed == Closed(job[v.p], how)
           j == IF how = "parked" THEN [closed EXCEPT !.tries = @ - 1] ELSE closed
           r == [rows[v.id] EXCEPT !.st = "closed", !.how = how]
<1>1. /\ w \in Procs /\ v \in PodRec /\ v.pc = "closing" /\ v.p \in Prompts /\ Types /\ Holds(w)
      /\ AtWork(w) /\ Placed(v, rows) /\ job[v.p] \in JobRec /\ v.pc \in Working
      /\ UNCHANGED <<absorbed, left>> /\ pod' = [pod EXCEPT ![w] = Idle]
  BY Numbered DEF Close, At, Go, Inv, Types, Procs, Placed, Calm, AtWork, Working
<1>2. Others(w) /\ pod'[w].pc \notin Working /\ left'.stall = 0
  BY <1>1 DEF Others, Types, Idle, Working, Calm
<1>3. CASE ~Here(v.id)
  <2>1. rows' = rows /\ job' = job
    BY <1>3 DEF Close
  <2> QED BY <1>1, <1>2, <2>1, CalmStops
<1>4. CASE Here(v.id)
  <2>1. rows' = [rows EXCEPT ![v.id] = r] /\ job' = [job EXCEPT ![v.p] = j]
    BY <1>1, <1>4 DEF Close, StillHeld
  <2>2. v.id \in Ids /\ rows[v.id] \in RowRec /\ rows[v.id].p = v.p /\ rows[v.id].st # "deleted"
    BY <1>1, <1>4, Numbered DEF Here, Placed, Replying
  <2>3. r \in RowRec /\ r.p = v.p /\ r.a = rows[v.id].a /\ r.st = "closed"
    BY <2>2 DEF RowRec, RowStates
  <2>4. j.st \in {"parked", "succeeded"}
    BY <1>1 DEF Closed, JobRec
  <2>5. \A i \in Ids : rows[i].st = "open" /\ rows[i].p = v.p => i = v.id
    BY <1>1 DEF AtWork, Replying
  <2> HIDE DEF r, j
  <2>6. Fewer /\ rows'[v.id] = r /\ \A k \in Ids \ {v.id} : rows'[k] = rows[k]
    <3> HIDE DEF v
    <3>1. RowsGrow /\ Ids' = Ids /\ rows'[v.id] = r /\ \A k \in Ids \ {v.id} : rows'[k] = rows[k]
      BY <1>1, <2>1, <2>2, <2>3, Written
    <3> QED BY <2>2, <2>3, <3>1 DEF Fewer
  <2>7. \A i \in Ids : rows'[i].p = v.p => rows'[i].st # "open"
    BY <2>3, <2>5, <2>6
  <2>8. \A q \in Prompts : job'[q] = job[q] \/ (q = v.p /\ job'[q].st \in {"parked", "succeeded"})
    BY <1>1, <2>1, <2>4 DEF Types
  <2>9. AtWork(w)'
    BY <1>2 DEF AtWork
  <2>10. \A u \in Pods : AtWork(u)'
    BY <1>1, <1>2, <2>9, Alone
  <2>11. OneRunning'
    BY <2>8 DEF OneRunning, Calm
  <2>12. \A q \in Prompts : job'[q].st = "succeeded" => job[q].st = "succeeded"
            \/ \A i \in Ids : rows'[i].p = q => rows'[i].st # "open"
    BY <2>7, <2>8
  <2> QED BY <1>1, <1>2, <2>6, <2>10, <2>11, <2>12, CalmSteps
<1> QED BY <1>3, <1>4

LEMMA CalmInit ==
    ASSUME PromptsAssumption, Stalls = 0, Init
    PROVE  Calm
<1>1. \A w \in Pods : AtWork(w)
  BY DEF Init, AtWork, Idle, Working, Procs
<1> QED BY <1>1 DEF Init, Calm, OneRunning, NoJob, Attempts, TakenBare, NothingOpen, Ids

LEMMA CalmNext ==
    ASSUME Inv, Calm, [Next]_vars
    PROVE  Calm'
<1>1. CASE UNCHANGED vars
  BY <1>1 DEF vars, Calm, AtWork, Holds, Ids, Here, OneRunning, Attempts, TakenBare, RepliesTo,
              NothingOpen
<1>2. ASSUME NEW p \in Prompts, Send(p) \/ EnqueueTurn(p) \/ RetryTurn(p) \/ Answer(p) \/ Reap(p)
      PROVE  Calm'
  BY <1>2, CalmJobSteps, CalmReap DEF JobSteps
<1>3. ASSUME NEW w \in Pods, Turn(w) \/ CannotPrepare(w) \/ TakePending(w) \/ Stream(w)
                             \/ HandBack(w) \/ Crash(w)
      PROVE  Calm'
  <2>1. CASE \E p \in Prompts : Take(w, p)
    BY <2>1, CalmTake
  <2>2. CASE JobAndPodSteps(w)
    BY <2>2, CalmJobAndPodSteps DEF Procs
  <2>3. CASE PodSteps(w)
    BY <2>3, CalmPodSteps
  <2>4. CASE AttemptFor(w) \/ ClaimForTurn(w) \/ ClaimForReport(w) \/ TakeBack(w) \/ TakePending(w)
    BY <2>4, CalmAttemptFor, CalmClaims, CalmTakes
  <2>5. CASE Stream(w) \/ Close(w)
    BY <2>5, CalmStream, CalmClose
  <2>6. CASE Seal(w) \/ Discard(w)
    BY <2>6, CalmAbandons DEF Procs
  <2> QED BY <1>3, <2>1, <2>2, <2>3, <2>4, <2>5, <2>6 DEF Turn, Abandon, JobAndPodSteps, PodSteps
<1>4. CASE Abandon(Reaper)
  <2>1. CASE Seal(Reaper) \/ Discard(Reaper)
    BY <2>1, CalmAbandons DEF Procs
  <2>2. CASE RecordFailure(Reaper)
    BY <2>2, CalmJobAndPodSteps DEF JobAndPodSteps, Procs
  <2> QED BY <1>4, <2>1, <2>2 DEF Abandon
<1> QED BY <1>1, <1>2, <1>3, <1>4 DEF Next

\* While no lease lapses under a pod that goes on (work.rs, report; jobs/store.rs,
\* reap_abandoned), no reply is left open behind a turn that succeeded, and no message is
\* answered both by the turn that took it and by its own (routing.rs, take_pending).
THEOREM CalmAnswers ==
    ASSUME PromptsAssumption, Stalls = 0
    PROVE  Spec => [](NothingOpen /\ AnsweredOnce)
<1>1. Init => Inv /\ Calm
  BY InitInv, CalmInit
<1>2. (Inv /\ Calm) /\ [Next]_vars => (Inv /\ Calm)'
  BY NextInv, CalmNext
<1>3. Calm => NothingOpen /\ AnsweredOnce
  BY DEF Calm, TakenBare, AnsweredOnce
<1> QED BY <1>1, <1>2, <1>3, PTL DEF Spec

-----------------------------------------------------------------------------
(* What was shown stays, while nobody asks again for a turn either         *)

HasReply == {"returning", "ready", "out", "reporting", "streaming", "checking", "closing"}

\* The attempt a pod settles on is not final, nor is the reply it has; what waits on an
\* approval was shown.
Showing(w) ==
    LET v == pod[w] IN
    /\ v.pc = "claiming" => \A i \in Ids :
          Here(i) /\ rows[i].p = v.p /\ rows[i].a = v.a => rows[i].st = "open"
    /\ v.pc \in HasReply => v.id > 0 /\ rows[v.id].p = v.p /\ rows[v.id].st = "open"
    /\ v.pc \in Working /\ v.parks => v.pc \in {"checking", "closing"} /\ rows[v.id].shown

\* Whoever gives a turn up has its lease, or it failed; and seals before it deletes.
SealedFirst(p) == \A i \in Ids : rows[i].p = p /\ rows[i].shown => rows[i].st # "open"
Ending(w) ==
    pod[w].pc \in GivingUp =>
        /\ Holds(w) \/ job[pod[w].p].st = "failed"
        /\ pod[w].pc = "discarding" => SealedFirst(pod[w].p)

\* A final reply said something, or is the answer; what was shown is there.
Said == \A i \in Ids :
    /\ rows[i].st \in {"sealed", "closed"} => rows[i].shown \/ rows[i].how = "succeeded"
    /\ rows[i].shown => rows[i].st # "deleted"

Seen ==
    /\ left.retry = 0 /\ Said
    /\ \A w \in Pods : Showing(w)
    /\ \A w \in Procs : Ending(w)

\* None of a turn's replies opens, or is shown while open.
Unseen(p) ==
    \A i \in Ids' : rows'[i].p = p /\ rows'[i].shown /\ rows'[i].st = "open" =>
        i \in Ids /\ rows[i].p = p /\ rows[i].shown /\ rows[i].st = "open"
SameReplies(p) ==
    Ids' = Ids /\ \A i \in Ids : rows'[i].p = rows[i].p /\ (rows[i].p = p => rows'[i] = rows[i])

\* Whoever gives a turn up holds it, or it failed: no other step moves it.
LEMMA EndingStays ==
    ASSUME Inv, Seen, NEW u \in Procs, pod'[u] = pod[u],
           pod[u].pc \in GivingUp => job'[pod[u].p] = job[pod[u].p] /\ Unseen(pod[u].p)
    PROVE  Ending(u)'
<1>1. Holds(u) /\ job'[pod[u].p] = job[pod[u].p] => Holds(u)'
  BY DEF Holds
<1> QED BY <1>1 DEF Ending, Seen, SealedFirst, Unseen

LEMMA ShowingStays ==
    ASSUME Inv, Seen, NEW u \in Pods, pod'[u] = pod[u],
           pod[u].pc \in Working => SameReplies(pod[u].p)
    PROVE  Showing(u)'
<1> DEFINE v == pod[u]
<1>1. CASE v.pc \notin Working
  BY <1>1 DEF Showing, Working, HasReply
<1>2. CASE v.pc \in Working
  <2>1. /\ Showing(u) /\ v \in PodRec /\ Placed(v, rows) /\ Len(rows) \in Nat
        /\ Ids' = Ids
        /\ \A i \in Ids : rows'[i].p = rows[i].p /\ (rows[i].p = v.p => rows'[i] = rows[i])
    BY <1>2, Numbered DEF Inv, Types, Procs, Seen, SameReplies
  <2>2. v.id > 0 => v.id \in Ids
    BY <2>1 DEF Placed, PodRec, Ids
  <2>3. \A i \in Ids : rows[i].p = v.p => (Here(i)' <=> Here(i))
    BY <2>1 DEF Here
  <2>4. v.pc \in HasReply => rows'[v.id] = rows[v.id]
    BY <2>1, <2>2 DEF Showing
  <2>5. v.pc \in Working /\ v.parks => v.pc \in HasReply
    BY <2>1 DEF Showing, HasReply
  <2> HIDE DEF v
  <2> QED BY <2>1, <2>3, <2>4, <2>5 DEF Showing, v
<1> QED BY <1>1, <1>2

\* A step of one pod, or of the sweep.
LEMMA SeenSteps ==
    ASSUME Inv, Seen, NEW w \in Procs, Others(w), left'.retry = 0, Said', Ending(w)',
           w \in Pods => Showing(w)',
           \A u \in Procs \ {w} : pod[u].pc \in GivingUp =>
              job'[pod[u].p] = job[pod[u].p] /\ Unseen(pod[u].p),
           \A u \in Pods \ {w} : pod[u].pc \in Working => SameReplies(pod[u].p)
    PROVE  Seen'
<1>1. ASSUME NEW u \in Procs, u # w PROVE Ending(u)'
  BY <1>1, EndingStays DEF Others
<1>2. ASSUME NEW u \in Pods, u # w PROVE Showing(u)'
  BY <1>2, ShowingStays DEF Others, Procs
<1> QED BY <1>1, <1>2 DEF Seen

\* One that writes no reply.
LEMMA SeenMoves ==
    ASSUME Inv, Seen, NEW w \in Procs, Others(w), rows' = rows, left'.retry = 0, Ending(w)',
           w \in Pods => Showing(w)',
           \A u \in Procs \ {w} : pod[u].pc \in GivingUp => job'[pod[u].p] = job[pod[u].p]
    PROVE  Seen'
<1>1. Ids' = Ids
  BY DEF Ids
<1>2. Said' /\ \A p : Unseen(p) /\ SameReplies(p)
  BY <1>1 DEF Said, Seen, Unseen, SameReplies
<1> QED BY <1>2, SeenSteps

\* What a pod does to the turn it holds is nothing to whoever gives another up.
LEMMA OthersEnd ==
    ASSUME Inv, Seen, NEW w \in Procs,
           job' = job \/ (Holds(w) /\ \E j : job' = [job EXCEPT ![pod[w].p] = j])
    PROVE  \A u \in Procs \ {w} : pod[u].pc \in GivingUp => job'[pod[u].p] = job[pod[u].p]
<1> SUFFICES ASSUME NEW u \in Procs, u # w, pod[u].pc \in GivingUp
             PROVE  job'[pod[u].p] = job[pod[u].p]
  OBVIOUS
<1>1. (Holds(u) \/ job[pod[u].p].st = "failed") /\ pod[u].p \in Prompts
  BY DEF Seen, Ending, GivingUp, Inv, Placed
<1>2. Holds(w) => pod[w].p # pod[u].p
  BY <1>1 DEF Holds
<1> QED BY <1>1, <1>2 DEF Inv, Types

\* Nobody works on a turn that somebody else gives up.
LEMMA Apart ==
    ASSUME Inv, Calm, Seen, NEW w \in Pods, NEW u \in Procs, u # w,
           pod[w].pc \in Working, pod[u].pc \in GivingUp
    PROVE  pod[w].p # pod[u].p
<1>1. Holds(w) /\ (Holds(u) \/ job[pod[u].p].st = "failed")
  BY DEF Calm, AtWork, Seen, Ending
<1> QED BY <1>1 DEF Holds

\* What is not written over keeps what it was.
LEMMA NoneWritten ==
    ASSUME Seen, rows' = rows
    PROVE  ShownKept
BY DEF ShownKept, Seen, Said

\* The steps of a message or of the queue.
LEMMA SeenJobSteps ==
    ASSUME Inv, Calm, Seen, NEW p \in Prompts, JobSteps(p) \/ Reap(p)
    PROVE  Seen'
<1>1. rows' = rows /\ left \in Left /\ left.retry = 0 /\ left.stall = 0 /\ Types /\ job[p] \in JobRec
  BY DEF JobSteps, Send, EnqueueTurn, RetryTurn, Answer, Reap, Inv, Types, Seen, Calm
<1>2. ~Spent("retry") /\ ~Spent("stall")
  BY <1>1 DEF Spent, Left
<1>3. left' = left
  BY <1>2 DEF JobSteps, Send, EnqueueTurn, RetryTurn, Answer, Reap, Lapsed
<1>4. \A u \in Procs : pod[u].pc \in GivingUp => job'[pod[u].p] = job[pod[u].p]
  <2> SUFFICES ASSUME NEW u \in Procs, pod[u].pc \in GivingUp
               PROVE  job'[pod[u].p] = job[pod[u].p]
    OBVIOUS
  <2>1. (Holds(u) \/ job[pod[u].p].st = "failed") /\ pod[u].p \in Prompts
    BY DEF Seen, Ending, GivingUp, Inv, Placed
  <2>2. job' = job \/ \E j : job' = [job EXCEPT ![p] = j]
    BY DEF JobSteps, Send, EnqueueTurn, RetryTurn, Answer, Reap
  <2>3. CASE JobSteps(p)
    <3>1. job' = job \/ job[p].st \in {"none", "parked"}
      BY <1>2, <2>3 DEF JobSteps, Send, EnqueueTurn, RetryTurn, Answer
    <3> QED BY <1>1, <2>1, <2>2, <3>1 DEF Holds, Types
  <2>4. CASE Reap(p)
    <3>1. job[p].st = "running" /\ pod[job[p].holder].p # p
      BY <1>2, <2>4 DEF Reap, Lapsed
    <3> QED BY <1>1, <2>1, <2>2, <3>1 DEF Holds, Types
  <2> QED BY <2>3, <2>4
<1>5. CASE pod' = pod
  <2>1. Reaper \in Procs /\ Others(Reaper) /\ Reaper \notin Pods
    BY <1>5, Bounds DEF Procs, Others, Inv
  <2>2. \A q : Unseen(q)
    BY <1>1 DEF Unseen, Ids
  <2>3. Ending(Reaper)'
    BY <1>4, <1>5, <2>1, <2>2, EndingStays
  <2> QED BY <1>1, <1>3, <1>4, <2>1, <2>3, SeenMoves
<1>6. CASE pod' # pod
  <2>1. /\ Reap(p) /\ pod' = [pod EXCEPT ![Reaper] = [Idle EXCEPT !.pc = "sealing", !.p = p]]
        /\ job' = [job EXCEPT ![p] = FailedAs(job[p], FALSE)] /\ job[p].tries >= MaxAttempts
    BY <1>6 DEF Reap, Go, JobSteps, Send, EnqueueTurn, RetryTurn, Answer
  <2>2. Reaper \in Procs /\ Others(Reaper) /\ Reaper \notin Pods
    BY <1>1, <2>1, Bounds DEF Procs, Others, Inv, Types
  <2>3. pod'[Reaper].pc = "sealing" /\ pod'[Reaper].p = p
    BY <1>1, <2>1, <2>2 DEF Types, Idle
  <2>4. job'[p].st = "failed"
    BY <1>1, <2>1 DEF FailedAs, Closed, JobRec, Types
  <2>5. Ending(Reaper)'
    BY <2>3, <2>4 DEF Ending
  <2> QED BY <1>1, <1>3, <1>4, <2>2, <2>5, SeenMoves
<1> QED BY <1>5, <1>6

LEMMA SeenTake ==
    ASSUME Inv, Calm, Seen, NEW w \in Pods, NEW p \in Prompts, Take(w, p)
    PROVE  Seen'
<1>1. /\ UNCHANGED <<rows, left>> /\ Types /\ w \in Procs /\ left.retry = 0
      /\ pod' = [pod EXCEPT ![w] = [Idle EXCEPT !.pc = "taken", !.p = p]]
      /\ job' = [job EXCEPT ![p] = [job[p] EXCEPT !.st = "running", !.holder = w, !.tries = @ + 1]]
      /\ job[p].st = "pending" /\ \A q \in Prompts : job[q].st # "running"
  BY DEF Take, Go, Inv, Types, Procs, Seen
<1>2. Others(w) /\ pod'[w] = [Idle EXCEPT !.pc = "taken", !.p = p]
  BY <1>1 DEF Others, Types
<1>3. pod'[w].pc = "taken" /\ pod'[w].parks = FALSE
  BY <1>2 DEF Idle
<1>4. Showing(w)' /\ Ending(w)'
  BY <1>3 DEF Showing, Ending, HasReply, GivingUp
<1>5. ASSUME NEW u \in Procs, pod[u].pc \in GivingUp PROVE job'[pod[u].p] = job[pod[u].p]
  <2>1. (Holds(u) \/ job[pod[u].p].st = "failed") /\ pod[u].p \in Prompts
    BY <1>5 DEF Seen, Ending, GivingUp, Inv, Placed
  <2>2. pod[u].p # p
    BY <1>1, <2>1 DEF Holds
  <2> QED BY <1>1, <2>1, <2>2 DEF Types
<1> QED BY <1>1, <1>2, <1>4, <1>5, SeenMoves

\* A turn that cannot be prepared is failed before it is given up.
LEMMA SeenJobAndPodSteps ==
    ASSUME Inv, Calm, Seen, NEW w \in Procs, JobAndPodSteps(w)
    PROVE  Seen'
<1> DEFINE v == pod[w]
           j == job[v.p]
<1>1. /\ rows' = rows /\ Types /\ left \in Left /\ left.retry = 0 /\ v \in PodRec /\ v.p \in Prompts
      /\ j \in JobRec
  BY DEF JobAndPodSteps, Nothing, CannotPrepare, RecordFailure, HandBack, At, Inv, Types, Seen, Placed
<1>2. left'.retry = 0
  <2>1. left' = left \/ left' = [left EXCEPT !["back"] = @ - 1]
    BY DEF JobAndPodSteps, Nothing, CannotPrepare, RecordFailure, HandBack, Spent
  <2> QED BY <1>1, <2>1 DEF Left
<1>3. job' = job \/ (Holds(w) /\ \E k : job' = [job EXCEPT ![v.p] = k])
  BY DEF JobAndPodSteps, Nothing, CannotPrepare, RecordFailure, HandBack
<1>4. Others(w) /\ Ending(w)' /\ (w \in Pods => Showing(w)')
  <2>1. CASE pod' = [pod EXCEPT ![w] = Idle]
    <3>1. Others(w) /\ pod'[w].pc = "idle"
      BY <1>1, <2>1 DEF Others, Types, Idle
    <3> QED BY <3>1 DEF Ending, GivingUp, Showing, HasReply, Working
  <2>2. CASE pod' # [pod EXCEPT ![w] = Idle]
    <3>1. /\ CannotPrepare(w) /\ pod' = [pod EXCEPT ![w] = [v EXCEPT !.pc = "sealing"]]
          /\ j.tries >= MaxAttempts
      BY <2>2 DEF JobAndPodSteps, Nothing, CannotPrepare, RecordFailure, HandBack, To, Go
    <3>2. Others(w) /\ pod'[w].pc = "sealing" /\ pod'[w].p = v.p
      BY <1>1, <3>1 DEF Others, Types, PodRec
    <3>3. w \in Pods /\ v.pc \in Working
      BY <3>1 DEF CannotPrepare, Working, Inv, Procs, Waiting
    <3>4. Holds(w)
      BY <3>3 DEF Calm, AtWork
    <3>5. job' = [job EXCEPT ![v.p] = FailedAs(j, FALSE)]
      BY <3>1, <3>4 DEF CannotPrepare
    <3>6. job'[v.p].st = "failed"
      BY <1>1, <3>1, <3>5 DEF FailedAs, Closed, JobRec, Types
    <3> QED BY <3>2, <3>6 DEF Ending, Showing, HasReply, Working
  <2> QED BY <2>1, <2>2
<1> QED BY <1>1, <1>2, <1>3, <1>4, OthersEnd, SeenMoves

\* A pod that goes on has the same reply, and one that gives up has the lease.
LEMMA SeenPodSteps ==
    ASSUME Inv, Calm, Seen, NEW w \in Pods, PodSteps(w) \/ TakeBack(w) \/ TakePending(w)
    PROVE  Seen'
<1> DEFINE v == pod[w]
           u == pod'[w]
<1>1. /\ w \in Procs /\ v \in PodRec /\ left \in Left /\ left.retry = 0 /\ Types
      /\ UNCHANGED <<job, rows>>
      /\ Showing(w) /\ AtWork(w) /\ Placed(v, rows) /\ Ids' = Ids /\ Len(rows) \in Nat
  BY Numbered DEF Inv, Types, Procs, Seen, Calm, Ids, PodSteps, Begin, HandOut, Report, Done, Awaits,
                  Breaks, CheckLease, CheckFailure, Crash, TakeBack, TakePending
<1>2. left'.retry = 0
  <2>1. left' = left \/ \E k \in {"park", "crash"} : left' = [left EXCEPT ![k] = @ - 1]
    BY DEF PodSteps, Begin, HandOut, Report, Done, Awaits, Breaks, CheckLease, CheckFailure, Crash,
           Spent, TakeBack, TakePending
  <2> QED BY <1>1, <2>1 DEF Left
<1>3. pod' = pod \/ \E r : pod' = [pod EXCEPT ![w] = r]
  BY DEF PodSteps, Begin, HandOut, Report, Done, Awaits, Breaks, CheckLease, CheckFailure, Crash,
         To, Go, TakeBack, TakePending
<1>4. Others(w)
  BY <1>1, <1>3 DEF Others, Types
\* How it goes on.
<1>5. \/ u.pc \in {"idle", "deciding", "recording", "failing"} /\ u.parks = FALSE
      \/ u.pc \in {"idle", "recording"}
      \/ u.pc = "sealing" /\ u.p = v.p /\ Holds(w)
      \/ /\ v.pc \in HasReply /\ u.pc \in HasReply /\ u.p = v.p /\ u.id = v.id
         /\ u.parks = v.parks \/ (u.parks /\ u.pc = "checking" /\ (Here(v.id) => rows[v.id].shown))
         /\ v.pc \in {"checking", "closing"} => u.pc \in {"checking", "closing"}
  <2>1. CASE pod' = [pod EXCEPT ![w] = Idle]
    <3>1. u.pc = "idle"
      BY <1>1, <2>1 DEF Types, Idle
    <3> QED BY <3>1
  <2>2. CASE Begin(w)
    <3>1. v.pc = "taken" /\ u = [v EXCEPT !.pc = "deciding"]
      BY <1>1, <2>2 DEF Begin, At, To, Go, Types
    <3>2. u.pc = "deciding" /\ u.parks = v.parks /\ v.parks \in BOOLEAN
      BY <1>1, <3>1 DEF PodRec
    <3>3. ~v.parks
      BY <1>1, <3>1 DEF Showing, Working
    <3> HIDE DEF u, v
    <3> QED BY <3>2, <3>3
  <2>3. CASE \E good \in BOOLEAN : Breaks(w, good)
    <3>1. PICK good \in BOOLEAN : v.pc = "streaming" /\ u = [v EXCEPT !.pc = "failing", !.good = good]
      BY <1>1, <2>3 DEF Breaks, At, Go, Types
    <3>2. u.pc = "failing" /\ u.parks = v.parks /\ v.parks \in BOOLEAN
      BY <1>1, <3>1 DEF PodRec
    <3>3. ~v.parks
      BY <1>1, <3>1 DEF Showing, Working
    <3> HIDE DEF u, v
    <3> QED BY <3>2, <3>3
  <2>4. CASE CheckFailure(w) /\ Holds(w)
    <3>1. u = [v EXCEPT !.pc = "sealing"] \/ u = [v EXCEPT !.pc = "recording"]
      BY <1>1, <2>4 DEF CheckFailure, At, To, Go, Types
    <3>2. u.pc \in {"sealing", "recording"} /\ u.p = v.p
      BY <1>1, <3>1 DEF PodRec
    <3> HIDE DEF u, v
    <3> QED BY <3>2, <2>4
  <2>5. CASE /\ \/ HandOut(w) \/ Report(w) \/ Done(w) \/ Awaits(w) \/ CheckLease(w)
                \/ TakeBack(w) \/ TakePending(w)
             /\ pod' # [pod EXCEPT ![w] = Idle]
    <3>1. /\ v.pc \in HasReply
          /\ \/ u \in {[v EXCEPT !.pc = "out", !.mine = v.id], [v EXCEPT !.pc = "reporting"],
                       [v EXCEPT !.pc = "ready"], v}
                /\ v.pc \in {"ready", "out", "returning", "streaming"}
             \/ u \in {[v EXCEPT !.pc = "checking"], [v EXCEPT !.pc = "closing"]}
             \/ u = [v EXCEPT !.pc = "checking", !.parks = TRUE] /\ (Here(v.id) => rows[v.id].shown)
      BY <1>1, <2>5 DEF HandOut, Report, Done, Awaits, CheckLease, TakeBack, TakePending, At, To, Go,
                        Types, HasReply
    <3>2. /\ u.pc \in HasReply /\ u.p = v.p /\ u.id = v.id
          /\ u.parks = v.parks \/ (u.parks /\ u.pc = "checking" /\ (Here(v.id) => rows[v.id].shown))
          /\ v.pc \in {"checking", "closing"} => u.pc \in {"checking", "closing"}
      BY <1>1, <3>1 DEF PodRec, HasReply
    <3> HIDE DEF u, v
    <3> QED BY <3>1, <3>2
  <2>6. CASE Crash(w) \/ (CheckFailure(w) /\ ~Holds(w))
    BY <2>1, <2>6 DEF Crash, CheckFailure, Go
  <2> QED BY <2>1, <2>2, <2>3, <2>4, <2>5, <2>6 DEF PodSteps
<1>6. Ending(w)'
  <2>1. u.pc = "sealing" /\ u.p = v.p /\ Holds(w) => Holds(w)'
    BY <1>1 DEF Holds
  <2>2. u.pc \in GivingUp => u.pc = "sealing" /\ u.p = v.p /\ Holds(w)
    BY <1>5 DEF GivingUp, HasReply
  <2> QED BY <2>1, <2>2 DEF Ending
<1>7. Showing(w)'
  <2>1. CASE v.pc \in HasReply /\ u.pc \in HasReply /\ u.p = v.p /\ u.id = v.id
    <3>1. v.id > 0 /\ rows[v.id].p = v.p /\ rows[v.id].st = "open" /\ v.id \in Ids
      BY <1>1, <2>1 DEF Showing, Placed, PodRec, Ids
    <3>2. Here(v.id) /\ (v.parks => v.pc \in {"checking", "closing"} /\ rows[v.id].shown)
      BY <1>1, <2>1, <3>1 DEF Showing, Here, HasReply, Working
    <3>3. u.parks => u.pc \in {"checking", "closing"} /\ rows[u.id].shown
      BY <1>5, <2>1, <3>2 DEF HasReply
    <3> QED BY <1>1, <2>1, <3>1, <3>3 DEF Showing, HasReply
  <2>2. CASE ~(v.pc \in HasReply /\ u.pc \in HasReply /\ u.p = v.p /\ u.id = v.id)
    <3>1. /\ u.pc \in {"idle", "deciding", "recording", "failing", "sealing"}
          /\ u.pc \in Working => ~u.parks
      BY <1>5, <2>2 DEF Working
    <3> QED BY <3>1 DEF Showing, HasReply
  <2> QED BY <2>1, <2>2
<1> QED BY <1>1, <1>2, <1>4, <1>6, <1>7, SeenMoves

\* A pod at work writes only its turn's replies, which nobody gives up.
LEMMA SeenWrites ==
    ASSUME Inv, Calm, Seen, NEW w \in Pods, pod[w].pc \in Working, Others(w), left' = left, Said',
           pod'[w].pc \in Working \cup {"idle"}, Showing(w)', RowsGrow,
           \A i \in Ids' : (i \in Ids /\ rows'[i] = rows[i]) \/ rows'[i].p = pod[w].p,
           job' = job \/ (Holds(w) /\ \E j : job' = [job EXCEPT ![pod[w].p] = j])
    PROVE  Seen'
<1>1. w \in Procs /\ left'.retry = 0
  BY DEF Procs, Seen
<1>2. Ending(w)'
  BY DEF Ending, GivingUp, Working
<1>3. ASSUME NEW u \in Procs, u # w, pod[u].pc \in GivingUp PROVE Unseen(pod[u].p)
  BY <1>3, Apart DEF Unseen
<1>4. \A u \in Pods \ {w} : pod[u].pc \notin Working
  BY OneAtWork
<1>5. \A u \in Procs \ {w} : pod[u].pc \in GivingUp => job'[pod[u].p] = job[pod[u].p]
  BY <1>1, OthersEnd
<1> QED BY <1>1, <1>2, <1>3, <1>4, <1>5, SeenSteps

LEMMA SeenStream ==
    ASSUME Inv, Calm, Seen, NEW w \in Pods, Stream(w)
    PROVE  Seen' /\ ShownKept
<1> DEFINE v == pod[w]
           id == v.id
           r == [rows[id] EXCEPT !.shown = TRUE]
<1>1. /\ v.pc = "streaming" /\ Types /\ id \in Ids /\ rows[id] \in RowRec /\ ~rows[id].shown
      /\ UNCHANGED <<absorbed, job, pod, left>> /\ rows' = [rows EXCEPT ![id] = r]
  BY Numbered DEF Stream, At, Here, Inv
<1>2. /\ rows[id].p = v.p /\ rows[id].st = "open" /\ ~v.parks /\ v.pc \in Working
  BY <1>1 DEF Seen, Showing, HasReply, Working
<1>3. /\ r \in RowRec /\ r.p = rows[id].p /\ r.a = rows[id].a /\ r.st = rows[id].st /\ r.shown
  BY <1>1 DEF RowRec
<1> HIDE DEF id, r
<1>4. /\ RowsGrow /\ Ids' = Ids /\ rows'[id] = r /\ \A k \in Ids \ {id} : rows'[k] = rows[k]
  BY <1>1, <1>3, Written
<1>5. Said'
  BY <1>2, <1>3, <1>4 DEF Said, Seen
<1>6. Showing(w)'
  <2>1. id > 0
    BY <1>1 DEF Seen, Showing, HasReply, id
  <2> QED BY <1>1, <1>2, <1>3, <1>4, <2>1 DEF Showing, HasReply, id
<1>7. Others(w) /\ \A i \in Ids' : (i \in Ids /\ rows'[i] = rows[i]) \/ rows'[i].p = v.p
  BY <1>1, <1>2, <1>3, <1>4 DEF Others
<1>8. pod'[w].pc \in Working
  BY <1>1, <1>2
<1>9. ShownKept
  BY <1>1, <1>4 DEF ShownKept, Seen, Said
<1> HIDE DEF v
<1>10. Seen'
  BY <1>1, <1>2, <1>4, <1>5, <1>6, <1>7, <1>8, SeenWrites DEF v
<1> QED BY <1>9, <1>10

\* The reply that closes is open; as the answer, or because it waits and was shown.
LEMMA SeenClose ==
    ASSUME Inv, Calm, Seen, NEW w \in Pods, Close(w)
    PROVE  Seen' /\ ShownKept
<1> DEFINE v == pod[w]
           how == IF v.parks THEN "parked" ELSE "succeeded"
           r == [rows[v.id] EXCEPT !.st = "closed", !.how = how]
<1>1. /\ v.pc = "closing" /\ Types /\ w \in Procs /\ Holds(w) /\ v.pc \in Working /\ v \in PodRec
      /\ left' = left /\ pod' = [pod EXCEPT ![w] = Idle] /\ Placed(v, rows) /\ Len(rows) \in Nat
  BY Numbered DEF Close, At, Go, Inv, Types, Procs, Calm, AtWork, Working
<1>2. /\ v.id \in Ids /\ rows[v.id] \in RowRec /\ rows[v.id].p = v.p /\ rows[v.id].st = "open"
      /\ v.parks => rows[v.id].shown
  BY <1>1, Numbered DEF Seen, Showing, HasReply, Working, Placed, PodRec, Ids
<1>3. rows' = [rows EXCEPT ![v.id] = r] /\ \E j : job' = [job EXCEPT ![v.p] = j]
  BY <1>1, <1>2 DEF Close, StillHeld, Here
<1>4. /\ r \in RowRec /\ r.p = v.p /\ r.a = rows[v.id].a /\ r.st = "closed" /\ r.shown = rows[v.id].shown
      /\ r.shown \/ r.how = "succeeded"
  BY <1>2 DEF RowRec, RowStates
<1> HIDE DEF r, how
<1>5. RowsGrow /\ Ids' = Ids /\ rows'[v.id] = r /\ \A k \in Ids \ {v.id} : rows'[k] = rows[k]
  <2> DEFINE id == v.id
  <2> HIDE DEF v, id
  <2> QED BY <1>1, <1>2, <1>3, <1>4, Written DEF id
<1>6. Said' /\ ShownKept
  BY <1>2, <1>4, <1>5 DEF Said, Seen, ShownKept
<1>7. Others(w) /\ pod'[w].pc = "idle"
  BY <1>1 DEF Others, Types, Idle
<1>8. Showing(w)'
  BY <1>7 DEF Showing, HasReply, Working
<1>9. \A i \in Ids' : (i \in Ids /\ rows'[i] = rows[i]) \/ rows'[i].p = v.p
  BY <1>2, <1>4, <1>5
<1> HIDE DEF v
<1>10. Seen'
  BY <1>1, <1>3, <1>5, <1>6, <1>7, <1>8, <1>9, SeenWrites DEF v
<1> QED BY <1>6, <1>10

\* What is sealed was shown, and is final after.
LEMMA Sealing ==
    ASSUME Inv, Seen, NEW i \in Ids, rows' = Sealed(rows, i)
    PROVE  /\ Said' /\ ShownKept /\ RowsGrow /\ Ids' = Ids /\ \A k \in Ids \ {i} : rows'[k] = rows[k]
           /\ rows'[i].shown => rows'[i].st # "open"
           /\ rows'[i].p = rows[i].p /\ (Here(i)' <=> Here(i))
           /\ rows'[i] = rows[i] \/ (rows'[i].st = "sealed" /\ rows'[i].shown)
<1>1. /\ RowsGrow /\ Ids' = Ids /\ \A k \in Ids \ {i} : rows'[k] = rows[k]
      /\ rows[i].st = "open" /\ rows[i].shown => rows'[i] = [rows[i] EXCEPT !.st = "sealed"]
      /\ ~(rows[i].st = "open" /\ rows[i].shown) => rows' = rows /\ rows'[i] = rows[i]
      /\ rows[i] \in RowRec
  BY Seals, Numbered DEF Inv
<1>2. \/ rows'[i] = rows[i] /\ ~(rows[i].st = "open" /\ rows[i].shown)
      \/ /\ rows[i].st = "open" /\ rows[i].shown
         /\ rows'[i].st = "sealed" /\ rows'[i].shown /\ rows'[i].p = rows[i].p
  BY <1>1 DEF RowRec
<1>3. Said' /\ ShownKept
  BY <1>1, <1>2 DEF Said, Seen, ShownKept
<1> QED BY <1>1, <1>2, <1>3 DEF Here

\* A turn goes on with an attempt that is not final.
LEMMA SeenAttemptFor ==
    ASSUME Inv, Calm, Seen, NEW w \in Pods, AttemptFor(w)
    PROVE  Seen' /\ ShownKept
<1> DEFINE v == pod[w]
           p == v.p
           a == CurrentAttempt(p)
<1>1. /\ w \in Procs /\ v \in PodRec /\ v.pc = "deciding" /\ p \in Prompts /\ Types /\ v.pc \in Working
      /\ Holds(w) /\ UNCHANGED <<job, left>> /\ ~v.parks
  BY DEF AttemptFor, At, Inv, Types, Procs, Placed, Calm, AtWork, Working, Seen, Showing
<1>2. /\ Said' /\ ShownKept /\ RowsGrow
      /\ \A i \in Ids' : (i \in Ids /\ rows'[i] = rows[i]) \/ rows'[i].p = p
      /\ \E n : /\ pod' = [pod EXCEPT ![w] = [v EXCEPT !.pc = "claiming", !.a = n]]
                /\ \A k \in Ids' : Here(k)' /\ rows'[k].p = p /\ rows'[k].a = n => rows'[k].st = "open"
  <2>1. CASE RepliesTo(p) = {}
    <3>1. rows' = rows /\ pod' = [pod EXCEPT ![w] = [v EXCEPT !.pc = "claiming", !.a = 1]]
      BY <2>1 DEF AttemptFor, Go
    <3>2. \A k \in Ids : Here(k) => rows[k].p # p
      BY <2>1 DEF RepliesTo
    <3>3. Ids' = Ids /\ \A k \in Ids : Here(k)' = Here(k)
      BY <3>1 DEF Here, Ids
    <3>4. Said' /\ ShownKept /\ RowsGrow
      BY <1>1, <3>1, <3>3, Kept, NoneWritten DEF Said, Seen
    <3> HIDE DEF v, p
    <3> QED BY <3>1, <3>2, <3>3, <3>4
  <2>2. CASE RepliesTo(p) # {}
    <3>0. PICK i \in Ids : i = TheRow(p, a)
      BY <1>1, <2>2, Latest, ItsRow
    <3> DEFINE n == NextAttempt(Sealed(rows, i), p, a, job[p].answered)
    <3>1. rows' = Sealed(rows, i) /\ pod' = [pod EXCEPT ![w] = [v EXCEPT !.pc = "claiming", !.a = n]]
      BY <2>2, <3>0 DEF AttemptFor, Go
    <3>2. /\ a \in Nat /\ i \in Ids /\ rows[i].p = p /\ rows[i].a = a /\ Here(i)
          /\ \A k \in Ids : Here(k) /\ rows[k].p = p => rows[k].a <= a /\ rows[k].a \in Nat
      BY <1>1, <2>2, <3>0, Latest, ItsRow, Numbered DEF RepliesTo, RowRec
    <3>3. n = IF (rows'[i].st # "open" /\ job[p].answered) \/ (rows'[i].st # "open" /\ rows'[i].shown)
                THEN a + 1 ELSE a
      BY <3>0, <3>1 DEF NextAttempt
    <3> HIDE DEF n
    <3>4. /\ Said' /\ ShownKept /\ RowsGrow /\ Ids' = Ids /\ \A k \in Ids \ {i} : rows'[k] = rows[k]
          /\ rows'[i].p = rows[i].p /\ (Here(i)' <=> Here(i))
          /\ rows'[i] = rows[i] \/ (rows'[i].st = "sealed" /\ rows'[i].shown)
      BY <3>1, <3>2, Sealing
    <3>5. ASSUME NEW k \in Ids', Here(k)', rows'[k].p = p, rows'[k].a = n
          PROVE  rows'[k].st = "open"
      <4>1. k \in Ids /\ Here(k) /\ rows[k].p = p /\ rows[k].a = n
        BY <3>4, <3>5 DEF RowsGrow, Here
      <4>2. rows[k].a <= a /\ rows[k].a \in Nat
        BY <3>2, <4>1
      <4>3. n = a /\ ~(rows'[i].st # "open" /\ rows'[i].shown)
        BY <3>2, <3>3, <4>1, <4>2
      <4>4. k = i
        BY <3>2, <4>1, <4>3 DEF Calm, Attempts
      <4>5. rows'[i].st \in RowStates /\ rows'[i].st # "deleted" /\ i \in Ids'
        <5>1. i \in 1..Len(rows') /\ rows' \in Seq(RowRec)
          BY <3>2, <3>4 DEF RowsGrow, Ids
        <5>2. rows'[i] \in RowRec
          BY <5>1
        <5> QED BY <3>5, <4>4, <5>2 DEF RowRec, Here
      <4>6. rows'[i].st # "open" => rows'[i].how = "succeeded" /\ rows'[i] = rows[i]
        BY <3>4, <4>3, <4>5 DEF Said, RowStates
      <4>7. rows[i].how # "succeeded"
        BY <1>1, <3>2 DEF Inv, HowDone, Holds
      <4> QED BY <4>4, <4>6, <4>7
    <3>6. \A k \in Ids' : (k \in Ids /\ rows'[k] = rows[k]) \/ rows'[k].p = p
      BY <3>2, <3>4
    <3> HIDE DEF v, p
    <3>7. \E m : /\ pod' = [pod EXCEPT ![w] = [v EXCEPT !.pc = "claiming", !.a = m]]
                 /\ \A k \in Ids' : Here(k)' /\ rows'[k].p = p /\ rows'[k].a = m => rows'[k].st = "open"
      BY <3>1, <3>5
    <3> QED BY <3>4, <3>6, <3>7
  <2> QED BY <2>1, <2>2
<1>3. PICK n : /\ pod' = [pod EXCEPT ![w] = [v EXCEPT !.pc = "claiming", !.a = n]]
               /\ \A k \in Ids' : Here(k)' /\ rows'[k].p = p /\ rows'[k].a = n => rows'[k].st = "open"
  BY <1>2
<1>4. /\ pod'[w].pc = "claiming" /\ pod'[w].p = p /\ pod'[w].a = n /\ ~pod'[w].parks /\ Others(w)
  BY <1>1, <1>3 DEF PodRec, Others, Types
<1> HIDE DEF v, p
<1>5. Showing(w)'
  BY <1>3, <1>4 DEF Showing, HasReply
<1>6. pod'[w].pc \in Working
  BY <1>4 DEF Working
<1>7. Seen'
  BY <1>1, <1>2, <1>4, <1>5, <1>6, SeenWrites DEF v, p
<1> QED BY <1>2, <1>7

\* A pod claims a reply that is open, or adds one.
LEMMA SeenClaims ==
    ASSUME Inv, Calm, Seen, NEW w \in Pods, ClaimForTurn(w) \/ ClaimForReport(w)
    PROVE  Seen' /\ ShownKept
<1> DEFINE v == pod[w]
           p == v.p
           N == Len(rows) + 1
           a == IF ClaimForTurn(w) THEN v.a ELSE CurrentAttempt(p)
           pc == IF ClaimForTurn(w) THEN "ready" ELSE "streaming"
           old == IF ClaimForTurn(w) THEN "returning" ELSE "streaming"
<1>1. /\ w \in Procs /\ v \in PodRec /\ p \in Prompts /\ Types /\ v.pc \in Working /\ Placed(v, rows)
      /\ v.pc \in {"claiming", "reporting"} /\ (v.pc = "claiming" <=> ClaimForTurn(w))
      /\ Len(rows) \in Nat /\ UNCHANGED <<job, left>> /\ ~v.parks
  BY Numbered DEF ClaimForTurn, ClaimForReport, At, Inv, Types, Procs, Placed, Working, Seen, Showing
<1>2. a \in Nat /\ a <= Len(rows) + 1
  BY <1>1, Latest DEF PodRec, Placed
<1>3. ClaimPlaceholder(w, p, a, pc, old)
  BY <1>1 DEF ClaimForTurn, ClaimForReport
\* What there is of this attempt is open.
<1>4. \A i \in AttemptAt(p, a) : rows[i].st = "open"
  <2> SUFFICES ASSUME NEW i \in AttemptAt(p, a)
               PROVE  rows[i].st = "open"
    OBVIOUS
  <2>1. i \in Ids /\ Here(i) /\ rows[i].p = p /\ rows[i].a = a
    BY DEF AttemptAt, RepliesTo
  <2>2. CASE ClaimForTurn(w)
    BY <1>1, <2>1, <2>2 DEF Seen, Showing
  <2>3. CASE ~ClaimForTurn(w)
    <3>1. v.id \in Ids /\ rows[v.id].p = p /\ rows[v.id].st = "open"
      BY <1>1, <2>3 DEF Seen, Showing, HasReply, Placed, PodRec, Ids
    <3>2. v.id \in RepliesTo(p) /\ Here(v.id)
      BY <3>1 DEF RepliesTo, Here
    <3>3. rows[v.id].a <= a /\ a <= rows[v.id].a /\ rows[v.id].a \in Nat
      BY <1>1, <2>1, <2>3, <3>1, <3>2, Latest, Numbered DEF Calm, Attempts, RowRec
    <3>4. v.id = i
      BY <1>2, <2>1, <3>1, <3>2, <3>3 DEF Calm, Attempts
    <3> QED BY <3>1, <3>4
  <2> QED BY <2>2, <2>3
<1> HIDE DEF a, pc, old
<1>5. /\ RowsGrow
      /\ \/ /\ AttemptAt(p, a) = {} /\ Len(rows') = N
            /\ \A i \in Ids : rows'[i] = rows[i]
            /\ rows'[N] = Fresh(p, a)
            /\ Go(w, [v EXCEPT !.pc = pc, !.id = N])
         \/ /\ AttemptAt(p, a) # {} /\ rows' = rows
            /\ Go(w, [v EXCEPT !.pc = old, !.id = TheRow(p, a)])
  BY <1>1, <1>2, <1>3, Claims
<1>6. /\ \A i \in Ids : i \in Ids' /\ rows'[i] = rows[i]
      /\ \A i \in Ids' \ Ids : rows'[i].p = p /\ rows'[i].st = "open" /\ ~rows'[i].shown
      /\ \E id \in Ids', k \in {pc, old} :
            /\ pod' = [pod EXCEPT ![w] = [v EXCEPT !.pc = k, !.id = id]]
            /\ rows'[id].p = p /\ rows'[id].st = "open"
  <2>1. CASE AttemptAt(p, a) = {}
    <3>1. /\ Len(rows') = N /\ rows'[N] = Fresh(p, a) /\ \A i \in Ids : rows'[i] = rows[i]
          /\ pod' = [pod EXCEPT ![w] = [v EXCEPT !.pc = pc, !.id = N]]
      BY <1>5, <2>1 DEF Go
    <3>2. Fresh(p, a).p = p /\ Fresh(p, a).st = "open" /\ ~Fresh(p, a).shown
      BY DEF Fresh
    <3>3. N \in Ids' /\ \A i \in Ids' \ {N} : i \in Ids
      BY <1>1, <3>1 DEF Ids
    <3>4. \A i \in Ids : i \in Ids'
      BY <1>1, <3>1 DEF Ids
    <3> HIDE DEF v, p, N
    <3>5. \A i \in Ids' \ Ids : i = N
      BY <3>3
    <3> QED BY <3>1, <3>2, <3>3, <3>4, <3>5
  <2>2. CASE AttemptAt(p, a) # {}
    <3>1. rows' = rows /\ pod' = [pod EXCEPT ![w] = [v EXCEPT !.pc = old, !.id = TheRow(p, a)]]
      BY <1>5, <2>2 DEF Go
    <3>2. TheRow(p, a) \in Ids /\ rows[TheRow(p, a)].p = p /\ rows[TheRow(p, a)].st = "open"
      BY <1>1, <1>4, <2>2, ItsRow DEF TheRow
    <3>3. Ids' = Ids
      BY <3>1 DEF Ids
    <3> HIDE DEF v, p
    <3> QED BY <3>1, <3>2, <3>3
  <2> QED BY <2>1, <2>2
<1>7. PICK id \in Ids', k \in {pc, old} :
         /\ pod' = [pod EXCEPT ![w] = [v EXCEPT !.pc = k, !.id = id]]
         /\ rows'[id].p = p /\ rows'[id].st = "open"
  BY <1>6
<1>8. /\ pod'[w].pc = k /\ pod'[w].p = p /\ pod'[w].id = id /\ ~pod'[w].parks /\ Others(w)
      /\ k \in {"ready", "returning", "streaming"} /\ id > 0
  BY <1>1, <1>7 DEF PodRec, Others, Types, pc, old, Ids
<1>9. Showing(w)' /\ pod'[w].pc \in Working
  BY <1>7, <1>8 DEF Showing, HasReply, Working
<1>10. Said' /\ ShownKept
  BY <1>6 DEF Said, ShownKept, Seen
<1>11. \A i \in Ids' : (i \in Ids /\ rows'[i] = rows[i]) \/ rows'[i].p = p
  BY <1>6
<1> HIDE DEF v, p
<1>12. Seen'
  BY <1>1, <1>5, <1>8, <1>9, <1>10, <1>11, SeenWrites DEF v, p
<1> QED BY <1>10, <1>12

\* Whoever gives a turn up seals what was shown of it, and deletes only what was not: it is
\* nobody else's.
LEMMA SeenAbandons ==
    ASSUME Inv, Calm, Seen, NEW w \in Procs, Seal(w) \/ Discard(w)
    PROVE  Seen' /\ ShownKept
<1> DEFINE v == pod[w]
           p == v.p
<1>1. /\ job' = job /\ left' = left /\ Types /\ p \in Prompts /\ v \in PodRec /\ v.pc \in GivingUp
      /\ Holds(w) \/ job[p].st = "failed"
  BY DEF Seal, Discard, At, Inv, Types, Placed, Seen, Ending, GivingUp
<1>2. ASSUME NEW u \in Pods, u # w, pod[u].pc \in Working PROVE pod[u].p # p
  BY <1>1, <1>2, Apart
<1>3. CASE Seal(w)
  <2> DEFINE a == CurrentAttempt(p)
  <2>1. v.pc = "sealing" /\ pod' = [pod EXCEPT ![w] = [v EXCEPT !.pc = "discarding", !.a = a]]
    BY <1>3 DEF Seal, Go, At
  <2>2. Others(w) /\ pod'[w].pc = "discarding" /\ pod'[w].p = p
    BY <1>1, <2>1 DEF Others, Types, PodRec
  <2>3. /\ Said' /\ ShownKept /\ Ids' = Ids
        /\ \A i \in Ids : rows'[i].p = rows[i].p /\ (rows[i].p # p => rows'[i] = rows[i])
        /\ \A i \in Ids : rows'[i].shown /\ rows'[i].st = "open" => rows[i].shown /\ rows[i].st = "open"
        /\ \A i \in Ids : rows'[i].p = p /\ rows'[i].shown => rows'[i].st # "open"
    <3>1. CASE AttemptAt(p, a) = {}
      <4>1. rows' = rows /\ Ids' = Ids
        BY <1>3, <3>1 DEF Seal, Ids
      <4>2. Said' /\ ShownKept
        BY <4>1, NoneWritten DEF Said, Seen
      <4>3. \A i \in Ids : rows[i].p = p => ~Here(i)
        BY <1>1, <3>1, Latest DEF RepliesTo
      <4> QED BY <4>1, <4>2, <4>3 DEF Here
    <3>2. CASE AttemptAt(p, a) # {}
      <4>1. PICK i \in Ids : i = TheRow(p, a) /\ rows[i].p = p /\ rows[i].a = a /\ Here(i)
        BY <1>1, <3>2, ItsRow
      <4>2. rows' = Sealed(rows, i)
        BY <1>3, <3>2, <4>1 DEF Seal
      <4>3. /\ Said' /\ ShownKept /\ RowsGrow /\ Ids' = Ids /\ \A k \in Ids \ {i} : rows'[k] = rows[k]
            /\ rows'[i].shown => rows'[i].st # "open"
            /\ rows'[i].p = rows[i].p
        BY <4>2, Sealing
      <4>4. ASSUME NEW k \in Ids, rows[k].p = p, rows[k].st = "open" PROVE k = i
        <5>1. Here(k) /\ k \in RepliesTo(p) /\ rows[k].a \in Nat /\ a \in Nat
          BY <1>1, <4>4, Latest, Numbered DEF Here, RepliesTo, RowRec
        <5>2. rows[k].a <= a /\ a <= rows[k].a
          BY <1>1, <4>1, <4>4, <5>1, Latest DEF Calm, Attempts
        <5> QED BY <4>1, <4>4, <5>1, <5>2 DEF Calm, Attempts
      <4> HIDE DEF p, a
      <4> QED BY <4>1, <4>3, <4>4
    <3> QED BY <3>1, <3>2
  <2>4. Ending(w)'
    <3>1. Holds(w)' \/ job'[p].st = "failed"
      BY <1>1, <2>2 DEF Holds
    <3> HIDE DEF v, p
    <3> QED BY <2>2, <2>3, <3>1 DEF Ending, SealedFirst
  <2>5. Showing(w)'
    BY <2>2 DEF Showing, HasReply, Working
  <2>6. \A u \in Procs \ {w} : Unseen(pod[u].p)
    BY <2>3 DEF Unseen
  <2>7. \A u \in Pods \ {w} : pod[u].pc \in Working => SameReplies(pod[u].p)
    BY <1>2, <2>3 DEF SameReplies
  <2>8. left'.retry = 0
    BY <1>1 DEF Seen
  <2> HIDE DEF v, p
  <2>9. Seen'
    BY <1>1, <2>2, <2>3, <2>4, <2>5, <2>6, <2>7, <2>8, SeenSteps
  <2> QED BY <2>3, <2>9
<1>4. CASE Discard(w)
  <2> DEFINE gone == {i \in AttemptAt(p, v.a) : ~SaidSomething(i)}
  <2>1. /\ v.pc = "discarding" /\ pod' = [pod EXCEPT ![w] = [v EXCEPT !.pc = "recording"]]
        /\ rows' = [i \in Ids |-> IF i \in gone THEN [rows[i] EXCEPT !.st = "deleted"] ELSE rows[i]]
    BY <1>4 DEF Discard, To, Go, At
  <2>2. Others(w) /\ pod'[w].pc = "recording"
    BY <1>1, <2>1 DEF Others, Types, PodRec
  <2>3. /\ gone \in SUBSET Ids
        /\ \A i \in gone : rows[i].p = p /\ ~(rows[i].shown /\ rows[i].st # "open")
    BY DEF AttemptAt, RepliesTo, SaidSomething
  <2>4. \A i \in gone : ~rows[i].shown
    <3>1. \A i \in Ids : rows[i].p = p /\ rows[i].shown => rows[i].st # "open"
      BY <1>1, <2>1 DEF Seen, Ending, SealedFirst
    <3> QED BY <2>3, <3>1
  <2> HIDE DEF gone
  <2>5. /\ Ids' = Ids /\ \A i \in gone : rows'[i] = [rows[i] EXCEPT !.st = "deleted"]
        /\ \A i \in Ids \ gone : rows'[i] = rows[i]
    BY <1>1, <2>1, <2>3, Deletes
  <2>6. \A i \in gone : rows'[i].st = "deleted" /\ rows'[i].shown = rows[i].shown /\ rows'[i].p = p
    BY <1>1, <2>3, <2>5, Numbered DEF RowRec
  <2>7. Said' /\ ShownKept
    BY <2>3, <2>4, <2>5, <2>6 DEF Said, ShownKept, Seen
  <2>8. Ending(w)' /\ Showing(w)'
    BY <2>2 DEF Ending, GivingUp, Showing, HasReply, Working
  <2>9. /\ \A u \in Procs \ {w} : Unseen(pod[u].p)
        /\ \A u \in Pods \ {w} : pod[u].pc \in Working => SameReplies(pod[u].p)
    BY <1>2, <2>3, <2>5, <2>6 DEF Unseen, SameReplies
  <2>10. left'.retry = 0
    BY <1>1 DEF Seen
  <2> HIDE DEF v, p
  <2>11. Seen'
    BY <1>1, <2>2, <2>7, <2>8, <2>9, <2>10, SeenSteps
  <2> QED BY <2>7, <2>11
<1> QED BY <1>3, <1>4

LEMMA SeenInit ==
    ASSUME PromptsAssumption, Retries = 0, Init
    PROVE  Seen
<1>1. \A w \in Procs : pod[w].pc = "idle" /\ pod[w] = Idle
  BY DEF Init, Idle
<1>2. /\ \A w \in Pods : Showing(w)
      /\ \A w \in Procs : Ending(w)
  BY <1>1 DEF Showing, Ending, HasReply, GivingUp, Working, Procs
<1> QED BY <1>2 DEF Init, Seen, Said, Ids

LEMMA SeenNext ==
    ASSUME Inv, Calm, Seen, [Next]_vars
    PROVE  Seen' /\ ShownKept
<1>1. CASE UNCHANGED vars
  <2>1. Seen'
    BY <1>1 DEF vars, Seen, Said, Ids, Showing, Here, Ending, Holds, SealedFirst
  <2> QED BY <1>1, <2>1, NoneWritten DEF vars
<1>2. ASSUME NEW p \in Prompts, Send(p) \/ EnqueueTurn(p) \/ RetryTurn(p) \/ Answer(p) \/ Reap(p)
      PROVE  Seen' /\ ShownKept
  <2>1. rows' = rows
    BY <1>2 DEF Send, EnqueueTurn, RetryTurn, Answer, Reap
  <2> QED BY <1>2, <2>1, NoneWritten, SeenJobSteps DEF JobSteps
<1>3. ASSUME NEW w \in Pods, Turn(w) \/ CannotPrepare(w) \/ TakePending(w) \/ Stream(w)
                             \/ HandBack(w) \/ Crash(w)
      PROVE  Seen' /\ ShownKept
  <2>1. CASE \E p \in Prompts : Take(w, p)
    BY <2>1, SeenTake, NoneWritten DEF Take
  <2>2. CASE JobAndPodSteps(w)
    <3>1. rows' = rows
      BY <2>2 DEF JobAndPodSteps, Nothing, CannotPrepare, RecordFailure, HandBack
    <3> QED BY <2>2, <3>1, SeenJobAndPodSteps, NoneWritten DEF Procs
  <2>3. CASE PodSteps(w) \/ TakeBack(w) \/ TakePending(w)
    <3>1. rows' = rows
      BY <2>3 DEF PodSteps, Begin, HandOut, Report, Done, Awaits, Breaks, CheckLease, CheckFailure, Crash,
                  TakeBack, TakePending
    <3> QED BY <2>3, <3>1, SeenPodSteps, NoneWritten
  <2>4. CASE AttemptFor(w) \/ ClaimForTurn(w) \/ ClaimForReport(w)
    BY <2>4, SeenAttemptFor, SeenClaims
  <2>5. CASE Stream(w) \/ Close(w)
    BY <2>5, SeenStream, SeenClose
  <2>6. CASE Seal(w) \/ Discard(w)
    BY <2>6, SeenAbandons DEF Procs
  <2> QED BY <1>3, <2>1, <2>2, <2>3, <2>4, <2>5, <2>6 DEF Turn, Abandon, JobAndPodSteps, PodSteps
<1>4. CASE Abandon(Reaper)
  <2>1. CASE Seal(Reaper) \/ Discard(Reaper)
    BY <2>1, SeenAbandons DEF Procs
  <2>2. CASE RecordFailure(Reaper)
    <3>1. rows' = rows
      BY <2>2 DEF RecordFailure
    <3> QED BY <2>2, <3>1, SeenJobAndPodSteps, NoneWritten DEF JobAndPodSteps, Procs
  <2> QED BY <1>4, <2>1, <2>2 DEF Abandon
<1> QED BY <1>1, <1>2, <1>3, <1>4 DEF Next

\* While, besides, nobody asks again for a turn that failed: what a reader was shown is never
\* deleted, and a finished reply never written over (work.rs, close_turn; store.rs,
\* abandon_payload_with), whichever pod dies and whatever is handed back.
THEOREM ShownStays ==
    ASSUME PromptsAssumption, Stalls = 0, Retries = 0
    PROVE  Spec => [][ShownKept]_vars
<1>1. Init => Inv /\ Calm /\ Seen
  BY InitInv, CalmInit, SeenInit
<1>2. (Inv /\ Calm /\ Seen) /\ [Next]_vars => (Inv /\ Calm /\ Seen)'
  BY NextInv, CalmNext, SeenNext
<1>3. (Inv /\ Calm /\ Seen) /\ [Next]_vars => [ShownKept]_vars
  BY SeenNext
<1> QED BY <1>1, <1>2, <1>3, PTL DEF Spec

-----------------------------------------------------------------------------
(* The turns are jobs of one serial key                                    *)

\* Along which arrow a turn moves.
Arrow(p) ==
    \/ job[p].st \in {"none", "parked", "failed"} /\ job'[p].st = "pending"
    \/ job[p].st = "pending" /\ job'[p].st = "running" /\ \A q \in Prompts : job[q].st # "running"
    \/ job[p].st = "running" /\ job'[p].st \in {"succeeded", "failed", "pending", "parked"}
OneMoves == \E p \in Prompts :
    Arrow(p) /\ \A q \in Prompts : q # p => job'[q].st = job[q].st
NoneMoves == \A q \in Prompts : job'[q].st = job[q].st

LEMMA HolderMoves ==
    ASSUME Inv, NEW w \in Procs,
           job' = job \/ (Holds(w) /\ \E j : /\ job' = [job EXCEPT ![pod[w].p] = j]
                                             /\ j.st \in {"succeeded", "failed", "pending", "parked"}),
           pod[w].p \in Prompts
    PROVE  OneMoves \/ NoneMoves
BY DEF OneMoves, NoneMoves, Arrow, Holds, Inv, Types

LEMMA StepArrows ==
    ASSUME Inv, [Next]_vars
    PROVE  OneMoves \/ NoneMoves
<1>0. Types /\ \A p \in Prompts : job[p] \in JobRec
  BY DEF Inv, Types
<1>1. CASE job' = job
  BY <1>1 DEF NoneMoves
<1>2. ASSUME NEW p \in Prompts, Send(p) \/ EnqueueTurn(p) \/ RetryTurn(p) \/ Answer(p) \/ Reap(p)
      PROVE  OneMoves \/ NoneMoves
  <2>1. CASE Send(p)
    BY <1>1, <2>1 DEF Send
  <2>2. CASE EnqueueTurn(p) \/ RetryTurn(p) \/ Answer(p)
    <3>1. \E j \in {[job[p] EXCEPT !.st = "pending"], [job[p] EXCEPT !.st = "pending", !.tries = 0],
                    [job[p] EXCEPT !.st = "pending", !.answered = TRUE]} : job' = [job EXCEPT ![p] = j]
      BY <2>2 DEF EnqueueTurn, RetryTurn, Answer
    <3>2. job'[p].st = "pending" /\ \A q \in Prompts : q # p => job'[q] = job[q]
      BY <1>0, <3>1 DEF JobRec, Types
    <3>3. job[p].st \in {"none", "parked", "failed"}
      BY <2>2 DEF EnqueueTurn, RetryTurn, Answer
    <3> QED BY <3>2, <3>3 DEF OneMoves, Arrow
  <2>3. CASE Reap(p)
    <3>1. job[p].st = "running" /\ job' = [job EXCEPT ![p] = FailedAs(job[p], FALSE)]
      BY <2>3 DEF Reap, Lapsed
    <3>2. FailedAs(job[p], FALSE).st \in {"failed", "pending"}
      BY <1>0 DEF FailedAs, Closed, JobRec
    <3> QED BY <1>0, <3>1, <3>2 DEF OneMoves, Arrow, Types
  <2> QED BY <1>2, <2>1, <2>2, <2>3
<1>3. ASSUME NEW w \in Procs, JobAndPodSteps(w) PROVE OneMoves \/ NoneMoves
  <2> DEFINE p == pod[w].p
             j == job[p]
             back == [Closed(j, IF j.rel + 1 >= MaxReleases THEN "failed" ELSE "pending")
                         EXCEPT !.rel = @ + 1, !.tries = @ - 1]
  <2>1. p \in Prompts /\ j \in JobRec /\ pod[w].good \in BOOLEAN
    BY <1>0, <1>3 DEF JobAndPodSteps, Nothing, CannotPrepare, RecordFailure, HandBack, At, Inv, Types,
                      Placed, PodRec
  <2>2. /\ Closed(j, "succeeded").st = "succeeded" /\ back.st \in {"failed", "pending"}
        /\ \A g \in BOOLEAN : FailedAs(j, g).st \in {"failed", "pending"}
    BY <2>1 DEF FailedAs, Closed, JobRec
  <2>3. job' = job \/ (Holds(w) /\ \E k \in {Closed(j, "succeeded"), FailedAs(j, FALSE),
                                            FailedAs(j, pod[w].good), back} :
                                     job' = [job EXCEPT ![p] = k])
    BY <1>3 DEF JobAndPodSteps, Nothing, CannotPrepare, RecordFailure, HandBack
  <2> HIDE DEF back
  <2>4. job' = job \/ (Holds(w) /\ \E k : /\ job' = [job EXCEPT ![p] = k]
                                          /\ k.st \in {"succeeded", "failed", "pending", "parked"})
    BY <2>1, <2>2, <2>3
  <2> QED BY <2>1, <2>4, HolderMoves
<1>4. ASSUME NEW w \in Pods, NEW p \in Prompts, Take(w, p) PROVE OneMoves \/ NoneMoves
  <2>1. /\ job' = [job EXCEPT ![p] = [job[p] EXCEPT !.st = "running", !.holder = w, !.tries = @ + 1]]
        /\ job[p].st = "pending" /\ \A q \in Prompts : job[q].st # "running"
    BY <1>4 DEF Take
  <2>2. job'[p].st = "running" /\ \A q \in Prompts : q # p => job'[q] = job[q]
    BY <1>0, <2>1 DEF JobRec, Types
  <2> QED BY <2>1, <2>2 DEF OneMoves, Arrow
<1>5. ASSUME NEW w \in Pods, Close(w) PROVE OneMoves \/ NoneMoves
  <2> DEFINE p == pod[w].p
             how == IF pod[w].parks THEN "parked" ELSE "succeeded"
             closed == Closed(job[p], how)
             j == IF how = "parked" THEN [closed EXCEPT !.tries = @ - 1] ELSE closed
  <2>1. p \in Prompts /\ w \in Procs
    BY <1>5 DEF Close, At, Inv, Placed, Procs
  <2>2. j.st \in {"succeeded", "parked"}
    BY <1>0, <2>1 DEF Closed, JobRec
  <2>3. job' = job \/ (Holds(w) /\ job' = [job EXCEPT ![p] = j])
    BY <1>5 DEF Close, StillHeld
  <2> HIDE DEF j, p
  <2>4. job' = job \/ (Holds(w) /\ \E k : /\ job' = [job EXCEPT ![p] = k]
                                          /\ k.st \in {"succeeded", "failed", "pending", "parked"})
    BY <2>2, <2>3
  <2> QED BY <2>1, <2>4, HolderMoves DEF p
<1>6. ASSUME NEW w \in Pods, Turn(w) \/ CannotPrepare(w) \/ TakePending(w) \/ Stream(w)
                             \/ HandBack(w) \/ Crash(w)
      PROVE  OneMoves \/ NoneMoves
  <2>1. \/ job' = job \/ JobAndPodSteps(w) \/ Close(w) \/ \E p \in Prompts : Take(w, p)
    BY <1>6 DEF Turn, Abandon, JobAndPodSteps, Begin, AttemptFor, ClaimForTurn, TakeBack, HandOut, Report,
                ClaimForReport, Done, Awaits, Breaks, CheckLease, CheckFailure, Seal, Discard, TakePending,
                Stream, Crash
  <2> QED BY <1>1, <1>3, <1>4, <1>5, <2>1 DEF Procs
<1>7. CASE Abandon(Reaper)
  <2>1. job' = job \/ JobAndPodSteps(Reaper)
    BY <1>7 DEF Abandon, Seal, Discard, JobAndPodSteps
  <2> QED BY <1>1, <1>3, <2>1 DEF Procs
<1>8. CASE UNCHANGED vars
  BY <1>1, <1>8 DEF vars
<1> QED BY <1>2, <1>6, <1>7, <1>8 DEF Next

\* An arrow of a turn is a step of the queue.
LEMMA ArrowsFollow ==
    ASSUME Inv, OneMoves \/ NoneMoves, OneRunning
    PROVE  [Queue!Next]_JobStates /\ OneRunning'
<1>1. CASE NoneMoves
  BY <1>1 DEF NoneMoves, JobStates, OneRunning
<1>2. CASE OneMoves
  <2>1. PICK p \in Prompts : Arrow(p) /\ \A q \in Prompts : q # p => job'[q].st = job[q].st
    BY <1>2 DEF OneMoves
  <2>2. OneRunning'
    BY <2>1 DEF OneRunning, Arrow
  <2>3. /\ JobStates' = [q \in Prompts |-> IF q = p THEN job'[p].st ELSE JobStates[q]]
        /\ JobStates[p] = IF job[p].st = "none" THEN "absent" ELSE job[p].st
    BY <2>1 DEF JobStates, Arrow
  <2>4. Queue!Move({p}, job'[p].st)
    BY <2>3 DEF Queue!Move
  <2>5. CASE job[p].st = "none" /\ job'[p].st = "pending"
    BY <2>2, <2>3, <2>4, <2>5 DEF Queue!Next, Queue!Enqueue
  <2>6. CASE job[p].st = "parked" /\ job'[p].st = "pending"
    <3>1. Queue!Resume({p})
      BY <2>3, <2>4, <2>6 DEF Queue!Resume
    <3> QED BY <2>2, <3>1 DEF Queue!Next
  <2>7. CASE job[p].st = "failed" /\ job'[p].st = "pending"
    BY <2>2, <2>3, <2>4, <2>7 DEF Queue!Next, Queue!Retry
  <2>8. CASE job[p].st = "pending" /\ job'[p].st = "running" /\ \A q \in Prompts : job[q].st # "running"
    <3>1. Queue!RunningJobs = {}
      BY <2>8 DEF Queue!RunningJobs, JobStates
    <3>2. Queue!Exclusive(Queue!RunningJobs \cup {p})
      BY <3>1 DEF Queue!Exclusive
    <3>3. Queue!Claim({p})
      BY <2>3, <2>4, <2>8, <3>2 DEF Queue!Claim
    <3> QED BY <2>2, <3>3 DEF Queue!Next
  <2>9. CASE job[p].st = "running" /\ job'[p].st \in {"succeeded", "failed", "pending", "parked"}
    <3>1. Queue!Settle(p)
      BY <2>3, <2>4, <2>9 DEF Queue!Settle
    <3> QED BY <2>2, <3>1 DEF Queue!Next
  <2> QED BY <2>1, <2>2, <2>5, <2>6, <2>7, <2>8, <2>9 DEF Arrow
<1> QED BY <1>1, <1>2

\* Whatever pods, sweeps and people do, the turns of a conversation are to the queue jobs of
\* one serial key: never two at once, each moved along an arrow of SerialQueue (work.rs,
\* worker/turn.rs; the queue that does this is JobQueue).
THEOREM Follows ==
    ASSUME PromptsAssumption
    PROVE  Spec => FollowsQueue
<1>1. Init => Inv /\ OneRunning /\ Queue!Init
  <2>1. Init => Queue!Init /\ OneRunning
    BY DEF Init, Queue!Init, JobStates, NoJob, OneRunning
  <2> QED BY <2>1, InitInv
<1>2. (Inv /\ OneRunning) /\ [Next]_vars => (Inv /\ OneRunning)' /\ [Queue!Next]_JobStates
  BY NextInv, StepArrows, ArrowsFollow
<1> QED BY <1>1, <1>2, PTL DEF Spec, FollowsQueue, Queue!Spec
=============================================================================
