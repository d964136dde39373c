---------------------------- MODULE BreakerProofs ----------------------------
(***************************************************************************)
(* Proofs about a circuit, for any number of calls and callers and any     *)
(* thresholds.                                                             *)
(*                                                                         *)
(* Nothing holds the row between the statements of a call, so a row that   *)
(* was loaded long ago may be stored over a newer one. What makes the      *)
(* evidence add up all the same is that a copy counts no more failures     *)
(* than calls have recorded: the failures a copy shows and the ones that   *)
(* are still to be recorded (Owed) are together no more than were met.     *)
(* The sightings and the callers in hand are callers that spoke.           *)
(***************************************************************************)
EXTENDS Breaker, FiniteSetTheorems, TLAPS

Evidence == grounds >= FailureThreshold \/ Cardinality(voices) >= BreadthThreshold

\* Calls that met an unreachable endpoint and have yet to record it.
Observed == {"loading", "reading"}
Owed == {c \in Calls : call[c].pc \in Observed /\ call[c].obs = "Unreachable"}

\* What a history bears out of a row, or of a call's copy of it: e says whether
\* it holds evidence, g is what was met and n what is still to be recorded.
Bears(h, e, g, n) ==
    /\ h.state # "closed" <=> h.due # Never
    /\ h.state # "closed" => e
    /\ g < FailureThreshold => h.failures + n <= g
Borne(h) == Bears(h, Evidence, grounds, Cardinality(Owed))

Witnessed ==
    /\ IsFiniteSet(voices) /\ IsFiniteSet(Owed)
    /\ \A s \in sightings : s[1] \in voices
    /\ \A c \in Calls : call[c].pc \in Observed =>
           /\ call[c].obs = "Undetermined" => call[c].caller \in voices
           /\ call[c].obs = "Retired" => grounds = FailureThreshold

Inv ==
    /\ TypeOK
    /\ Witnessed
    /\ Borne(row)
    /\ \A c \in Calls : Borne(call[c].health)

CallRecord == [pc : {"idle", "claiming", "calling", "loading", "reading", "storing"},
               caller : Callers \cup {Never}, obs : Observations,
               lag : 0..MaxLag, health : Health]

-----------------------------------------------------------------------------
(* The policy. *)

\* The longest of the three waits is one of them, and no shorter than any.
LEMMA LongestIs ==
    /\ Longest \in Nat
    /\ MaxBackoff <= Longest /\ ProbeLease <= Longest /\ RetiredFor <= Longest
  <1> DEFINE S == {MaxBackoff, ProbeLease, RetiredFor}
  <1>1. \E n \in S : \A m \in S : m <= n
    <2>1. MaxBackoff \in Nat /\ ProbeLease \in Nat /\ RetiredFor \in Nat
      BY PolicyAssumption
    <2>2. CASE MaxBackoff >= ProbeLease /\ MaxBackoff >= RetiredFor
      BY <2>1, <2>2
    <2>3. CASE ProbeLease >= MaxBackoff /\ ProbeLease >= RetiredFor
      BY <2>1, <2>3
    <2>4. CASE RetiredFor >= MaxBackoff /\ RetiredFor >= ProbeLease
      BY <2>1, <2>4
    <2> QED  BY <2>1, <2>2, <2>3, <2>4
  <1>2. Longest \in S /\ \A m \in S : m <= Longest
    BY <1>1 DEF Longest
  <1> QED  BY <1>2, PolicyAssumption

\* A power of two counts the subsets of a set.
LEMMA PowerType ==
    ASSUME NEW k \in Nat
    PROVE  2^k \in Nat
  <1>1. IsFiniteSet(1..k) /\ Cardinality(1..k) = k
    BY FS_Interval
  <1>2. IsFiniteSet(SUBSET (1..k)) /\ Cardinality(SUBSET (1..k)) = 2^Cardinality(1..k)
    BY <1>1, FS_SUBSET
  <1> QED  BY <1>1, <1>2, FS_CardinalityType

\* The wait until the next probe is within the longest one, however long the
\* circuit has been open: the doubling is cut off (backoff_for).
LEMMA BackoffType ==
    ASSUME NEW n \in Nat
    PROVE  BackoffFor(n) \in 0..MaxBackoff
  <1>1. MaxBackoff \in Nat /\ BaseBackoff \in Nat \ {0} /\ Never \notin Nat
    BY PolicyAssumption
  <1> DEFINE k == AtMost(AtMost(n, MaxBackoff) \div BaseBackoff, 16)
  <1>2. AtMost(n, MaxBackoff) \in Nat
    BY <1>1 DEF AtMost
  <1>3. k \in Nat
    BY <1>1, <1>2 DEF AtMost
  <1> HIDE DEF k
  <1>4. 2^k \in Nat
    BY <1>3, PowerType
  <1>5. BaseBackoff * 2^k \in Nat
    BY <1>1, <1>4
  <1>6. BackoffFor(n) = AtMost(BaseBackoff * 2^k, MaxBackoff)
    BY <1>1 DEF BackoffFor, k
  <1> QED  BY <1>1, <1>5, <1>6 DEF AtMost

\* A row stays a row when time passes, with its state and its count; and a
\* probe that was to come is still to come.
LEMMA AgedType ==
    ASSUME NEW h \in Health
    PROVE  /\ Aged(h) \in Health
           /\ Aged(h).state = h.state /\ Aged(h).failures = h.failures
           /\ h.due # Never <=> Aged(h).due # Never
           /\ h.due # Never => Aged(h).due = Less(h.due, 1)
  <1>1. /\ Longest \in Nat /\ MaxBackoff + MaxLag \in Nat /\ Never \notin Nat
        /\ FailureThreshold \in Nat
    BY LongestIs, PolicyAssumption
  <1> DEFINE d == IF h.due = Never THEN Never ELSE Less(h.due, 1)
             o == IF h.opened = Never THEN Never
                  ELSE AtMost(h.opened + 1, MaxBackoff + MaxLag)
  <1>2. d \in 0..Longest \cup {Never} /\ (h.due # Never <=> d # Never)
    BY <1>1 DEF Health, Less
  <1>3. o \in 0..(MaxBackoff + MaxLag) \cup {Never}
    BY <1>1 DEF Health, AtMost
  <1>4. Aged(h) = [h EXCEPT !.due = d, !.opened = o]
    BY DEF Aged, Health
  <1> HIDE DEF d, o
  <1>5. Aged(h) \in Health /\ Aged(h).state = h.state /\ Aged(h).failures = h.failures
        /\ Aged(h).due = d
    BY <1>2, <1>3, <1>4 DEF Health
  <1> QED  BY <1>2, <1>5 DEF d

\* What record makes of a row: a row, that counts at most one failure more, has
\* a probe to wait for if it is open, and is newly open only by the threshold,
\* a retirement or enough callers.
LEMMA RecordIs ==
    ASSUME NEW h \in Health, NEW obs \in Observations, NEW lag \in 0..MaxLag, NEW who
    PROVE  LET r == Record(h, obs, lag, who)
           IN  /\ r \in Health
               /\ \/ r.failures <= h.failures
                  \/ obs = "Unreachable" /\ r.failures <= h.failures + 1
                  \/ obs = "Retired"
               /\ (h.state # "closed" <=> h.due # Never)
                    => (r.state # "closed" <=> r.due # Never)
               /\ r.state # "closed" =>
                    \/ h.state # "closed"
                    \/ obs = "Unreachable" /\ r.failures >= FailureThreshold
                    \/ obs = "Retired"
                    \/ obs = "Undetermined" /\ Cardinality(who) >= BreadthThreshold
  <1>0. /\ Longest \in Nat /\ MaxBackoff <= Longest /\ RetiredFor <= Longest
        /\ MaxBackoff \in Nat /\ RetiredFor \in Nat /\ MaxLag \in Nat
        /\ FailureThreshold \in Nat \ {0} /\ Never \notin Nat
    BY LongestIs, PolicyAssumption
  <1>1. /\ h.state \in {"closed", "open", "half_open"} /\ h.failures \in 0..FailureThreshold
        /\ h.due \in 0..Longest \cup {Never}
        /\ h.opened \in 0..(MaxBackoff + MaxLag) \cup {Never}
        /\ h = [state |-> h.state, failures |-> h.failures, due |-> h.due,
                opened |-> h.opened]
    BY DEF Health
  <1> DEFINE up1 == Counted(h.failures)
  <1>2. up1 \in 0..FailureThreshold /\ up1 <= h.failures + 1
    BY <1>0, <1>1 DEF Counted, AtMost
  <1>3. \A n \in Nat : Less(BackoffFor(n), lag) \in 0..Longest
    <2>1. \A n \in Nat : BackoffFor(n) \in 0..MaxBackoff
      BY BackoffType
    <2> QED  BY <1>0, <2>1 DEF Less
  <1>4. Then(h.opened, lag) \in Nat
    BY <1>0, <1>1 DEF Then, Less
  <1>5. Less(RetiredFor, lag) \in 0..Longest
    BY <1>0 DEF Less
  <1>6. lag \in 0..(MaxBackoff + MaxLag)
    BY <1>0
  <1>7. \A s \in {"closed", "open", "half_open"}, f \in 0..FailureThreshold,
           d \in 0..Longest \cup {Never}, o \in 0..(MaxBackoff + MaxLag) \cup {Never} :
           LET r == [state |-> s, failures |-> f, due |-> d, opened |-> o]
           IN  r \in Health
    BY DEF Health
  <1>8. CASE obs = "Success"
    <2>1. Record(h, obs, lag, who) = NewHealth
      BY <1>8 DEF Record
    <2> QED  BY <1>0, <1>1, <1>7, <1>8, <2>1 DEF NewHealth
  <1>9. CASE obs = "NotEvidence"
    <2>1. Record(h, obs, lag, who) = h
      BY <1>9 DEF Record
    <2> QED  BY <1>1, <1>9, <2>1
  <1>10. CASE obs = "Retired"
    <2>1. Record(h, obs, lag, who) =
             [state |-> "open", failures |-> up1, due |-> Less(RetiredFor, lag), opened |-> lag]
      BY <1>1, <1>10 DEF Record
    <2> QED  BY <1>0, <1>2, <1>5, <1>6, <1>7, <1>10, <2>1
  <1>11. CASE obs = "Undetermined"
    <2>1. CASE h.state = "closed" /\ Cardinality(who) >= BreadthThreshold
      <3>1. Record(h, obs, lag, who) =
              [state |-> "open", failures |-> h.failures, due |-> Less(BackoffFor(0), lag),
               opened |-> lag]
        BY <1>1, <1>11, <2>1 DEF Record, SeenBy
      <3> QED  BY <1>0, <1>1, <1>3, <1>6, <1>7, <1>11, <2>1, <3>1
    <2>2. CASE ~(h.state = "closed" /\ Cardinality(who) >= BreadthThreshold)
      <3>1. Record(h, obs, lag, who) = h
        BY <1>11, <2>2 DEF Record, SeenBy
      <3> QED  BY <1>1, <1>11, <3>1
    <2> QED  BY <2>1, <2>2
  <1>12. CASE obs = "Unreachable"
    <2> DEFINE due == Less(BackoffFor(Then(h.opened, lag)), lag)
    <2>0. due \in 0..Longest
      BY <1>3, <1>4
    <2>1. Record(h, obs, lag, who) = Unreached(h, lag)
      BY <1>12 DEF Record
    <2>2. CASE h.state = "half_open"
      <3>1. Unreached(h, lag) =
              [state |-> "open", failures |-> up1, due |-> due, opened |-> h.opened]
        BY <1>1, <2>2 DEF Unreached
      <3> QED  BY <1>0, <1>1, <1>2, <1>7, <1>12, <2>0, <2>1, <2>2, <3>1
    <2>3. CASE h.state # "half_open" /\ up1 >= FailureThreshold
      <3>1. Unreached(h, lag) =
              [state |-> "open", failures |-> up1, due |-> due,
               opened |-> IF h.opened = Never THEN lag ELSE h.opened]
        BY <1>1, <2>3 DEF Unreached
      <3> QED  BY <1>0, <1>1, <1>2, <1>6, <1>7, <1>12, <2>0, <2>1, <2>3, <3>1
    <2>4. CASE h.state # "half_open" /\ ~(up1 >= FailureThreshold)
      <3>1. Unreached(h, lag) =
              [state |-> h.state, failures |-> up1, due |-> h.due, opened |-> h.opened]
        BY <1>1, <2>4 DEF Unreached
      <3> QED  BY <1>1, <1>2, <1>7, <1>12, <2>1, <2>4, <3>1
    <2> QED  BY <2>2, <2>3, <2>4
  <1> QED  BY <1>8, <1>9, <1>10, <1>11, <1>12 DEF Observations, Failures
-----------------------------------------------------------------------------
(* Types. *)

\* The records a call is made of.
LEMMA CallTypes ==
    /\ NewHealth \in Health
    /\ Idle \in CallRecord
    /\ TypeOK => call \in [Calls -> CallRecord]
    /\ \A r \in CallRecord, s \in {"claiming", "calling"} :
           [r EXCEPT !.pc = s] \in CallRecord
  <1>1. NewHealth \in Health
    BY PolicyAssumption DEF NewHealth, Health
  <1>2. Idle \in CallRecord
    BY <1>1, PolicyAssumption DEF Idle, CallRecord, Observations
  <1> QED  BY <1>1, <1>2 DEF TypeOK, CallRecord

\* A claim leaves a row with a probe to wait for.
LEMMA ClaimedType ==
    ASSUME NEW h \in Health
    PROVE  /\ Claimed(h) \in Health
           /\ Claimed(h).due = ProbeLease /\ Claimed(h).due # Never
           /\ Claimed(h).failures = h.failures /\ Claimed(h).state # "closed"
  <1>1. ProbeLease \in 0..Longest /\ ProbeLease # Never
    BY LongestIs, PolicyAssumption
  <1> QED  BY <1>1 DEF Claimed, Health

\* What a step of a call leaves of the call.
LEMMA CallStep ==
    ASSUME TypeOK, NEW c \in Calls,
           Step(c) \/ Crash(c) \/ FailOpen(c)
    PROVE  \E r \in CallRecord : call' = [call EXCEPT ![c] = r]
  <1>0. /\ call \in [Calls -> CallRecord] /\ call[c] \in CallRecord /\ row \in Health
        /\ Idle \in CallRecord
        /\ \A r \in CallRecord, s \in {"claiming", "calling"} :
               [r EXCEPT !.pc = s] \in CallRecord
    BY CallTypes DEF TypeOK
  <1>1. CASE Check(c) \/ Claim(c) \/ Store(c) \/ Crash(c) \/ FailOpen(c)
    BY <1>0, <1>1 DEF Check, Claim, Store, Crash, FailOpen, Set
  <1>2. CASE Answer(c)
    <2>1. PICK obs \in Observations, who \in Callers :
            Set(c, IF obs = "NotEvidence" THEN Idle
                   ELSE [call[c] EXCEPT !.pc = "loading", !.obs = obs,
                                        !.caller = IF obs = "Undetermined" THEN who ELSE Never])
      BY <1>2 DEF Answer, Meets, Observations
    <2> DEFINE w == IF obs = "Undetermined" THEN who ELSE Never
               r == [call[c] EXCEPT !.pc = "loading", !.obs = obs, !.caller = w]
    <2>2. w \in Callers \cup {Never}
      OBVIOUS
    <2> HIDE DEF w
    <2>3. r \in CallRecord
      BY <1>0, <2>2 DEF CallRecord
    <2> QED  BY <1>0, <2>1, <2>3 DEF Set, w
  <1>3. CASE LoadRow(c)
    <2>1. [call[c] EXCEPT !.pc = "reading", !.health = row] \in CallRecord
      BY <1>0 DEF CallRecord
    <2> QED  BY <1>3, <2>1 DEF LoadRow, Set
  <1>4. CASE LoadSightings(c)
    <2>1. PICK who : Set(c, [call[c] EXCEPT !.pc = "storing", !.caller = Never,
                             !.health = Record(call[c].health, call[c].obs, call[c].lag, who)])
      BY <1>4 DEF LoadSightings, Set
    <2> DEFINE h == Record(call[c].health, call[c].obs, call[c].lag, who)
    <2>2. h \in Health
      BY <1>0, RecordIs DEF CallRecord
    <2> HIDE DEF h
    <2>3. [call[c] EXCEPT !.pc = "storing", !.caller = Never, !.health = h] \in CallRecord
      BY <1>0, <2>2 DEF CallRecord
    <2> QED  BY <2>1, <2>3 DEF Set, h
  <1> QED  BY <1>1, <1>2, <1>3, <1>4 DEF Step, Observe

\* Time leaves every call with what it had, older.
LEMMA TickCalls ==
    ASSUME TypeOK, Tick, NEW c \in Calls
    PROVE  /\ call'[c] \in CallRecord
           /\ call'[c].pc = call[c].pc /\ call'[c].obs = call[c].obs
           /\ call'[c].caller = call[c].caller
           /\ call'[c].health = call[c].health \/ call'[c].health = Aged(call[c].health)
  <1>0. call[c] \in CallRecord /\ MaxLag \in Nat
    BY CallTypes, PolicyAssumption DEF TypeOK
  <1>1. CASE Observing(c)
    <2> DEFINE h == Aged(call[c].health)
    <2>1. h \in Health
      BY <1>0, AgedType DEF CallRecord
    <2>2. call'[c] = [call[c] EXCEPT !.lag = @ + 1, !.health = h]
      BY <1>1 DEF Tick
    <2>3. call[c].lag + 1 \in 0..MaxLag
      <3>1. call[c].lag < MaxLag
        BY <1>1 DEF Tick
      <3>2. call[c].lag \in 0..MaxLag
        BY <1>0 DEF CallRecord
      <3> QED  BY <1>0, <3>1, <3>2
    <2> HIDE DEF h
    <2> QED  BY <1>0, <2>1, <2>2, <2>3 DEF CallRecord, h
  <1>2. CASE ~Observing(c)
    BY <1>0, <1>2 DEF Tick
  <1> QED  BY <1>1, <1>2

\* Every step keeps the types.
LEMMA TypeStep ==
    ASSUME TypeOK, Next
    PROVE  TypeOK'
  <1>0. /\ call \in [Calls -> CallRecord] /\ row \in Health /\ Never \notin Nat
        /\ FailureThreshold \in Nat \ {0} /\ ProbeLease \in Nat /\ BreadthWindow \in Nat
        /\ MaxCrashes \in Nat
        /\ lease \in 0..ProbeLease /\ crashes \in 0..MaxCrashes /\ up \in BOOLEAN
    BY CallTypes, PolicyAssumption DEF TypeOK
  <1>1. ASSUME NEW c \in Calls, Step(c) \/ Crash(c) \/ FailOpen(c) PROVE TypeOK'
    <2>1. call' \in [Calls -> CallRecord]
      BY <1>0, <1>1, CallStep
    <2>2. row' \in Health
      <3>1. CASE Store(c)
        BY <1>0, <3>1 DEF Store, CallRecord
      <3>2. CASE Claim(c)
        BY <1>0, <3>2, ClaimedType DEF Claim
      <3> QED  BY <1>0, <1>1, <3>1, <3>2
               DEF Step, Observe, Check, Answer, LoadRow, LoadSightings, Crash, FailOpen
    <2>3. sightings' \subseteq Callers \X (0..BreadthWindow) /\ voices' \subseteq Callers
      <3>1. CASE Answer(c)
        <4>1. PICK who \in Callers :
                 \/ sightings' = sightings \cup {<<who, 0>>} /\ voices' = voices \cup {who}
                 \/ UNCHANGED <<sightings, voices>>
          BY <3>1 DEF Answer
        <4> QED  BY <1>0, <4>1 DEF TypeOK
      <3> QED  BY <1>1, <3>1
               DEF Step, Observe, Check, Claim, LoadRow, LoadSightings, Store, Crash,
                   FailOpen, TypeOK
    <2>4. grounds' \in 0..FailureThreshold
      <3>1. CASE Answer(c)
        BY <1>0, <3>1 DEF Answer, Counted, AtMost, TypeOK
      <3> QED  BY <1>1, <3>1
               DEF Step, Observe, Check, Claim, LoadRow, LoadSightings, Store, Crash,
                   FailOpen, TypeOK
    <2>5. lease' \in 0..ProbeLease /\ crashes' \in 0..MaxCrashes /\ up' \in BOOLEAN
      <3>1. CASE Crash(c) \/ FailOpen(c)
        BY <1>0, <3>1 DEF Crash, FailOpen
      <3>2. CASE Claim(c) \/ Store(c)
        BY <1>0, <3>2 DEF Claim, Store
      <3> QED  BY <1>0, <1>1, <3>1, <3>2
               DEF Step, Observe, Check, Answer, LoadRow, LoadSightings
    <2> QED  BY <2>1, <2>2, <2>3, <2>4, <2>5 DEF TypeOK, CallRecord
  <1>2. CASE Tick
    <2>1. call' \in [Calls -> CallRecord]
      <3>1. call' = [c \in Calls |-> call'[c]]
        BY <1>2 DEF Tick
      <3> QED  BY <1>2, <3>1, TickCalls
    <2>2. row' \in Health
      BY <1>0, <1>2, AgedType DEF Tick
    <2>3. sightings' \subseteq Callers \X (0..BreadthWindow)
      <3> SUFFICES ASSUME NEW x \in sightings' PROVE x \in Callers \X (0..BreadthWindow)
        OBVIOUS
      <3>1. PICK s \in sightings : x = <<s[1], AtMost(s[2] + 1, BreadthWindow)>>
        BY <1>2 DEF Tick
      <3>2. s[1] \in Callers /\ s[2] \in 0..BreadthWindow
        BY DEF TypeOK
      <3> QED  BY <1>0, <3>1, <3>2 DEF AtMost
    <2>4. lease' \in 0..ProbeLease
      <3>1. lease' = Less(lease, 1)
        BY <1>2 DEF Tick
      <3> QED  BY <1>0, <3>1 DEF Less
    <2> QED  BY <1>2, <2>1, <2>2, <2>3, <2>4 DEF Tick, TypeOK, CallRecord
  <1>3. CASE Forget \/ Turn
    BY <1>3 DEF Forget, Turn, TypeOK
  <1> QED  BY <1>1, <1>2, <1>3 DEF Next
-----------------------------------------------------------------------------
(* The evidence. *)

\* Arithmetic: what is counted stays within what was met.
LEMMA Carried ==
    ASSUME NEW f \in Nat, NEW n \in Nat, NEW m \in Nat, NEW g \in Nat, NEW k \in Nat,
           m + g <= n + k, f + n <= g
    PROVE  f + m <= k
  OBVIOUS

\* A row that a history bears out is borne out by one with more in it.
LEMMA BearsStays ==
    ASSUME NEW h \in Health, NEW e \in BOOLEAN, NEW f \in BOOLEAN,
           NEW g \in Nat, NEW k \in Nat, NEW n \in Nat, NEW m \in Nat,
           e => f, k < FailureThreshold => g < FailureThreshold /\ m + g <= n + k,
           Bears(h, e, g, n)
    PROVE  Bears(h, f, k, m)
  <1>1. h.failures \in Nat /\ FailureThreshold \in Nat
    BY PolicyAssumption DEF Health
  <1> QED  BY <1>1 DEF Bears

Owes(r) == r.pc \in Observed /\ r.obs = "Unreachable"

\* What is owed changes with the call that moves.
LEMMA OwedMoves ==
    ASSUME call \in [Calls -> CallRecord], IsFiniteSet(Owed), NEW c \in Calls, NEW r,
           call' = [call EXCEPT ![c] = r]
    PROVE  /\ IsFiniteSet(Owed')
           /\ Cardinality(Owed) \in Nat /\ Cardinality(Owed)' \in Nat
           /\ ~Owes(call[c]) /\ Owes(r) => Cardinality(Owed)' = Cardinality(Owed) + 1
           /\ Owes(call[c]) /\ ~Owes(r) => Cardinality(Owed) = Cardinality(Owed)' + 1
           /\ (Owes(call[c]) <=> Owes(r)) => Owed' = Owed
  <1>1. /\ Owed = {d \in Calls : Owes(call[d])} /\ Owed' = {d \in Calls : Owes(call'[d])}
        /\ call'[c] = r /\ \A d \in Calls \ {c} : call'[d] = call[d]
    BY DEF Owed, Owes
  <1>2. CASE ~Owes(call[c]) /\ Owes(r)
    <2>1. Owed' = Owed \cup {c} /\ c \notin Owed
      BY <1>1, <1>2
    <2> QED  BY <1>2, <2>1, FS_AddElement, FS_CardinalityType
  <1>3. CASE Owes(call[c]) /\ ~Owes(r)
    <2>1. Owed' = Owed \ {c} /\ c \in Owed
      BY <1>1, <1>3
    <2>2. IsFiniteSet(Owed \ {c}) /\ Cardinality(Owed \ {c}) = Cardinality(Owed) - 1
      BY <2>1, FS_RemoveElement
    <2> QED  BY <1>3, <2>1, <2>2, FS_CardinalityType
  <1>4. CASE Owes(call[c]) <=> Owes(r)
    <2>1. Owed' = Owed
      BY <1>1, <1>4
    <2> QED  BY <1>4, <2>1, FS_CardinalityType
  <1> QED  BY <1>2, <1>3, <1>4

\* More callers are no less evidence.
LEMMA MoreVoices ==
    ASSUME IsFiniteSet(voices), NEW V, V \subseteq voices
    PROVE  /\ IsFiniteSet(V) /\ Cardinality(V) \in Nat /\ Cardinality(voices) \in Nat
           /\ Cardinality(V) <= Cardinality(voices)
  BY FS_Subset, FS_CardinalityType

\* Every step of a call keeps the evidence.
LEMMA CallKeeps ==
    ASSUME Inv, TypeOK', NEW c \in Calls, Step(c) \/ Crash(c) \/ FailOpen(c)
    PROVE  Inv'
  <1>0. /\ call \in [Calls -> CallRecord] /\ call[c] \in CallRecord
        /\ row \in Health /\ row' \in Health /\ call' \in [Calls -> CallRecord]
        /\ grounds \in Nat /\ grounds' \in Nat /\ FailureThreshold \in Nat \ {0}
        /\ BreadthThreshold \in Nat \ {0}
        /\ grounds <= FailureThreshold /\ grounds' <= FailureThreshold
        /\ NewHealth \in Health
    BY CallTypes, PolicyAssumption DEF Inv, TypeOK, CallRecord
  <1>1. /\ IsFiniteSet(Owed) /\ IsFiniteSet(voices) /\ Borne(row)
        /\ \A d \in Calls : Borne(call[d].health)
        /\ Cardinality(Owed) \in Nat /\ Cardinality(voices) \in Nat
    BY FS_CardinalityType DEF Inv, Witnessed
  <1>2. Borne(NewHealth)
    BY <1>0, <1>1, PolicyAssumption DEF Borne, Bears, NewHealth, Health
  \* It is enough to look at the call that moves, the row and what is met.
  <1>3. ASSUME NEW r \in CallRecord, call' = [call EXCEPT ![c] = r],
               IsFiniteSet(voices'), Evidence => Evidence',
               \A s \in sightings' : s[1] \in voices', voices \subseteq voices',
               r.pc \in Observed =>
                   /\ r.obs = "Undetermined" => r.caller \in voices'
                   /\ r.obs = "Retired" => grounds' = FailureThreshold,
               grounds' < FailureThreshold =>
                   /\ grounds < FailureThreshold
                   /\ Cardinality(Owed)' + grounds <= Cardinality(Owed) + grounds',
               Borne(row)',
               Bears(r.health, Evidence', grounds', Cardinality(Owed)')
        PROVE  Inv'
    <2>1. IsFiniteSet(Owed') /\ Cardinality(Owed)' \in Nat
      BY <1>0, <1>1, <1>3, OwedMoves
    <2>2. call'[c] = r /\ \A d \in Calls \ {c} : call'[d] = call[d]
      BY <1>0, <1>3
    <2>3. Witnessed'
      <3>1. grounds = FailureThreshold => grounds' = FailureThreshold
        BY <1>0, <1>3
      <3>2. ASSUME NEW d \in Calls, call'[d].pc \in Observed
            PROVE  /\ call'[d].obs = "Undetermined" => call'[d].caller \in voices'
                   /\ call'[d].obs = "Retired" => grounds' = FailureThreshold
        BY <1>3, <2>2, <3>1, <3>2 DEF Witnessed, Inv
      <3> QED  BY <1>3, <2>1, <3>2 DEF Witnessed
    <2>4. ASSUME NEW d \in Calls, d # c PROVE Borne(call[d].health)'
      <3>1. Bears(call[d].health, Evidence, grounds, Cardinality(Owed))
            /\ call[d].health \in Health
        BY <1>0, <1>1 DEF Borne, CallRecord
      <3>2. Evidence \in BOOLEAN /\ Evidence' \in BOOLEAN
        BY DEF Evidence
      <3>3. Bears(call[d].health, Evidence', grounds', Cardinality(Owed)')
        BY <1>0, <1>1, <1>3, <2>1, <3>1, <3>2, BearsStays
      <3> QED  BY <2>2, <2>4, <3>3 DEF Borne
    <2>5. Borne(call[c].health)'
      BY <1>3, <2>2 DEF Borne
    <2> QED  BY <1>3, <2>3, <2>4, <2>5 DEF Inv
  \* A call that owes nothing afterwards, and writes nothing but itself.
  <1>4. ASSUME NEW r \in CallRecord, call' = [call EXCEPT ![c] = r],
               UNCHANGED <<row, sightings, voices, grounds>>, ~Owes(r),
               r.pc \notin Observed, Borne(r.health)
        PROVE  Inv'
    <2> DEFINE n == Cardinality(Owed)
               m == Cardinality(Owed)'
    <2>1. /\ Owed' = Owed \/ n = m + 1
          /\ n \in Nat /\ m \in Nat
      BY <1>0, <1>1, <1>4, OwedMoves
    <2>2. Evidence' = Evidence /\ Evidence \in BOOLEAN /\ grounds' = grounds /\ row' = row
      BY <1>4 DEF Evidence
    <2>3. r.health \in Health
      BY DEF CallRecord
    <2>4. m <= n
      BY <2>1
    <2> HIDE DEF n, m
    <2>5. \A h \in Health : Bears(h, Evidence, grounds, n) => Bears(h, Evidence, grounds, m)
      BY <1>0, <2>1, <2>2, <2>4, BearsStays
    <2>6. /\ Bears(r.health, Evidence', grounds', m)
          /\ Bears(row', Evidence', grounds', m)
      BY <1>0, <1>1, <1>4, <2>2, <2>3, <2>5 DEF Borne, n
    <2>7. /\ \A s \in sightings' : s[1] \in voices'
          /\ voices \subseteq voices' /\ IsFiniteSet(voices')
      BY <1>1, <1>4 DEF Inv, Witnessed
    <2>8. grounds' < FailureThreshold => grounds < FailureThreshold /\ m + grounds <= n + grounds'
      BY <1>0, <2>1, <2>2, <2>4
    <2> QED  BY <1>3, <1>4, <2>2, <2>6, <2>7, <2>8 DEF Borne, n, m
  <1>5. CASE Check(c) \/ Crash(c) \/ FailOpen(c)
    <2>1. PICK r \in {Idle, [Idle EXCEPT !.pc = "calling"], [Idle EXCEPT !.pc = "claiming"]} :
            call' = [call EXCEPT ![c] = r]
      BY <1>5 DEF Check, Crash, FailOpen, Set
    <2>2. /\ r \in CallRecord /\ r.health = NewHealth /\ r.pc \notin Observed
      <3>1. Idle \in CallRecord /\ Idle.health = NewHealth
            /\ \A x \in {"claiming", "calling"} : [Idle EXCEPT !.pc = x] \in CallRecord
        BY CallTypes DEF Idle
      <3>2. \A x \in {"claiming", "calling"} :
              [Idle EXCEPT !.pc = x].pc = x /\ [Idle EXCEPT !.pc = x].health = NewHealth
        BY DEF Idle
      <3> QED  BY <2>1, <3>1, <3>2 DEF Observed, Idle
    <2>3. UNCHANGED <<row, sightings, voices, grounds>>
      BY <1>5 DEF Check, Crash, FailOpen
    <2> QED  BY <1>2, <1>4, <2>1, <2>2, <2>3 DEF Owes
  <1>6. CASE Claim(c)
    <2>1. CASE ~Claimable
      <3>1. call' = [call EXCEPT ![c] = Idle] /\ UNCHANGED <<row, sightings, voices, grounds>>
        BY <1>6, <2>1 DEF Claim, Set
      <3>2. Idle \in CallRecord /\ Idle.health = NewHealth /\ Idle.pc \notin Observed
        BY CallTypes DEF Idle, Observed
      <3> QED  BY <1>2, <1>4, <3>1, <3>2 DEF Owes
    <2>2. CASE Claimable
      <3> DEFINE r == [call[c] EXCEPT !.pc = "calling"]
      <3>1. /\ call' = [call EXCEPT ![c] = r] /\ row' = Claimed(row)
            /\ UNCHANGED <<sightings, voices, grounds>> /\ call[c].pc = "claiming"
        BY <1>6, <2>2 DEF Claim, Set, At
      <3>2. r \in CallRecord /\ r.pc = "calling" /\ r.health = call[c].health
        BY <1>0, CallTypes DEF CallRecord
      <3> HIDE DEF r
      <3>3. ~Owes(call[c]) /\ ~Owes(r)
        BY <3>1, <3>2 DEF Owes, Observed
      <3>4. Owed' = Owed /\ (Evidence' <=> Evidence)
        BY <1>0, <1>1, <3>1, <3>2, <3>3, OwedMoves DEF Evidence
      \* A circuit that has a probe to claim was opened.
      <3>5. Borne(row)'
        BY <1>0, <1>1, <2>2, <3>1, <3>4, ClaimedType DEF Borne, Bears, Claimable
      <3> QED  BY <1>0, <1>1, <1>3, <3>1, <3>2, <3>4, <3>5 DEF Borne, Inv, Witnessed, Observed
    <2> QED  BY <2>1, <2>2
  <1>7. CASE Answer(c)
    <2>0. call[c].pc = "calling" /\ ~Owes(call[c]) /\ row' = row
      BY <1>7 DEF Answer, At, Owes, Observed
    <2>1. PICK obs \in Observations, who \in Callers :
            /\ Set(c, IF obs = "NotEvidence" THEN Idle
                      ELSE [call[c] EXCEPT !.pc = "loading", !.obs = obs,
                                !.caller = IF obs = "Undetermined" THEN who ELSE Never])
            /\ IF obs = "Undetermined"
                 THEN /\ sightings' = sightings \cup {<<who, 0>>}
                      /\ voices' = voices \cup {who}
                 ELSE UNCHANGED <<sightings, voices>>
            /\ grounds' = CASE obs = "Unreachable" -> Counted(grounds)
                            [] obs = "Retired" -> FailureThreshold
                            [] OTHER -> grounds
      BY <1>7 DEF Answer, Meets, Observations
    <2>2. CASE obs = "NotEvidence"
      <3>1. call' = [call EXCEPT ![c] = Idle] /\ UNCHANGED <<row, sightings, voices, grounds>>
        BY <2>0, <2>1, <2>2 DEF Set
      <3>2. Idle \in CallRecord /\ Idle.health = NewHealth /\ Idle.pc \notin Observed
        BY CallTypes DEF Idle, Observed
      <3> QED  BY <1>2, <1>4, <3>1, <3>2 DEF Owes
    <2>3. CASE obs # "NotEvidence"
      <3> DEFINE w == IF obs = "Undetermined" THEN who ELSE Never
                 r == [call[c] EXCEPT !.pc = "loading", !.obs = obs, !.caller = w]
                 n == Cardinality(Owed)
                 m == Cardinality(Owed)'
      <3>1. w \in Callers \cup {Never}
        OBVIOUS
      <3>2. call' = [call EXCEPT ![c] = r]
        BY <2>1, <2>3 DEF Set
      <3>3. obs = "Undetermined" => w = who
        OBVIOUS
      <3> HIDE DEF w
      <3>4. /\ r \in CallRecord /\ r.pc = "loading" /\ r.obs = obs /\ r.caller = w
            /\ r.health = call[c].health
        BY <1>0, <3>1 DEF CallRecord
      <3> HIDE DEF r
      <3>5. /\ m \in Nat /\ n \in Nat
            /\ obs = "Unreachable" => m = n + 1
            /\ obs # "Unreachable" => m = n
        BY <1>0, <1>1, <2>0, <3>2, <3>4, OwedMoves DEF Owes, Observed
      <3> HIDE DEF n, m
      <3>6. /\ grounds <= grounds'
            /\ grounds' < FailureThreshold =>
                 /\ grounds < FailureThreshold
                 /\ grounds' = IF obs = "Unreachable" THEN grounds + 1 ELSE grounds
        BY <1>0, <2>1 DEF Counted, AtMost
      <3>7. grounds' < FailureThreshold => grounds < FailureThreshold /\ m + grounds <= n + grounds'
        <4>1. CASE obs = "Unreachable"
          BY <1>0, <3>5, <3>6, <4>1
        <4>2. CASE obs # "Unreachable"
          BY <1>0, <3>5, <3>6, <4>2
        <4> QED  BY <4>1, <4>2
      <3>8. /\ IsFiniteSet(voices') /\ voices \subseteq voices'
            /\ obs = "Undetermined" => who \in voices'
            /\ \A s \in sightings' : s[1] \in voices'
        <4>1. CASE obs = "Undetermined"
          <5>1. voices' = voices \cup {who} /\ sightings' = sightings \cup {<<who, 0>>}
            BY <2>1, <4>1
          <5>2. IsFiniteSet(voices')
            BY <1>1, <5>1, FS_AddElement
          <5> QED  BY <5>1, <5>2 DEF Inv, Witnessed
        <4>2. CASE obs # "Undetermined"
          BY <1>1, <2>1, <4>2 DEF Inv, Witnessed
        <4> QED  BY <4>1, <4>2
      <3>9. Evidence \in BOOLEAN /\ Evidence' \in BOOLEAN /\ (Evidence => Evidence')
        <4>1. Cardinality(voices) <= Cardinality(voices') /\ Cardinality(voices') \in Nat
          BY <3>8, FS_Subset, FS_CardinalityType
        <4> QED  BY <1>0, <1>1, <3>6, <4>1 DEF Evidence
      <3>10. /\ Bears(row', Evidence', grounds', m)
             /\ Bears(r.health, Evidence', grounds', m)
        <4>1. ASSUME NEW h \in Health, Bears(h, Evidence, grounds, n)
              PROVE  Bears(h, Evidence', grounds', m)
          <5>1. h.failures \in Nat
            BY <1>0 DEF Health
          <5>2. /\ grounds < FailureThreshold => h.failures + n <= grounds
                /\ grounds \in Nat /\ grounds' \in Nat /\ m \in Nat /\ n \in Nat
                /\ FailureThreshold \in Nat
            BY <1>0, <3>5, <4>1 DEF Bears
          <5>3. grounds' < FailureThreshold => h.failures + m <= grounds'
            <6>1. SUFFICES ASSUME grounds' < FailureThreshold PROVE h.failures + m <= grounds'
              OBVIOUS
            <6>2. m + grounds <= n + grounds' /\ h.failures + n <= grounds
              BY <3>7, <5>2, <6>1
            <6> QED  BY <5>1, <5>2, <6>2, Carried
          <5> QED  BY <3>9, <4>1, <5>3 DEF Bears
        <4> QED  BY <1>0, <1>1, <2>0, <3>4, <4>1 DEF Borne, n, CallRecord
      <3>11. obs = "Retired" => grounds' = FailureThreshold
        BY <2>1
      <3> QED  BY <1>3, <3>2, <3>3, <3>4, <3>7, <3>8, <3>9, <3>10, <3>11 DEF Borne, n, m
    <2> QED  BY <2>2, <2>3
  <1>8. CASE LoadRow(c)
    <2> DEFINE r == [call[c] EXCEPT !.pc = "reading", !.health = row]
    <2>1. /\ call' = [call EXCEPT ![c] = r] /\ call[c].pc = "loading"
          /\ UNCHANGED <<row, sightings, voices, grounds>>
      BY <1>8 DEF LoadRow, Set, At
    <2>2. /\ r \in CallRecord /\ r.pc = "reading" /\ r.obs = call[c].obs
          /\ r.caller = call[c].caller /\ r.health = row
      BY <1>0 DEF CallRecord
    <2> HIDE DEF r
    <2>3. Owed' = Owed /\ Evidence' = Evidence
      BY <1>0, <1>1, <2>1, <2>2, OwedMoves DEF Owes, Observed, Evidence
    <2>4. /\ r.obs = "Undetermined" => r.caller \in voices'
          /\ r.obs = "Retired" => grounds' = FailureThreshold
      BY <2>1, <2>2 DEF Inv, Witnessed, Observed
    <2>5. Bears(r.health, Evidence', grounds', Cardinality(Owed)') /\ Borne(row)'
      BY <1>1, <2>1, <2>2, <2>3 DEF Borne
    <2>6. /\ \A s \in sightings' : s[1] \in voices'
          /\ voices' = voices /\ grounds' = grounds /\ IsFiniteSet(voices')
      BY <1>1, <2>1 DEF Inv, Witnessed
    <2>7. Cardinality(Owed)' + grounds <= Cardinality(Owed) + grounds'
      BY <1>0, <1>1, <2>3, <2>6
    <2> QED  BY <1>3, <2>1, <2>2, <2>3, <2>4, <2>5, <2>6, <2>7
  <1>9. CASE LoadSightings(c)
    <2> DEFINE who == {s[1] : s \in {x \in sightings : x[2] < BreadthWindow}}
                        \cup {call[c].caller}
               h == Record(call[c].health, call[c].obs, call[c].lag, who)
               r == [call[c] EXCEPT !.pc = "storing", !.health = h, !.caller = Never]
               n == Cardinality(Owed)
               m == Cardinality(Owed)'
    <2>1. /\ call' = [call EXCEPT ![c] = r] /\ call[c].pc = "reading"
          /\ UNCHANGED <<row, sightings, voices, grounds>>
      BY <1>9 DEF LoadSightings, Set, At
    <2>2. call[c].obs = "Undetermined" => who \subseteq voices
      BY <2>1 DEF Inv, Witnessed, Observed
    <2>3. call[c].obs = "Undetermined" => Cardinality(who) \in Nat
                                            /\ Cardinality(who) <= Cardinality(voices)
      BY <1>1, <2>2, MoreVoices
    <2> HIDE DEF who
    <2> DEFINE k == call[c].health
    <2>4. k \in Health /\ call[c].obs \in Observations /\ call[c].lag \in 0..MaxLag
      BY <1>0 DEF CallRecord
    <2>5. /\ h \in Health
          /\ \/ h.failures <= k.failures
             \/ call[c].obs = "Unreachable" /\ h.failures <= k.failures + 1
             \/ call[c].obs = "Retired"
          /\ (k.state # "closed" <=> k.due # Never) => (h.state # "closed" <=> h.due # Never)
          /\ h.state # "closed" =>
               \/ k.state # "closed"
               \/ call[c].obs = "Unreachable" /\ h.failures >= FailureThreshold
               \/ call[c].obs = "Retired"
               \/ call[c].obs = "Undetermined" /\ Cardinality(who) >= BreadthThreshold
      BY <2>4, RecordIs
    <2> HIDE DEF h
    <2>6. r \in CallRecord /\ r.pc = "storing" /\ r.health = h
      BY <1>0, <2>5 DEF CallRecord
    <2> HIDE DEF r
    <2>7. /\ m \in Nat /\ n \in Nat
          /\ call[c].obs = "Unreachable" => n = m + 1
          /\ call[c].obs # "Unreachable" => n = m
      BY <1>0, <1>1, <2>1, <2>6, OwedMoves DEF Owes, Observed
    <2> HIDE DEF n, m
    <2>8. Evidence' = Evidence /\ Evidence \in BOOLEAN /\ grounds' = grounds /\ row' = row
      BY <2>1 DEF Evidence
    <2>9. Bears(k, Evidence, grounds, n) /\ Bears(row, Evidence, grounds, n)
      BY <1>1 DEF Borne, n
    \* A retirement is evidence enough.
    <2>10. call[c].obs = "Retired" => grounds = FailureThreshold
      BY <2>1 DEF Inv, Witnessed, Observed
    <2>11. Bears(h, Evidence, grounds, m)
      <3>1. k.failures \in Nat /\ h.failures \in Nat
        BY <1>0, <2>4, <2>5 DEF Health
      <3>2. grounds < FailureThreshold => h.failures + m <= grounds
        BY <1>0, <2>5, <2>7, <2>9, <2>10, <3>1 DEF Bears
      <3>3. h.state # "closed" => Evidence
        BY <1>0, <1>1, <2>3, <2>5, <2>7, <2>9, <2>10, <3>1 DEF Bears, Evidence
      <3> QED  BY <2>5, <2>9, <3>2, <3>3 DEF Bears
    <2>12. Bears(row, Evidence, grounds, m)
      <3>1. row.failures \in Nat
        BY <1>0 DEF Health
      <3> QED  BY <1>0, <2>7, <2>9, <3>1 DEF Bears
    <2>13. r.pc \notin Observed
      BY <2>6 DEF Observed
    <2>14. /\ \A s \in sightings' : s[1] \in voices'
           /\ voices' = voices /\ IsFiniteSet(voices')
      BY <1>1, <2>1 DEF Inv, Witnessed
    <2>15. grounds' < FailureThreshold => grounds < FailureThreshold /\ m + grounds <= n + grounds'
      BY <1>0, <2>7, <2>8
    <2> QED  BY <1>3, <2>1, <2>6, <2>8, <2>11, <2>12, <2>13, <2>14, <2>15 DEF Borne, n, m
  <1>10. CASE Store(c)
    <2>1. /\ call' = [call EXCEPT ![c] = Idle] /\ call[c].pc = "storing"
          /\ row' = call[c].health /\ UNCHANGED <<sightings, voices, grounds>>
      BY <1>10 DEF Store, Set, At
    <2>2. Idle \in CallRecord /\ Idle.health = NewHealth /\ Idle.pc \notin Observed
      BY CallTypes DEF Idle, Observed
    <2>3. Owed' = Owed /\ Evidence' = Evidence
      BY <1>0, <1>1, <2>1, <2>2, OwedMoves DEF Owes, Observed, Evidence
    <2>4. Borne(row)' /\ Bears(Idle.health, Evidence', grounds', Cardinality(Owed)')
      BY <1>1, <1>2, <2>1, <2>2, <2>3 DEF Borne
    <2>5. /\ \A s \in sightings' : s[1] \in voices'
          /\ voices' = voices /\ grounds' = grounds /\ IsFiniteSet(voices')
      BY <1>1, <2>1 DEF Inv, Witnessed
    <2>6. Cardinality(Owed)' + grounds <= Cardinality(Owed) + grounds'
      BY <1>0, <1>1, <2>3, <2>5
    <2> QED  BY <1>3, <2>1, <2>2, <2>3, <2>4, <2>5, <2>6
  <1> QED
    BY <1>5, <1>6, <1>7, <1>8, <1>9, <1>10 DEF Step, Observe

\* Time, the sweep of old sightings and the endpoint keep the evidence.
LEMMA OthersKeep ==
    ASSUME Inv, TypeOK', Tick \/ Forget \/ Turn
    PROVE  Inv'
  <1>1. CASE Forget \/ Turn
    <2>1. /\ UNCHANGED <<row, call, voices, grounds>> /\ sightings' \subseteq sightings
      BY <1>1 DEF Forget, Turn
    <2>2. Owed' = Owed /\ Evidence' = Evidence
      BY <2>1 DEF Owed, Evidence
    <2> QED  BY <2>1, <2>2 DEF Inv, Witnessed, Borne
  <1>2. CASE Tick
    <2>0. /\ TypeOK /\ row \in Health /\ UNCHANGED <<voices, grounds>> /\ row' = Aged(row)
      BY <1>2 DEF Tick, Inv, TypeOK
    <2>1. \A c \in Calls :
            /\ call'[c].pc = call[c].pc /\ call'[c].obs = call[c].obs
            /\ call'[c].caller = call[c].caller
            /\ call'[c].health = call[c].health \/ call'[c].health = Aged(call[c].health)
      BY <1>2, <2>0, TickCalls
    <2>2. Owed' = Owed /\ Evidence' = Evidence
      BY <2>0, <2>1 DEF Owed, Evidence
    <2>3. \A h \in Health : Borne(h) => Bears(Aged(h), Evidence, grounds, Cardinality(Owed))
      BY AgedType DEF Borne, Bears
    <2>4. \A c \in Calls : call[c].health \in Health
      BY <2>0, CallTypes DEF CallRecord
    <2>5. Borne(row)' /\ \A c \in Calls : Borne(call[c].health)'
      <3>1. Borne(row)'
        BY <2>0, <2>2, <2>3 DEF Borne, Inv
      <3>2. ASSUME NEW c \in Calls PROVE Borne(call[c].health)'
        BY <2>0, <2>1, <2>2, <2>3, <2>4 DEF Borne, Inv
      <3> QED  BY <3>1, <3>2
    <2>6. \A s \in sightings' : s[1] \in voices'
      <3> SUFFICES ASSUME NEW x \in sightings' PROVE x[1] \in voices
        BY <2>0
      <3>1. PICK s \in sightings : x = <<s[1], AtMost(s[2] + 1, BreadthWindow)>>
        BY <1>2 DEF Tick
      <3> QED  BY <3>1 DEF Inv, Witnessed
    <2> QED  BY <2>0, <2>1, <2>2, <2>5, <2>6 DEF Inv, Witnessed
  <1> QED  BY <1>1, <1>2

\* The inductive invariant holds in every reachable state.
THEOREM Invariance == Spec => []Inv
  <1>1. Init => Inv
    <2> SUFFICES ASSUME Init PROVE Inv
      OBVIOUS
    <2>1. TypeOK
      BY CallTypes, PolicyAssumption DEF Init, TypeOK, CallRecord
    <2>2. Owed = {} /\ voices = {}
      BY DEF Init, Owed, Idle, Observed
    <2>3. Witnessed
      BY <2>2, FS_EmptySet DEF Init, Witnessed, Idle, Observed
    <2>4. \A c \in Calls : call[c].health = row
      BY DEF Init, Idle
    <2>5. Borne(row)
      BY <2>2, FS_EmptySet, PolicyAssumption DEF Init, Borne, Bears, NewHealth
    <2> QED  BY <2>1, <2>3, <2>4, <2>5 DEF Inv
  <1>2. Inv /\ [Next]_vars => Inv'
    <2> SUFFICES ASSUME Inv, [Next]_vars PROVE Inv'
      OBVIOUS
    <2>1. CASE UNCHANGED vars
      <3>1. Owed' = Owed /\ Evidence' = Evidence
        BY <2>1 DEF vars, Owed, Evidence
      <3> QED  BY <2>1, <3>1 DEF vars, Inv, TypeOK, Witnessed, Borne
    <2>2. CASE Next
      <3>1. TypeOK'
        BY <2>2, TypeStep DEF Inv
      <3> QED  BY <2>2, <3>1, CallKeeps, OthersKeep DEF Next
    <2> QED  BY <2>1, <2>2
  <1> QED  BY <1>1, <1>2, PTL DEF Spec

\* Whatever number of replicas write over one another's rows, a circuit is open
\* only on evidence, and an open one is waiting for a probe that can be claimed.
THEOREM Circuit == Spec => []CircuitSound
  <1>1. Inv => CircuitSound
    BY DEF Inv, CircuitSound, OpenIsScheduled, OpensOnEvidence, Borne, Bears, Evidence
  <1> QED  BY <1>1, Invariance, PTL

-----------------------------------------------------------------------------
(* One probe. *)

\* The last claim's lease is what the row still has to wait.
LeaseWaits == lease > 0 => row.due = lease

\* A step keeps the row waiting for as long as the lease lasts.
LEMMA LeaseStep ==
    ASSUME TypeOK, LeaseWaits, Next
    PROVE  LeaseWaits' /\ \A c \in Calls : Wins(c) => lease = 0
  <1>0. /\ row \in Health /\ lease \in 0..ProbeLease /\ ProbeLease \in Nat
        /\ call \in [Calls -> CallRecord]
        /\ Never \notin Nat
    BY CallTypes, PolicyAssumption DEF TypeOK
  <1>1. ASSUME NEW c \in Calls, Claim(c)
        PROVE  LeaseWaits' /\ \A d \in Calls : Wins(d) => lease = 0
    <2>1. CASE ~Claimable
      <3>1. UNCHANGED <<row, lease>> /\ \A d \in Calls : ~Wins(d)
        BY <1>0, <1>1, <2>1 DEF Claim, Set, Wins, At, Idle
      <3> QED  BY <3>1 DEF LeaseWaits
    <2>2. CASE Claimable
      BY <1>0, <1>1, <2>2, ClaimedType DEF Claim, LeaseWaits, Claimable
    <2> QED  BY <2>1, <2>2
  <1>2. ASSUME NEW c \in Calls, Step(c) \/ Crash(c) \/ FailOpen(c), ~Claim(c)
        PROVE  LeaseWaits' /\ \A d \in Calls : ~Wins(d)
    <2>1. LeaseWaits'
      <3>1. UNCHANGED <<row, lease>> \/ lease' = 0
        BY <1>2 DEF Step, Observe, Check, Answer, LoadRow, LoadSightings, Store, Crash,
                    FailOpen
      <3> QED  BY <3>1 DEF LeaseWaits
    <2>2. PICK r \in CallRecord : call' = [call EXCEPT ![c] = r]
      BY <1>2, CallStep
    <2>3. ~Wins(c)
      <3>1. CASE ~Crash(c)
        BY <1>2, <3>1
        DEF Step, Observe, Check, Answer, LoadRow, LoadSightings, Store, FailOpen, At, Wins
      <3>2. CASE Crash(c)
        BY <1>0, <3>2 DEF Crash, Set, Idle, Wins
      <3> QED  BY <3>1, <3>2
    <2>4. \A d \in Calls \ {c} : call'[d] = call[d]
      BY <1>0, <2>2
    <2> QED  BY <2>1, <2>3, <2>4 DEF Wins, At
  <1>3. CASE Tick
    <2>1. \A d \in Calls : ~Wins(d)
      BY <1>3, TickCalls DEF Wins, At
    <2>2. row' = Aged(row) /\ lease' = Less(lease, 1)
      BY <1>3 DEF Tick
    <2>3. row.due # Never => row'.due = Less(row.due, 1)
      BY <1>0, <2>2, AgedType
    <2>4. LeaseWaits'
      BY <1>0, <2>2, <2>3 DEF LeaseWaits, Less
    <2> QED  BY <2>1, <2>4
  <1>4. CASE Forget \/ Turn
    BY <1>4 DEF Forget, Turn, LeaseWaits, Wins, At
  <1> QED  BY <1>1, <1>2, <1>3, <1>4 DEF Next

\* However many replicas come to a circuit whose probe is due, one of them has
\* the claim for as long as its lease lasts and nothing has been recorded.
THEOREM OneProbe == Spec => OneClaimPerLease
  <1>1. Init => LeaseWaits
    BY DEF Init, LeaseWaits
  <1>2. TypeOK /\ LeaseWaits /\ [Next]_vars
          => LeaseWaits' /\ [\A c \in Calls : Wins(c) => lease = 0]_vars
    <2>1. CASE UNCHANGED vars
      BY <2>1 DEF vars, LeaseWaits
    <2> QED  BY <2>1, LeaseStep
  <1>3. Spec => []TypeOK
    <2>1. Inv => TypeOK
      BY DEF Inv
    <2> QED  BY <2>1, Invariance, PTL
  <1> QED  BY <1>1, <1>2, <1>3, PTL DEF Spec, OneClaimPerLease
=============================================================================
