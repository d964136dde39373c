------------------------------ MODULE Breaker ------------------------------
(***************************************************************************)
(* One circuit: the policy of core/src/breaker.rs and the store that keeps *)
(* it (gateway/src/breaker/mod.rs), shared by the calls that every replica *)
(* of the gateway makes through it.                                        *)
(*                                                                         *)
(* A call is checked, made and observed in several statements, and nothing *)
(* holds the row between them. Instants are kept as distances from the     *)
(* present: how long until a probe is due, how long since a circuit opened *)
(* (elapsed() caps it), how old a sighting is. Tick ages all of them, the  *)
(* copies that a call has in hand included.                                *)
(***************************************************************************)
EXTENDS Integers, FiniteSets

CONSTANTS
    Calls,             \* calls in flight, each of some replica of the gateway
    Callers,           \* what breadth is counted in: workspaces, or sessions
    FailureThreshold, BreadthThreshold, BreadthWindow,
    BaseBackoff, MaxBackoff, ProbeLease, RetiredFor,
    MaxLag,            \* a bound on how long the statements of one observe take
    MaxCrashes,        \* a bound on the calls that end without a word
    Never              \* a timestamp that is null

ASSUME PolicyAssumption ==
    /\ {FailureThreshold, BreadthThreshold, BreadthWindow, BaseBackoff, MaxBackoff,
        ProbeLease, RetiredFor} \subseteq Nat \ {0}
    /\ BaseBackoff <= MaxBackoff
    /\ MaxLag \in Nat /\ MaxCrashes \in Nat
    /\ Never \notin Nat

VARIABLES
    row,       \* provider_health, of this endpoint and scope
    sightings, \* breaker_sightings: who saw it fail, and how long ago
    call,      \* what each call is doing
    up,        \* whether the endpoint answers
    crashes,
    voices,    \* history: who ever saw it fail
    grounds,   \* history: the failures that need no company, up to the threshold
    lease      \* history: what is left of the last probe's lease

vars == <<row, sightings, call, up, crashes, voices, grounds, lease>>

Longest == CHOOSE n \in {MaxBackoff, ProbeLease, RetiredFor} :
               \A m \in {MaxBackoff, ProbeLease, RetiredFor} : m <= n
Failures == {"Unreachable", "Undetermined", "Retired"}
Observations == {"Success", "NotEvidence"} \cup Failures
Health == [state : {"closed", "open", "half_open"}, failures : 0..FailureThreshold,
           due : 0..Longest \cup {Never}, opened : 0..(MaxBackoff + MaxLag) \cup {Never}]
NewHealth == [state |-> "closed", failures |-> 0, due |-> Never, opened |-> Never]

Idle == [pc |-> "idle", caller |-> Never, obs |-> "NotEvidence", lag |-> 0,
         health |-> NewHealth]

Init ==
    /\ row = NewHealth
    /\ sightings = {}
    /\ call = [c \in Calls |-> Idle]
    /\ up = TRUE
    /\ crashes = 0
    /\ voices = {} /\ grounds = 0 /\ lease = 0

-----------------------------------------------------------------------------
(* The policy. *)

AtMost(n, m) == IF n < m THEN n ELSE m
Less(n, m) == IF n < m THEN 0 ELSE n - m

\* backoff_for: doubled for each backoff already served.
BackoffFor(opened) ==
    IF opened = Never THEN BaseBackoff
    ELSE AtMost(BaseBackoff * 2^AtMost(AtMost(opened, MaxBackoff) \div BaseBackoff, 16),
                MaxBackoff)

\* check.
Verdict(h) ==
    CASE h.state = "closed" -> "allow"
      [] h.state # "closed" /\ (h.due = Never \/ h.due = 0) -> "probe"
      [] OTHER -> "reject"

\* Age of the opening at the instant the call noted, lag ago; a circuit that
\* is only now opening has been down for no time.
Then(opened, lag) == IF opened = Never THEN 0 ELSE Less(opened, lag)
\* failures, which is only ever compared with the threshold.
Counted(n) == AtMost(n + 1, FailureThreshold)

\* What a call that was out of reach leaves of a circuit. Everything counts
\* from the instant the call noted, lag ago.
Unreached(h, lag) ==
    LET n == [h EXCEPT !.failures = Counted(@)]
        due == Less(BackoffFor(Then(h.opened, lag)), lag)
    IN  CASE h.state = "half_open" -> [n EXCEPT !.state = "open", !.due = due]
          [] h.state # "half_open" /\ n.failures >= FailureThreshold ->
               [n EXCEPT !.state = "open", !.opened = IF @ = Never THEN lag ELSE @,
                         !.due = due]
          [] OTHER -> n

\* Mutant: any caller opens it.
SeenByAnyone(h, lag, who) ==
    IF h.state = "closed" THEN [h EXCEPT !.state = "open", !.opened = lag,
                                         !.due = Less(BackoffFor(0), lag)]
                          ELSE h
\* An answered failure means nothing until enough callers have seen it.
SeenBy(h, lag, who) ==
    IF h.state = "closed" /\ Cardinality(who) >= BreadthThreshold
        THEN [h EXCEPT !.state = "open", !.opened = lag, !.due = Less(BackoffFor(0), lag)]
        ELSE h

\* record.
Record(h, obs, lag, who) ==
    CASE obs = "Success" -> NewHealth
      [] obs = "Unreachable" -> Unreached(h, lag)
      [] obs = "Undetermined" -> SeenBy(h, lag, who)
      [] obs = "Retired" -> [h EXCEPT !.failures = Counted(@), !.state = "open",
                                      !.opened = lag, !.due = Less(RetiredFor, lag)]
      [] OTHER -> h

-----------------------------------------------------------------------------
(* The store, and a call through it. *)

\* claim_probe, as the update that settles which replica has it.
Claimed(h) == [h EXCEPT !.state = "half_open", !.due = ProbeLease]
\* Mutant: the claim trusts the verdict.
ClaimableByVerdict == TRUE
Claimable == row.due # Never /\ row.due = 0

Set(c, r) == call' = [call EXCEPT ![c] = r]
At(c, pc) == call[c].pc = pc

\* check, up to the claim: load fails open, and an open circuit turns the call
\* away unless its probe is due.
Check(c) ==
    /\ At(c, "idle")
    /\ CASE Verdict(row) = "allow" -> Set(c, [Idle EXCEPT !.pc = "calling"])
         [] Verdict(row) = "probe" -> Set(c, [Idle EXCEPT !.pc = "claiming"])
         [] OTHER -> FALSE
    /\ UNCHANGED <<row, sightings, up, crashes, voices, grounds, lease>>

\* check, the claim: the losers are turned away.
Claim(c) ==
    /\ At(c, "claiming")
    /\ IF Claimable
         THEN /\ row' = Claimed(row)
              /\ lease' = ProbeLease
              /\ Set(c, [call[c] EXCEPT !.pc = "calling"])
         ELSE Set(c, Idle) /\ UNCHANGED <<row, lease>>
    /\ UNCHANGED <<sightings, up, crashes, voices, grounds>>

\* What a call may meet, by whether the endpoint answers.
Meets == IF up THEN {"Success"} ELSE Observations \ {"Success"}

\* observation_for, and observe as far as the sighting, which is written first.
Answer(c) ==
    /\ At(c, "calling")
    /\ \E obs \in Meets, who \in Callers :
         /\ Set(c, IF obs = "NotEvidence" THEN Idle
                   ELSE [call[c] EXCEPT !.pc = "loading", !.obs = obs,
                                        !.caller = IF obs = "Undetermined" THEN who ELSE Never])
         /\ IF obs = "Undetermined"
              THEN /\ sightings' = sightings \cup {<<who, 0>>}
                   /\ voices' = voices \cup {who}
              ELSE UNCHANGED <<sightings, voices>>
         /\ grounds' = CASE obs = "Unreachable" -> Counted(grounds)
                         [] obs = "Retired" -> FailureThreshold
                         [] OTHER -> grounds
    /\ UNCHANGED <<row, up, crashes, lease>>

\* load, its first statement: the row, whatever is still being decided on it.
LoadRow(c) ==
    /\ At(c, "loading")
    /\ Set(c, [call[c] EXCEPT !.pc = "reading", !.health = row])
    /\ UNCHANGED <<row, sightings, up, crashes, voices, grounds, lease>>

\* load, its second statement: the sightings inside the window; and record,
\* which decides the row to be written from what was loaded.
LoadSightings(c) ==
    /\ At(c, "reading")
    /\ LET seen == {s[1] : s \in {x \in sightings : x[2] < BreadthWindow}}
           next == Record(call[c].health, call[c].obs, call[c].lag,
                          seen \cup {call[c].caller})
       IN  Set(c, [call[c] EXCEPT !.pc = "storing", !.health = next, !.caller = Never])
    /\ UNCHANGED <<row, sightings, up, crashes, voices, grounds, lease>>

\* store: the whole row, as it was decided. The sightings that a success
\* cleared in memory stay in their table.
Store(c) ==
    /\ At(c, "storing")
    /\ row' = call[c].health
    /\ lease' = 0
    /\ Set(c, Idle)
    /\ UNCHANGED <<sightings, up, crashes, voices, grounds>>

\* A replica dies, or the database answers none of its statements: a call is
\* over without a trace, and a check fails open.
Crash(c) ==
    /\ ~At(c, "idle") /\ crashes < MaxCrashes
    /\ crashes' = crashes + 1
    /\ Set(c, Idle)
    /\ UNCHANGED <<row, sightings, up, voices, grounds, lease>>

FailOpen(c) ==
    /\ At(c, "idle") /\ crashes < MaxCrashes
    /\ crashes' = crashes + 1
    /\ Set(c, [Idle EXCEPT !.pc = "calling"])
    /\ UNCHANGED <<row, sightings, up, voices, grounds, lease>>

Aged(h) == [h EXCEPT !.due = IF @ = Never THEN Never ELSE Less(@, 1),
                     !.opened = IF @ = Never THEN Never ELSE AtMost(@ + 1, MaxBackoff + MaxLag)]

\* The instant that observe notes is before everything it reads.
Observing(c) == call[c].pc \in {"loading", "reading", "storing"}
Tick ==
    /\ \A c \in Calls : Observing(c) => call[c].lag < MaxLag
    /\ row' = Aged(row)
    /\ sightings' = {<<s[1], AtMost(s[2] + 1, BreadthWindow)>> : s \in sightings}
    /\ call' = [c \in Calls |->
                  IF Observing(c) THEN [call[c] EXCEPT !.lag = @ + 1, !.health = Aged(@)]
                                  ELSE call[c]]
    /\ lease' = Less(lease, 1)
    /\ UNCHANGED <<up, crashes, voices, grounds>>

\* forget_stale_sightings, which may delete only what no load reads.
Forget ==
    /\ \E s \in sightings : s[2] = BreadthWindow
    /\ sightings' = {s \in sightings : s[2] < BreadthWindow}
    /\ UNCHANGED <<row, call, up, crashes, voices, grounds, lease>>

\* The endpoint goes down and comes back.
Turn ==
    /\ up' = ~up
    /\ UNCHANGED <<row, sightings, call, crashes, voices, grounds, lease>>

Observe(c) == LoadRow(c) \/ LoadSightings(c) \/ Store(c)
Step(c) == Check(c) \/ Claim(c) \/ Answer(c) \/ Observe(c)
Next ==
    \/ \E c \in Calls : Step(c) \/ Crash(c) \/ FailOpen(c)
    \/ Tick \/ Forget \/ Turn
Spec == Init /\ [][Next]_vars

\* Somebody keeps calling, a call that was begun goes on, and time passes.
FairSpec == Spec /\ WF_vars(Tick) /\ \A c \in Calls : WF_vars(Step(c))

-----------------------------------------------------------------------------
(* Properties. *)

TypeOK ==
    /\ row \in Health
    /\ sightings \subseteq Callers \X (0..BreadthWindow)
    /\ call \in [Calls -> [pc : {"idle", "claiming", "calling", "loading", "reading", "storing"},
                           caller : Callers \cup {Never}, obs : Observations,
                           lag : 0..MaxLag, health : Health]]
    /\ up \in BOOLEAN /\ crashes \in 0..MaxCrashes
    /\ voices \subseteq Callers
    /\ grounds \in 0..FailureThreshold /\ lease \in 0..ProbeLease

\* A circuit that is not closed has a probe to wait for, whatever the replicas
\* wrote over one another: the claim of breaker::check matches no row without
\* one, so such a circuit would never close.
OpenIsScheduled == row.state # "closed" => row.due # Never

\* However the statements of the replicas interleave, a circuit is open only
\* if enough unambiguous failures were seen, or answered ones by enough
\* callers: what one caller meets speaks for nobody else (record).
OpensOnEvidence ==
    row.state # "closed" =>
        grounds >= FailureThreshold \/ Cardinality(voices) >= BreadthThreshold

\* A circuit opens on evidence, and one that is open will be tried again.
CircuitSound == TypeOK /\ OpenIsScheduled /\ OpensOnEvidence

Wins(c) == At(c, "claiming") /\ call'[c].pc = "calling"

\* While a claimed probe has its lease and nobody has recorded an observation,
\* no other replica claims one: the update of breaker::check settles who has it.
OneClaimPerLease == [][\A c \in Calls : Wins(c) => lease = 0]_vars
=============================================================================
