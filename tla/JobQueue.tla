------------------------------ MODULE JobQueue ------------------------------
(***************************************************************************)
(* The durable job queue of crates/core/src/jobs: one table of jobs in     *)
(* Postgres, claimed under a lease by workers in several processes.        *)
(*                                                                         *)
(* What is concurrent is modelled at the grain the database gives it. A    *)
(* claim is a READ COMMITTED transaction of two statements: the first      *)
(* reads a snapshot, locks rows and tries advisory locks, the second takes *)
(* a fresh snapshot and updates, and the update is visible to others only  *)
(* at the commit. Every other operation is one UPDATE statement, atomic,   *)
(* which waits for a row that a claim has locked.                          *)
(*                                                                         *)
(* A lease is known to the rest of the system as a ticket, the pair of the *)
(* job and the lease token it was handed out with. Tickets outlive leases: *)
(* a holder that was slow presents a ticket whose job has been reaped and  *)
(* handed to somebody else.                                                *)
(***************************************************************************)
EXTENDS Integers, FiniteSets

CONSTANTS
    Jobs,         \* job ids: UUIDv7, so ordered by creation
    Keys, NoKey,  \* serial keys, and a job that has none
    Key,          \* the serial_key of each job
    Hash,         \* hashtext of each serial key: what the advisory lock names
    Priority,     \* the priority of each job; a lower number is more urgent
    Claimers,     \* connections running claim()
    Serves,       \* the jobs whose kind each claimer asks for
    Limit,        \* the `limit` of a claim
    Scopes,       \* the sets of jobs one resume or one session delete covers
    MaxAttempts,  \* jobs.max_attempts
    MaxReleases,  \* MAX_RELEASES
    Tokens,       \* lease tokens; a bound on the tickets out for one job
    NoToken

ASSUME JobsAssumption == Jobs \subseteq Nat
ASSUME KeyAssumption ==
    /\ NoKey \notin Keys
    /\ Key \in [Jobs -> Keys \cup {NoKey}]
ASSUME PriorityAssumption == Priority \in [Jobs -> Int]
ASSUME ServesAssumption ==
    /\ Serves \in [Claimers -> SUBSET Jobs]
    /\ Scopes \subseteq SUBSET Jobs
ASSUME BoundsAssumption ==
    /\ Limit \in Nat \ {0}
    /\ MaxAttempts \in Nat \ {0}
    /\ MaxReleases \in Nat \ {0}
ASSUME TokenAssumption == NoToken \notin Tokens

VARIABLES
    jobs,     \* the committed rows of the jobs table
    tickets,  \* the (job, token) pairs somebody still holds
    phase,    \* how far each claimer's transaction has got
    snap,     \* what its first statement saw as claimable
    cand,     \* the candidate rows it has locked
    picked,   \* the ones it ranked first and got the advisory lock for
    granted   \* the ones its update set running, not yet committed

vars == <<jobs, tickets, phase, snap, cand, picked, granted>>
claimVars == <<phase, snap, cand, picked, granted>>

JobStates ==
    {"absent", "pending", "running", "succeeded", "failed", "cancelled", "parked"}
Live == {"pending", "running", "parked"}

Row == [state    : JobStates,
        attempts : Nat,
        releases : 0 .. MaxReleases,
        token    : Tokens \cup {NoToken},
        lapsed   : BOOLEAN,              \* leased_until < now()
        due      : BOOLEAN,              \* run_after <= now()
        cancel   : BOOLEAN]              \* cancel_requested_at is not null

NoRow == [state |-> "absent", attempts |-> 0, releases |-> 0, token |-> NoToken,
          lapsed |-> FALSE, due |-> FALSE, cancel |-> FALSE]

Init ==
    /\ jobs = [j \in Jobs |-> NoRow]
    /\ tickets = {}
    /\ phase = [c \in Claimers |-> "idle"]
    /\ snap = [c \in Claimers |-> {}]
    /\ cand = [c \in Claimers |-> {}]
    /\ picked = [c \in Claimers |-> {}]
    /\ granted = [c \in Claimers |-> {}]

-----------------------------------------------------------------------------
(* What the statements read and write. *)

Running(j) == jobs[j].state = "running"
Keyed(j) == Key[j] # NoKey
SameKey(i, j) == Keyed(i) /\ Key[i] = Key[j]
\* not exists (select 1 from jobs running where ... the same serial_key)
KeyIdle(j) == \A i \in Jobs : SameKey(i, j) => ~Running(i)
Locked(j) == \E c \in Claimers : j \in cand[c]

\* Mutant: the ticket is matched on the state of the row alone.
HeldByState(j, t) == Running(j)

\* A ticket is good while its token is the one on a running row.
Held(j, t) == Running(j) /\ jobs[j].token = t

Set(j, r) == jobs' = [jobs EXCEPT ![j] = r]

Unleased(r, s) == [r EXCEPT !.state = s, !.token = NoToken, !.lapsed = FALSE]
\* greatest(attempts - 1, 0)
GiveBack(n) == IF n > 0 THEN n - 1 ELSE 0

-----------------------------------------------------------------------------
(* Enqueueing. A delay is a run_after in the future. *)

Enqueue(j) ==
    /\ jobs[j].state = "absent"
    /\ \E delayed \in BOOLEAN :
           Set(j, [NoRow EXCEPT !.state = "pending", !.due = ~delayed])
    /\ UNCHANGED <<tickets, claimVars>>

-----------------------------------------------------------------------------
(* Claiming: the two statements of the transaction. *)

\* Mutant: the busy keys are left to the guard of the second statement.
ClaimableAnyKey(c) == {j \in Serves[c] : jobs[j].state = "pending" /\ jobs[j].due}

\* Keys already running are left out here, before the limit is applied.
Claimable(c) ==
    {j \in Serves[c] : /\ jobs[j].state = "pending"
                       /\ jobs[j].due
                       /\ Keyed(j) => KeyIdle(j)}

BeginClaim(c) ==
    /\ phase[c] = "idle"
    /\ phase' = [phase EXCEPT ![c] = "selecting"]
    /\ snap' = [snap EXCEPT ![c] = Claimable(c)]
    /\ UNCHANGED <<jobs, tickets, cand, picked, granted>>

\* `for update skip locked` re-checks each row against its latest version,
\* and never re-evaluates the `not exists` of the snapshot.
Lockable(c) ==
    {j \in snap[c] : jobs[j].state = "pending" /\ jobs[j].due /\ ~Locked(j)}

\* The first `limit` lockable rows by priority; run_after, which orders rows
\* of one priority, is left open.
Candidates(c) ==
    LET free == Lockable(c)
        n == Cardinality(free)
    IN  {C \in SUBSET free :
             /\ Cardinality(C) = IF n < Limit THEN n ELSE Limit
             /\ \A i \in C, j \in free \ C : Priority[i] <= Priority[j]}

\* Mutant: no ranking inside one batch.
EveryOneFirst(j, C) == TRUE

\* row_number() over (partition by serial_key order by id) = 1
FirstOfKey(j, C) == \A i \in C : SameKey(i, j) => j <= i

\* Mutant: no advisory lock.
NoKeyLock(c, j) == TRUE

\* pg_try_advisory_xact_lock(hashtext(serial_key))
KeyLockFree(c, j) ==
    \A d \in Claimers \ {c} : \A i \in picked[d] :
        Keyed(i) => Hash[Key[i]] # Hash[Key[j]]

Pick(c) ==
    /\ phase[c] = "selecting"
    /\ \E C \in Candidates(c) :
           /\ cand' = [cand EXCEPT ![c] = C]
           /\ picked' = [picked EXCEPT ![c] =
                  {j \in C : Keyed(j) => FirstOfKey(j, C) /\ KeyLockFree(c, j)}]
    /\ phase' = [phase EXCEPT ![c] = "picked"]
    /\ snap' = [snap EXCEPT ![c] = {}]
    /\ UNCHANGED <<jobs, tickets, granted>>

\* Mutant: the first statement's check of the key is trusted.
GrantedUnchecked(c) == picked[c]

\* The guard of the second statement, on a snapshot of its own.
Granted(c) == {j \in picked[c] : Keyed(j) => KeyIdle(j)}

Update(c) ==
    /\ phase[c] = "picked"
    /\ picked[c] # {}
    /\ granted' = [granted EXCEPT ![c] = Granted(c)]
    /\ phase' = [phase EXCEPT ![c] = "updated"]
    /\ UNCHANGED <<jobs, tickets, snap, cand, picked>>

EndClaim(c) ==
    /\ phase' = [phase EXCEPT ![c] = "idle"]
    /\ snap' = [snap EXCEPT ![c] = {}]
    /\ cand' = [cand EXCEPT ![c] = {}]
    /\ picked' = [picked EXCEPT ![c] = {}]
    /\ granted' = [granted EXCEPT ![c] = {}]

ClaimedRow(r, t) ==
    [r EXCEPT !.state = "running", !.attempts = @ + 1, !.token = t, !.lapsed = FALSE]

\* gen_random_uuid(): a token nobody holds a ticket with.
FreshFor(j) == {t \in Tokens : <<j, t>> \notin tickets}

Commit(c) ==
    /\ phase[c] = "updated"
    /\ \E tok \in [granted[c] -> Tokens] :
           /\ \A j \in granted[c] : tok[j] \in FreshFor(j)
           /\ jobs' = [j \in Jobs |-> IF j \in granted[c]
                                         THEN ClaimedRow(jobs[j], tok[j])
                                         ELSE jobs[j]]
           /\ tickets' = tickets \cup {<<j, tok[j]>> : j \in granted[c]}
    /\ EndClaim(c)

\* Nothing was picked, a statement failed, or the claimer died.
Rollback(c) ==
    /\ phase[c] # "idle"
    /\ EndClaim(c)
    /\ UNCHANGED <<jobs, tickets>>

-----------------------------------------------------------------------------
(* What a ticket is good for. Each of these matches the row on its token,  *)
(* and spends the ticket. NotFound is what every one of them does with a   *)
(* ticket that is no longer good: nothing, and the holder gives up.        *)

Spend(j, t) ==
    /\ <<j, t>> \in tickets
    /\ tickets' = tickets \ {<<j, t>>}
    /\ UNCHANGED claimVars

Complete(j, t) ==
    /\ Held(j, t)
    /\ Spend(j, t)
    /\ Set(j, Unleased(jobs[j], "succeeded"))

MarkCancelled(j, t) ==
    /\ Held(j, t)
    /\ Spend(j, t)
    /\ Set(j, Unleased(jobs[j], "cancelled"))

\* Mutants: one attempt too many, and a stop that a failure forgets.
FailureStateLate(r, forGood) ==
    CASE r.cancel -> "cancelled"
      [] ~r.cancel /\ (forGood \/ r.attempts > MaxAttempts) -> "failed"
      [] OTHER -> "pending"
FailureStateForgetsCancel(r, forGood) ==
    IF forGood \/ r.attempts >= MaxAttempts THEN "failed" ELSE "pending"

FailureState(r, forGood) ==
    CASE r.cancel -> "cancelled"
      [] ~r.cancel /\ (forGood \/ r.attempts >= MaxAttempts) -> "failed"
      [] OTHER -> "pending"

RecordFailure(j, t, forGood) ==
    /\ Held(j, t)
    /\ Spend(j, t)
    /\ Set(j, [Unleased(jobs[j], FailureState(jobs[j], forGood))
                  EXCEPT !.due = forGood])

\* Mutant: a job may be handed back for ever.
ReleasedForEver(r) ==
    [Unleased(r, "pending") EXCEPT
        !.releases = @ + 1, !.attempts = GiveBack(@), !.due = FALSE]

\* `releases` is only ever compared with MAX_RELEASES, so it stops there.
ReleasedRow(r) ==
    LET spent == r.releases + 1 >= MaxReleases
    IN  [Unleased(r, IF spent THEN "failed" ELSE "pending") EXCEPT
            !.releases = IF spent THEN MaxReleases ELSE @ + 1,
            !.attempts = GiveBack(@),
            !.due = FALSE]

Release(j, t) ==
    /\ Held(j, t)
    /\ Spend(j, t)
    /\ Set(j, ReleasedRow(jobs[j]))

Park(j, t) ==
    /\ Held(j, t)
    /\ Spend(j, t)
    /\ Set(j, [Unleased(jobs[j], "parked") EXCEPT !.attempts = GiveBack(@)])

ExtendLease(j, t) ==
    /\ Held(j, t)
    /\ <<j, t>> \in tickets
    /\ Set(j, [jobs[j] EXCEPT !.lapsed = FALSE])
    /\ UNCHANGED <<tickets, claimVars>>

NotFound(j, t) ==
    /\ ~Held(j, t)
    /\ Spend(j, t)
    /\ UNCHANGED jobs

\* The process holding the ticket dies, or drops the work without a word.
HolderLost(j, t) ==
    /\ Spend(j, t)
    /\ UNCHANGED jobs

-----------------------------------------------------------------------------
(* What needs no ticket. *)

CancelledRow(r) ==
    CASE r.state \in {"pending", "parked"} ->
             [r EXCEPT !.cancel = TRUE, !.state = "cancelled", !.lapsed = FALSE]
      [] r.state = "running" -> [r EXCEPT !.cancel = TRUE]
      [] OTHER -> r

RequestCancel(j) ==
    /\ jobs[j].state \in Live
    /\ ~Locked(j)
    /\ Set(j, CancelledRow(jobs[j]))
    /\ UNCHANGED <<tickets, claimVars>>

CancelForSession(S) ==
    /\ \E j \in S : jobs[j].state \in Live
    /\ \A j \in S : ~Locked(j)
    /\ jobs' = [j \in Jobs |-> IF j \in S THEN CancelledRow(jobs[j]) ELSE jobs[j]]
    /\ UNCHANGED <<tickets, claimVars>>

RequeueFailed(j) ==
    /\ jobs[j].state = "failed"
    /\ Set(j, [Unleased(jobs[j], "pending") EXCEPT
                  !.attempts = 0, !.cancel = FALSE, !.due = TRUE])
    /\ UNCHANGED <<tickets, claimVars>>

ResumeParked(S) ==
    /\ \E j \in S : jobs[j].state = "parked"
    /\ jobs' = [j \in Jobs |->
                   IF j \in S /\ jobs[j].state = "parked"
                      THEN [jobs[j] EXCEPT !.state = "pending", !.due = TRUE]
                      ELSE jobs[j]]
    /\ UNCHANGED <<tickets, claimVars>>

Abandoned(j) == Running(j) /\ jobs[j].lapsed

\* One statement over every lapsed lease.
ReapAbandoned ==
    /\ \E j \in Jobs : Abandoned(j)
    /\ jobs' = [j \in Jobs |->
                   IF Abandoned(j)
                      THEN Unleased(jobs[j], FailureState(jobs[j], FALSE))
                      ELSE jobs[j]]
    /\ UNCHANGED <<tickets, claimVars>>

-----------------------------------------------------------------------------
(* Time: a delay runs out, a lease goes unrenewed for too long. *)

ComeDue(j) ==
    /\ jobs[j].state # "absent"
    /\ ~jobs[j].due
    /\ Set(j, [jobs[j] EXCEPT !.due = TRUE])
    /\ UNCHANGED <<tickets, claimVars>>

LeaseLapse(j) ==
    /\ Running(j)
    /\ ~jobs[j].lapsed
    /\ Set(j, [jobs[j] EXCEPT !.lapsed = TRUE])
    /\ UNCHANGED <<tickets, claimVars>>

-----------------------------------------------------------------------------
ClaimStep(c) == BeginClaim(c) \/ Pick(c) \/ Update(c) \/ Commit(c) \/ Rollback(c)

TicketStep(j, t) ==
    \/ Complete(j, t) \/ MarkCancelled(j, t)
    \/ \E forGood \in BOOLEAN : RecordFailure(j, t, forGood)
    \/ Release(j, t) \/ Park(j, t) \/ ExtendLease(j, t)
    \/ NotFound(j, t) \/ HolderLost(j, t)

JobStep(j) ==
    Enqueue(j) \/ RequestCancel(j) \/ RequeueFailed(j) \/ ComeDue(j) \/ LeaseLapse(j)

Next ==
    \/ \E c \in Claimers : ClaimStep(c)
    \/ \E j \in Jobs, t \in Tokens : TicketStep(j, t)
    \/ \E j \in Jobs : JobStep(j)
    \/ \E S \in Scopes : CancelForSession(S) \/ ResumeParked(S)
    \/ ReapAbandoned

Spec == Init /\ [][Next]_vars

(***************************************************************************)
(* Fairness. RecoveryFairness: the reaper ticks for ever in every api      *)
(* process and its failed ticks are retried (worker/sweeps.rs), and a      *)
(* lease nobody is left to renew runs out with the clock. ClaimFairness:   *)
(* workers poll for ever, so a claim that may start does, and its          *)
(* statements are executed; a claimer may be lost at any point, but not at *)
(* the same point every time, which is what the strong fairness of the     *)
(* later statements says; and a late holder finds out in the end that its  *)
(* ticket is no good. Nothing else is assumed of holders: one may keep a   *)
(* job for ever, and need not report.                                      *)
(***************************************************************************)
Orphaned(j) == Running(j) /\ <<j, jobs[j].token>> \notin tickets

RecoveryFairness ==
    /\ WF_vars(ReapAbandoned)
    /\ \A j \in Jobs : WF_vars(Orphaned(j) /\ LeaseLapse(j))

ClaimFairness ==
    /\ WF_vars(\E j \in Jobs, t \in Tokens : NotFound(j, t))
    /\ \A c \in Claimers :
           /\ WF_vars(ClaimStep(c))
           /\ SF_vars(Pick(c))
           /\ SF_vars(Update(c))
           /\ SF_vars(Commit(c))

-----------------------------------------------------------------------------
TypeOK ==
    /\ jobs \in [Jobs -> Row]
    /\ tickets \subseteq Jobs \X Tokens
    /\ phase \in [Claimers -> {"idle", "selecting", "picked", "updated"}]
    /\ snap \in [Claimers -> SUBSET Jobs]
    /\ cand \in [Claimers -> SUBSET Jobs]
    /\ picked \in [Claimers -> SUBSET Jobs]
    /\ granted \in [Claimers -> SUBSET Jobs]

\* Work sharing a serial key never runs concurrently, however many claimers
\* race through claim() with stale snapshots (enqueue's serial_key, claim).
SerialExclusion ==
    \A i, j \in Jobs : Running(i) /\ Running(j) /\ SameKey(i, j) => i = j

\* Why exclusion holds: what a transaction in flight may rely on. Candidate
\* rows are pending and locked by one claimer; a claimer picks one row of a
\* key, and two claimers never hold rows of one key; and from the moment the
\* guard of the second statement has passed until the commit, no job of that
\* key starts running (claim's comment on its two statements).
ClaimDiscipline ==
    /\ \A c \in Claimers :
           /\ granted[c] \subseteq picked[c] /\ picked[c] \subseteq cand[c]
           /\ phase[c] \in {"idle", "selecting"} => cand[c] = {}
           /\ phase[c] # "updated" => granted[c] = {}
           /\ \A j \in cand[c] : jobs[j].state = "pending"
           /\ \A i, j \in picked[c] : SameKey(i, j) => i = j
           /\ \A j \in granted[c] : Keyed(j) => KeyIdle(j)
    /\ \A c, d \in Claimers : c # d =>
           /\ cand[c] \cap cand[d] = {}
           /\ \A i \in picked[c], j \in picked[d] : ~SameKey(i, j)

\* A job that can be claimed, now or after a resume, has an attempt left, and
\* a running one is within max_attempts: hand-backs, parks, failures and reaps
\* in any order never lose or invent an attempt (record_failure, release,
\* park_on, reap_abandoned).
AttemptBudget ==
    \A j \in Jobs :
        /\ jobs[j].state \in {"pending", "parked"} => jobs[j].attempts < MaxAttempts
        /\ Running(j) => jobs[j].attempts \in 1 .. MaxAttempts

\* A token is on the row exactly while the job runs, so that no ticket of an
\* earlier claim can match one the queue has taken back (holds_lease).
LeaseIffRunning ==
    \A j \in Jobs : Running(j) <=> jobs[j].token # NoToken

\* A lease that has not lapsed is ended by its holder alone: no late holder,
\* reaper, canceller, resume or other claim takes a running job away from the
\* ticket it was handed out with (the token match of complete, fail, release,
\* park and extend_lease).
LeaseProtects ==
    [][\A j \in Jobs :
          LET ticket == <<j, jobs[j].token>>
          IN  Running(j) /\ ~jobs[j].lapsed /\ ticket \in tickets
              => \/ Running(j)' /\ jobs'[j].token = jobs[j].token
                 \/ ticket \notin tickets']_vars

\* A job whose holder died does not stay running: the lease lapses and the
\* reaper takes it back (reap_abandoned: "what makes a crashed worker
\* recoverable"); and if somebody had asked it to stop, it is over.
OrphanRecovered ==
    \A j \in Jobs :
        /\ Orphaned(j) ~> ~Running(j)
        /\ Orphaned(j) /\ jobs[j].cancel ~> jobs[j].state = "cancelled"

\* Claiming never stalls: while something stays claimable, claims go on being
\* granted, and a busy key at the head of the order does not use up the limit
\* of every claim (the candidate filter of claim's first statement).
Grant(c) == Commit(c) /\ granted[c] # {}
ClaimsGoOn ==
    \/ []<>(\A c \in Claimers : Claimable(c) = {})
    \/ []<><<\E c \in Claimers : Grant(c)>>_vars

\* Neither a dead holder nor a busy key keeps the queue from serving the rest
\* (reap_abandoned, and the candidate filter of claim).
KeepsServing == OrphanRecovered /\ ClaimsGoOn

\* Seen from outside, the two-statement claim is one step that starts jobs of
\* idle keys, and every operation moves jobs along SerialQueue's arrows: what
\* succeeded or was cancelled never runs again, and what failed only by retry.
Serial == INSTANCE SerialQueue WITH state <- [j \in Jobs |-> jobs[j].state]
ImplementsSerialQueue == Serial!Spec

\* A pending job may be handed back at least once before it is treated as
\* failed: what MAX_RELEASES and the reset in requeue_failed promise.
ReleaseBudget ==
    \A j \in Jobs : jobs[j].state = "pending" => jobs[j].releases + 1 <= MaxReleases
=============================================================================
