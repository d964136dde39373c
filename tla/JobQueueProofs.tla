--------------------------- MODULE JobQueueProofs ---------------------------
(***************************************************************************)
(* Proofs about the job queue, for any jobs, keys, claimers and bounds.    *)
(*                                                                         *)
(* The inductive invariant is in two parts: what holds of each row by      *)
(* itself (RowOK), and what the claim transactions rely on                 *)
(* (ClaimDiscipline with SerialExclusion). Every operation that is not a   *)
(* claim is a quiet step: it starts nothing, and leaves locked rows alone. *)
(***************************************************************************)
EXTENDS JobQueue, TLAPS

RowOK(r) ==
    /\ r \in Row
    /\ r.state = "running" <=> r.token # NoToken
    /\ r.state \in {"pending", "parked"} => r.attempts < MaxAttempts
    /\ r.state = "running" => r.attempts >= 1 /\ r.attempts <= MaxAttempts

RowsOK == jobs \in [Jobs -> Row] /\ \A j \in Jobs : RowOK(jobs[j])

Inv == TypeOK /\ RowsOK /\ ClaimDiscipline /\ SerialExclusion

\* A step that is no claim's: rows stay well formed, nothing starts running,
\* a row some claimer has locked keeps its state.
Quiet ==
    /\ UNCHANGED claimVars
    /\ tickets' \subseteq tickets
    /\ jobs' \in [Jobs -> Row]
    /\ \A j \in Jobs : /\ RowOK(jobs'[j])
                       /\ jobs'[j].state = "running" => jobs[j].state = "running"
                       /\ jobs[j].state = "pending" /\ Locked(j) =>
                             jobs'[j].state = "pending"

-----------------------------------------------------------------------------
(* Rows. *)

\* A row the queue takes back, in any of the states it may take it back to,
\* is well formed: the lease goes with the state.
LEMMA UnleasedOK ==
    ASSUME NEW r \in Row, NEW s \in JobStates, s # "running",
           s \in {"pending", "parked"} => r.attempts < MaxAttempts
    PROVE  /\ RowOK(Unleased(r, s))
           /\ Unleased(r, s).attempts = r.attempts
           /\ Unleased(r, s).releases = r.releases
           /\ Unleased(r, s).state = s
  BY DEF RowOK, Unleased, Row, JobStates

\* A failure or a reap sends a row back to the queue only if it has an
\* attempt left.
LEMMA FailureStateOK ==
    ASSUME NEW r \in Row, NEW g \in BOOLEAN
    PROVE  /\ FailureState(r, g) \in {"cancelled", "failed", "pending"}
           /\ FailureState(r, g) = "pending" => r.attempts < MaxAttempts
  BY BoundsAssumption DEF FailureState, Row

\* An attempt given back leaves one to use: a hand-back or a park of a
\* running row returns it within its budget.
LEMMA GivenBackOK ==
    ASSUME NEW r \in Row, NEW u \in Row, RowOK(r), r.state = "running",
           u.attempts = r.attempts, u.token = NoToken, u.state # "running"
    PROVE  LET q == [u EXCEPT !.attempts = GiveBack(@)]
           IN  RowOK(q) /\ q \in Row /\ q.state # "running"
  <1>1. GiveBack(u.attempts) \in Nat /\ GiveBack(u.attempts) < MaxAttempts
    BY BoundsAssumption DEF GiveBack, RowOK, Row
  <1> QED  BY <1>1 DEF RowOK, Row

-----------------------------------------------------------------------------
(* Quiet steps. *)

\* What a holder does with its ticket (complete, fail, release, park,
\* extend_lease) changes no claim in flight and keeps the row well formed.
LEMMA TicketStepQuiet ==
    ASSUME Inv, NEW j \in Jobs, NEW t \in Tokens, TicketStep(j, t)
    PROVE  Quiet
  <1> DEFINE r == jobs[j]
  <1>1. r \in Row /\ RowOK(r) /\ jobs \in [Jobs -> Row]
    BY DEF Inv, RowsOK
  <1>2. \A i \in Jobs : RowOK(jobs[i])
    BY DEF Inv, RowsOK
  <1>3. ASSUME NEW q \in Row, RowOK(q), q.state # "running",
               Running(j), Set(j, q), Spend(j, t)
        PROVE  Quiet
    BY <1>1, <1>2, <1>3 DEF Quiet, Set, Spend, Running
  <1>4. CASE Complete(j, t)
    BY <1>1, <1>3, <1>4, UnleasedOK DEF Complete, Held, JobStates, RowOK
  <1>5. CASE MarkCancelled(j, t)
    BY <1>1, <1>3, <1>5, UnleasedOK DEF MarkCancelled, Held, JobStates, RowOK
  <1>6. ASSUME NEW g \in BOOLEAN, RecordFailure(j, t, g)
        PROVE  Quiet
    <2> DEFINE s == FailureState(r, g)
               q == [Unleased(r, s) EXCEPT !.due = g]
    <2>1. /\ s \in JobStates /\ s # "running"
          /\ s \in {"pending", "parked"} => r.attempts < MaxAttempts
      BY <1>1, FailureStateOK DEF JobStates
    <2>2. RowOK(Unleased(r, s)) /\ Unleased(r, s).state = s
      BY <1>1, <2>1, UnleasedOK
    <2>3. RowOK(q) /\ q \in Row /\ q.state # "running"
      BY <2>1, <2>2 DEF RowOK, Row
    <2> QED  BY <1>3, <1>6, <2>3 DEF RecordFailure, Held
  <1>7. CASE Release(j, t)
    <2> DEFINE spent == r.releases + 1 >= MaxReleases
               n == IF spent THEN MaxReleases ELSE r.releases + 1
               u == Unleased(r, IF spent THEN "failed" ELSE "pending")
               v == [u EXCEPT !.releases = n, !.due = FALSE]
    <2>1. n \in 0 .. MaxReleases
      BY <1>1, BoundsAssumption DEF Row
    <2>2. /\ u \in Row /\ u.attempts = r.attempts /\ u.token = NoToken
          /\ u.state # "running" /\ u.releases = r.releases
      BY <1>1 DEF Unleased, Row, JobStates
    <2>3. /\ v \in Row /\ v.attempts = r.attempts /\ v.token = NoToken
          /\ v.state # "running"
      BY <2>1, <2>2 DEF Row
    <2>4. ReleasedRow(r) = [v EXCEPT !.attempts = GiveBack(@)]
      BY <2>2 DEF ReleasedRow, Row
    <2> HIDE DEF v
    <2>5. LET q == ReleasedRow(r) IN RowOK(q) /\ q \in Row /\ q.state # "running"
      BY <1>1, <1>7, <2>3, <2>4, GivenBackOK DEF Release, Held, Running
    <2> QED  BY <1>3, <1>7, <2>5 DEF Release, Held
  <1>8. CASE Park(j, t)
    <2> DEFINE u == Unleased(r, "parked")
    <2>1. /\ u \in Row /\ u.attempts = r.attempts /\ u.token = NoToken
          /\ u.state # "running"
      BY <1>1 DEF Unleased, Row, JobStates
    <2>2. LET q == [u EXCEPT !.attempts = GiveBack(@)]
          IN  RowOK(q) /\ q \in Row /\ q.state # "running"
      BY <1>1, <1>8, <2>1, GivenBackOK DEF Park, Held, Running
    <2> QED  BY <1>3, <1>8, <2>2 DEF Park, Held
  <1>9. CASE ExtendLease(j, t)
    <2> DEFINE q == [r EXCEPT !.lapsed = FALSE]
    <2>1. RowOK(q) /\ q \in Row /\ q.state = r.state
      BY <1>1 DEF RowOK, Row
    <2> QED  BY <1>1, <1>2, <1>9, <2>1 DEF ExtendLease, Set, Quiet
  <1>10. CASE NotFound(j, t) \/ HolderLost(j, t)
    BY <1>1, <1>2, <1>10 DEF NotFound, HolderLost, Spend, Quiet
  <1> QED
    BY <1>4, <1>5, <1>6, <1>7, <1>8, <1>9, <1>10 DEF TicketStep

\* So do enqueue, request_cancel, requeue_failed and the passing of time.
LEMMA JobStepQuiet ==
    ASSUME Inv, NEW j \in Jobs, JobStep(j)
    PROVE  Quiet
  <1> DEFINE r == jobs[j]
  <1>1. r \in Row /\ RowOK(r) /\ jobs \in [Jobs -> Row]
    BY DEF Inv, RowsOK
  <1>2. \A i \in Jobs : RowOK(jobs[i])
    BY DEF Inv, RowsOK
  <1>3. ASSUME NEW q \in Row, RowOK(q), Set(j, q), UNCHANGED <<tickets, claimVars>>,
               q.state = "running" => r.state = "running",
               r.state = "pending" /\ Locked(j) => q.state = "pending"
        PROVE  Quiet
    BY <1>1, <1>2, <1>3 DEF Quiet, Set
  <1>4. CASE Enqueue(j)
    <2>1. PICK e \in BOOLEAN : Set(j, [NoRow EXCEPT !.state = "pending", !.due = e])
      BY <1>4, Zenon DEF Enqueue
    <2> DEFINE q == [NoRow EXCEPT !.state = "pending", !.due = e]
    <2>2. NoRow \in Row /\ NoRow.attempts = 0 /\ NoRow.token = NoToken
      BY BoundsAssumption DEF NoRow, Row, JobStates
    <2>3. q \in Row /\ q.state = "pending" /\ q.attempts = 0 /\ q.token = NoToken
      BY <2>2 DEF Row, JobStates
    <2>4. RowOK(q)
      BY <2>3, BoundsAssumption DEF RowOK
    <2> QED  BY <1>3, <1>4, <2>1, <2>3, <2>4 DEF Enqueue
  <1>5. CASE RequestCancel(j)
    <2> DEFINE q == CancelledRow(r)
    <2>1. /\ q \in Row /\ RowOK(q)
          /\ q.state = "running" => r.state = "running"
      BY <1>1, <1>5 DEF RequestCancel, CancelledRow, Live, Row, RowOK, JobStates
    <2> QED  BY <1>3, <1>5, <2>1 DEF RequestCancel
  <1>6. CASE RequeueFailed(j)
    <2> DEFINE q == [Unleased(r, "pending") EXCEPT
                        !.attempts = 0, !.cancel = FALSE, !.due = TRUE]
    <2>1. Unleased(r, "pending") \in Row /\ Unleased(r, "pending").token = NoToken
      BY <1>1 DEF Unleased, Row, JobStates
    <2>2. q \in Row /\ q.token = NoToken /\ q.attempts = 0
      BY <2>1 DEF Row
    <2>3. q.state = "pending"
      BY <1>1 DEF Unleased, Row
    <2>4. RowOK(q)
      BY <2>2, <2>3, BoundsAssumption DEF RowOK
    <2> QED  BY <1>3, <1>6, <2>2, <2>3, <2>4 DEF RequeueFailed
  <1>7. CASE ComeDue(j)
    <2> DEFINE q == [r EXCEPT !.due = TRUE]
    <2>1. q \in Row /\ RowOK(q) /\ q.state = r.state
      BY <1>1 DEF Row, RowOK
    <2> QED  BY <1>3, <1>7, <2>1 DEF ComeDue
  <1>8. CASE LeaseLapse(j)
    <2> DEFINE q == [r EXCEPT !.lapsed = TRUE]
    <2>1. q \in Row /\ RowOK(q) /\ q.state = r.state
      BY <1>1 DEF Row, RowOK
    <2> QED  BY <1>3, <1>8, <2>1 DEF LeaseLapse
  <1> QED  BY <1>4, <1>5, <1>6, <1>7, <1>8 DEF JobStep

\* The statements over many rows: each row they touch moves as one row would.
LEMMA ManyRowsQuiet ==
    ASSUME Inv,
           \/ ReapAbandoned
           \/ \E S \in Scopes : CancelForSession(S) \/ ResumeParked(S)
    PROVE  Quiet
  <1>1. jobs \in [Jobs -> Row] /\ \A i \in Jobs : jobs[i] \in Row /\ RowOK(jobs[i])
    BY DEF Inv, RowsOK
  <1>2. CASE ReapAbandoned
    <2>1. ASSUME NEW i \in Jobs, Abandoned(i)
          PROVE  LET q == Unleased(jobs[i], FailureState(jobs[i], FALSE))
                 IN  q \in Row /\ RowOK(q) /\ q.state # "running"
      <3>1. LET s == FailureState(jobs[i], FALSE)
            IN  /\ s \in JobStates /\ s # "running"
                /\ s \in {"pending", "parked"} => jobs[i].attempts < MaxAttempts
        BY <1>1, FailureStateOK DEF JobStates
      <3> QED  BY <1>1, <3>1, UnleasedOK DEF RowOK
    <2> QED
      BY <1>1, <1>2, <2>1 DEF ReapAbandoned, Quiet, Abandoned, Running
  <1>3. ASSUME NEW S \in Scopes, CancelForSession(S)
        PROVE  Quiet
    <2>1. ASSUME NEW i \in Jobs
          PROVE  LET q == CancelledRow(jobs[i])
                 IN  /\ q \in Row /\ RowOK(q)
                     /\ q.state = "running" => jobs[i].state = "running"
      BY <1>1 DEF CancelledRow, Row, RowOK, JobStates
    <2> QED  BY <1>1, <1>3, <2>1 DEF CancelForSession, Quiet
  <1>4. ASSUME NEW S \in Scopes, ResumeParked(S)
        PROVE  Quiet
    <2>1. ASSUME NEW i \in Jobs, jobs[i].state = "parked"
          PROVE  LET q == [jobs[i] EXCEPT !.state = "pending", !.due = TRUE]
                 IN  q \in Row /\ RowOK(q) /\ q.state = "pending"
      BY <1>1, <2>1 DEF Row, RowOK, JobStates
    <2> QED  BY <1>1, <1>4, <2>1 DEF ResumeParked, Quiet
  <1> QED  BY <1>2, <1>3, <1>4

\* A step that leaves every claim in flight alone, starts no job and changes
\* no row that a claim has locked preserves the invariant.
LEMMA QuietInv ==
    ASSUME Inv, Quiet
    PROVE  Inv'
  <1>1. TypeOK' /\ RowsOK'
    BY DEF Inv, Quiet, TypeOK, RowsOK, RowOK, claimVars
  <1>2. ClaimDiscipline'
    BY DEF Inv, Quiet, TypeOK, ClaimDiscipline, claimVars, Locked, KeyIdle, Running,
           Keyed, SameKey
  <1>3. SerialExclusion'
    BY DEF Inv, Quiet, SerialExclusion, Running, SameKey, Keyed
  <1> QED  BY <1>1, <1>2, <1>3 DEF Inv

-----------------------------------------------------------------------------
(* The claim transaction. *)

\* The first snapshot of claim() changes nothing the invariant speaks of.
LEMMA BeginInv ==
    ASSUME Inv, NEW c \in Claimers, BeginClaim(c)
    PROVE  Inv'
  <1>1. Claimable(c) \subseteq Jobs
    BY ServesAssumption DEF Claimable
  <1>2. TypeOK'
    BY <1>1 DEF Inv, TypeOK, BeginClaim
  <1>3. ClaimDiscipline'
    BY DEF Inv, TypeOK, BeginClaim, ClaimDiscipline, KeyIdle, Running, Keyed, SameKey
  <1> QED
    BY <1>2, <1>3 DEF Inv, BeginClaim, RowsOK, SerialExclusion, Running, SameKey, Keyed

\* Row locks are disjoint because a locked row is skipped; the rank leaves one
\* row of a key, and the advisory lock one claimer of a key.
LEMMA PickInv ==
    ASSUME Inv, NEW c \in Claimers, Pick(c)
    PROVE  Inv'
  <1>1. PICK C \in Candidates(c) :
            /\ cand' = [cand EXCEPT ![c] = C]
            /\ picked' = [picked EXCEPT ![c] =
                   {j \in C : Keyed(j) => FirstOfKey(j, C) /\ KeyLockFree(c, j)}]
    BY DEF Pick
  <1> DEFINE P == {j \in C : Keyed(j) => FirstOfKey(j, C) /\ KeyLockFree(c, j)}
  <1>2. C \subseteq Lockable(c)
    BY DEF Candidates
  <1>3. /\ C \subseteq Jobs
        /\ \A j \in C : jobs[j].state = "pending" /\ ~Locked(j)
    BY <1>2 DEF Lockable, Inv, TypeOK
  <1>4. TypeOK'
    BY <1>1, <1>3 DEF Inv, TypeOK, Pick
  <1>5. /\ cand \in [Claimers -> SUBSET Jobs] /\ cand[c] = {} /\ granted[c] = {}
        /\ picked \in [Claimers -> SUBSET Jobs] /\ phase[c] = "selecting"
    BY DEF Inv, TypeOK, ClaimDiscipline, Pick
  <1>6. \A i, j \in P : SameKey(i, j) => i = j
    <2> SUFFICES ASSUME NEW i \in P, NEW j \in P, SameKey(i, j)
                 PROVE  i = j
      OBVIOUS
    <2>1. FirstOfKey(i, C) /\ FirstOfKey(j, C) /\ SameKey(j, i)
      BY DEF SameKey, Keyed
    <2>2. i <= j /\ j <= i
      BY <2>1 DEF FirstOfKey
    <2> QED  BY <1>3, <2>2, JobsAssumption
  <1>7. \A d \in Claimers \ {c} : \A i \in P, j \in picked[d] :
            ~SameKey(i, j) /\ ~SameKey(j, i)
    BY DEF KeyLockFree, SameKey, Keyed
  <1>8. ClaimDiscipline'
    <2>1. ASSUME NEW d \in Claimers
          PROVE  /\ granted'[d] \subseteq picked'[d] /\ picked'[d] \subseteq cand'[d]
                 /\ phase'[d] \in {"idle", "selecting"} => cand'[d] = {}
                 /\ phase'[d] # "updated" => granted'[d] = {}
                 /\ \A j \in cand'[d] : jobs'[j].state = "pending"
                 /\ \A i, j \in picked'[d] : SameKey(i, j) => i = j
                 /\ \A j \in granted'[d] : Keyed(j) => KeyIdle(j)'
      <3>1. CASE d = c
        BY <1>1, <1>3, <1>5, <1>6, <3>1 DEF Pick, Inv, TypeOK
      <3>2. CASE d # c
        BY <1>1, <1>5, <3>2
        DEF Pick, Inv, TypeOK, ClaimDiscipline, KeyIdle, Running
      <3> QED  BY <3>1, <3>2
    <2>2. ASSUME NEW d \in Claimers, NEW e \in Claimers, d # e
          PROVE  /\ cand'[d] \cap cand'[e] = {}
                 /\ \A i \in picked'[d], j \in picked'[e] : ~SameKey(i, j)
      <3>1. CASE d = c
        BY <1>1, <1>3, <1>5, <1>7, <2>2, <3>1 DEF Locked
      <3>2. CASE e = c
        BY <1>1, <1>3, <1>5, <1>7, <2>2, <3>2 DEF Locked
      <3>3. CASE d # c /\ e # c
        BY <1>1, <1>5, <2>2, <3>3 DEF Inv, ClaimDiscipline
      <3> QED  BY <3>1, <3>2, <3>3
    <2> QED  BY <2>1, <2>2 DEF ClaimDiscipline, SameKey, Keyed
  <1> QED
    BY <1>4, <1>8 DEF Inv, Pick, RowsOK, SerialExclusion, Running, SameKey, Keyed

\* The guard of claim()'s second statement establishes that the keys of the
\* rows it grants are idle.
LEMMA UpdateInv ==
    ASSUME Inv, NEW c \in Claimers, Update(c)
    PROVE  Inv'
  <1>1. TypeOK'
    BY DEF Inv, TypeOK, Update, Granted
  <1>2. ClaimDiscipline'
    BY DEF Inv, TypeOK, Update, Granted, ClaimDiscipline, KeyIdle, Running
  <1> QED
    BY <1>1, <1>2 DEF Inv, Update, RowsOK, SerialExclusion, Running, SameKey, Keyed

\* A claim that is rolled back drops its locks and leaves every row alone.
LEMMA RollbackInv ==
    ASSUME Inv, NEW c \in Claimers, Rollback(c)
    PROVE  Inv'
  <1>1. TypeOK'
    BY DEF Inv, TypeOK, Rollback, EndClaim
  <1>2. ClaimDiscipline'
    BY DEF Inv, TypeOK, Rollback, EndClaim, ClaimDiscipline, KeyIdle, Running
  <1> QED
    BY <1>1, <1>2
    DEF Inv, Rollback, EndClaim, RowsOK, SerialExclusion, Running, SameKey, Keyed

\* What a commit does to the rows: the granted ones, pending till now, run
\* under a fresh token, and no other row changes.
LEMMA CommitRows ==
    ASSUME Inv, NEW c \in Claimers, Commit(c)
    PROVE  /\ jobs' \in [Jobs -> Row]
           /\ \A j \in granted[c] :
                 /\ j \in Jobs /\ jobs[j].state = "pending"
                 /\ RowOK(jobs'[j]) /\ jobs'[j].state = "running"
           /\ \A j \in Jobs \ granted[c] : jobs'[j] = jobs[j]
           /\ tickets \subseteq tickets'
           /\ tickets' \subseteq Jobs \X Tokens
  <1>1. PICK tok \in [granted[c] -> Tokens] :
            /\ \A j \in granted[c] : tok[j] \in FreshFor(j)
            /\ jobs' = [j \in Jobs |-> IF j \in granted[c]
                                          THEN ClaimedRow(jobs[j], tok[j])
                                          ELSE jobs[j]]
            /\ tickets' = tickets \cup {<<j, tok[j]>> : j \in granted[c]}
    BY DEF Commit
  <1>2. /\ \A j \in granted[c] : j \in Jobs /\ jobs[j].state = "pending"
        /\ jobs \in [Jobs -> Row] /\ \A j \in Jobs : jobs[j] \in Row /\ RowOK(jobs[j])
        /\ tickets \subseteq Jobs \X Tokens
    BY DEF Inv, TypeOK, RowsOK, ClaimDiscipline
  <1>3. ASSUME NEW j \in granted[c]
        PROVE  LET q == ClaimedRow(jobs[j], tok[j])
               IN  q \in Row /\ RowOK(q) /\ q.state = "running"
    <2> DEFINE r == jobs[j]
               t == tok[j]
    <2>1. /\ r \in Row /\ r.attempts < MaxAttempts /\ r.attempts \in Nat
          /\ t \in Tokens /\ t # NoToken
      BY <1>1, <1>2, TokenAssumption DEF RowOK, Row
    <2> HIDE DEF r, t
    <2> DEFINE n == r.attempts + 1
    <2>2. n \in Nat /\ ClaimedRow(r, t) = [r EXCEPT !.state = "running",
                          !.attempts = n, !.token = t, !.lapsed = FALSE]
      BY <2>1 DEF ClaimedRow, Row
    <2> HIDE DEF n
    <2>3. /\ ClaimedRow(r, t) \in Row /\ ClaimedRow(r, t).state = "running"
          /\ ClaimedRow(r, t).attempts = n
          /\ ClaimedRow(r, t).token = t
      BY <2>1, <2>2 DEF Row, JobStates
    <2>4. RowOK(ClaimedRow(r, t))
      BY <2>1, <2>3, BoundsAssumption DEF RowOK, n
    <2> QED  BY <2>3, <2>4 DEF r, t
  <1>4. /\ jobs' \in [Jobs -> Row]
        /\ \A j \in granted[c] : jobs'[j] = ClaimedRow(jobs[j], tok[j])
        /\ \A j \in Jobs \ granted[c] : jobs'[j] = jobs[j]
    BY <1>1, <1>2, <1>3
  <1>5. tickets \subseteq tickets' /\ tickets' \subseteq Jobs \X Tokens
    BY <1>1, <1>2
  <1> QED  BY <1>2, <1>3, <1>4, <1>5

\* The granted jobs' keys were idle at the guard and, since no other claimer
\* has a row of those keys, are idle still; so exclusion survives the commit,
\* and so does every other claimer's guard.
LEMMA CommitInv ==
    ASSUME Inv, NEW c \in Claimers, Commit(c)
    PROVE  Inv'
  <1> DEFINE G == granted[c]
  <1>1. /\ jobs' \in [Jobs -> Row]
        /\ \A j \in G : /\ j \in Jobs /\ jobs[j].state = "pending"
                        /\ RowOK(jobs'[j]) /\ jobs'[j].state = "running"
        /\ \A j \in Jobs \ G : jobs'[j] = jobs[j]
        /\ tickets' \subseteq Jobs \X Tokens
    BY CommitRows
  <1>2. EndClaim(c)
    BY DEF Commit
  <1>3. TypeOK' /\ RowsOK'
    BY <1>1, <1>2 DEF Inv, TypeOK, RowsOK, EndClaim
  <1>4. /\ \A i, j \in G : SameKey(i, j) => i = j
        /\ \A j \in G : Keyed(j) => KeyIdle(j)
        /\ \A d \in Claimers \ {c} : /\ G \cap cand[d] = {}
                                     /\ \A i \in G, j \in granted[d] : ~SameKey(i, j)
    BY DEF Inv, TypeOK, ClaimDiscipline
  <1>5. SerialExclusion'
    <2> SUFFICES ASSUME NEW i \in Jobs, NEW j \in Jobs, SameKey(i, j),
                        jobs'[i].state = "running", jobs'[j].state = "running"
                 PROVE  i = j
      BY DEF SerialExclusion, Running, SameKey, Keyed
    <2>1. CASE i \in G /\ j \in G
      BY <1>4, <2>1
    <2>2. CASE i \in G /\ j \notin G
      BY <1>1, <1>4, <2>2 DEF KeyIdle, SameKey, Keyed, Running
    <2>3. CASE i \notin G /\ j \in G
      BY <1>1, <1>4, <2>3 DEF KeyIdle, SameKey, Keyed, Running
    <2>4. CASE i \notin G /\ j \notin G
      BY <1>1, <2>4 DEF Inv, SerialExclusion, Running
    <2> QED  BY <2>1, <2>2, <2>3, <2>4
  <1>6. ClaimDiscipline'
    <2>1. ASSUME NEW d \in Claimers
          PROVE  /\ granted'[d] \subseteq picked'[d] /\ picked'[d] \subseteq cand'[d]
                 /\ phase'[d] \in {"idle", "selecting"} => cand'[d] = {}
                 /\ phase'[d] # "updated" => granted'[d] = {}
                 /\ \A j \in cand'[d] : jobs'[j].state = "pending"
                 /\ \A i, j \in picked'[d] : SameKey(i, j) => i = j
                 /\ \A j \in granted'[d] : Keyed(j) => KeyIdle(j)'
      <3>1. CASE d = c
        BY <1>2, <3>1 DEF EndClaim, Inv, TypeOK
      <3>2. CASE d # c
        <4>1. /\ granted'[d] = granted[d] /\ picked'[d] = picked[d]
              /\ cand'[d] = cand[d] /\ phase'[d] = phase[d]
          BY <1>2, <3>2 DEF EndClaim, Inv, TypeOK
        <4>2. \A j \in cand'[d] : j \in Jobs /\ jobs'[j].state = "pending"
          BY <1>1, <1>4, <3>2, <4>1 DEF Inv, TypeOK, ClaimDiscipline
        <4>3. \A j \in granted'[d] : Keyed(j) => KeyIdle(j)'
          <5> SUFFICES ASSUME NEW j \in granted[d], Keyed(j), NEW i \in Jobs,
                              SameKey(i, j)
                       PROVE  jobs'[i].state # "running"
            BY <4>1 DEF KeyIdle, Running, SameKey, Keyed
          <5>1. i \notin G
            BY <1>4, <3>2
          <5>2. jobs[i].state # "running"
            BY DEF Inv, ClaimDiscipline, KeyIdle, Running
          <5> QED  BY <1>1, <5>1, <5>2
        <4> QED  BY <4>1, <4>2, <4>3 DEF Inv, ClaimDiscipline
      <3> QED  BY <3>1, <3>2
    <2>2. ASSUME NEW d \in Claimers, NEW e \in Claimers, d # e
          PROVE  /\ cand'[d] \cap cand'[e] = {}
                 /\ \A i \in picked'[d], j \in picked'[e] : ~SameKey(i, j)
      BY <1>2, <2>2 DEF EndClaim, Inv, TypeOK, ClaimDiscipline
    <2> QED  BY <2>1, <2>2 DEF ClaimDiscipline, SameKey, Keyed
  <1> QED  BY <1>3, <1>5, <1>6 DEF Inv

-----------------------------------------------------------------------------
(* The theorems. *)

\* The empty table with no claim in flight satisfies the invariant.
LEMMA InitInv == Init => Inv
  <1> SUFFICES ASSUME Init PROVE Inv
    OBVIOUS
  <1>1. NoRow \in Row /\ NoRow.state = "absent" /\ NoRow.token = NoToken
    BY BoundsAssumption DEF NoRow, Row, JobStates
  <1>2. RowOK(NoRow)
    BY <1>1 DEF RowOK
  <1>3. TypeOK /\ RowsOK
    BY <1>1, <1>2 DEF Init, TypeOK, RowsOK
  <1>4. ClaimDiscipline /\ SerialExclusion
    BY <1>1 DEF Init, ClaimDiscipline, SerialExclusion, Running
  <1> QED  BY <1>3, <1>4 DEF Inv

\* Every operation of the queue preserves the invariant.
LEMMA NextInv == Inv /\ [Next]_vars => Inv'
  <1> SUFFICES ASSUME Inv, [Next]_vars PROVE Inv'
    OBVIOUS
  <1>1. ASSUME NEW c \in Claimers, ClaimStep(c)
        PROVE  Inv'
    BY <1>1, BeginInv, PickInv, UpdateInv, CommitInv, RollbackInv DEF ClaimStep
  <1>2. CASE \E j \in Jobs, t \in Tokens : TicketStep(j, t)
    BY <1>2, TicketStepQuiet, QuietInv
  <1>3. CASE \E j \in Jobs : JobStep(j)
    BY <1>3, JobStepQuiet, QuietInv
  <1>4. CASE \/ ReapAbandoned
             \/ \E S \in Scopes : CancelForSession(S) \/ ResumeParked(S)
    BY <1>4, ManyRowsQuiet, QuietInv
  <1>5. CASE UNCHANGED vars
    BY <1>5 DEF vars, Inv, TypeOK, RowsOK, ClaimDiscipline, SerialExclusion,
                Running, KeyIdle, Keyed, SameKey
  <1> QED  BY <1>1, <1>2, <1>3, <1>4, <1>5 DEF Next

\* The inductive invariant holds throughout every behaviour of the queue.
LEMMA Invariance == Spec => []Inv
  BY InitInv, NextInv, PTL DEF Spec

\* Every row, ticket and transaction of the queue keeps its type, through any
\* interleaving of claims and operations.
THEOREM TypeCorrect == Spec => []TypeOK
  <1>1. Inv => TypeOK
    BY DEF Inv
  <1> QED  BY <1>1, Invariance, PTL

\* Work sharing a serial key never runs concurrently, for any number of jobs,
\* keys and claimers, and whatever hashes of keys collide.
THEOREM Exclusion == Spec => []SerialExclusion
  <1>1. Inv => SerialExclusion
    BY DEF Inv
  <1> QED  BY <1>1, Invariance, PTL

\* What a claim in flight relies on holds until it ends.
THEOREM Discipline == Spec => []ClaimDiscipline
  <1>1. Inv => ClaimDiscipline
    BY DEF Inv
  <1> QED  BY <1>1, Invariance, PTL

\* Attempts are neither lost nor invented, for any max_attempts.
THEOREM Budget == Spec => []AttemptBudget
  <1>1. Inv => AttemptBudget
    BY BoundsAssumption DEF Inv, RowsOK, RowOK, Row, AttemptBudget, Running
  <1> QED  BY <1>1, Invariance, PTL

\* A token is on a row exactly while its job runs.
THEOREM LeaseOnRow == Spec => []LeaseIffRunning
  <1>1. Inv => LeaseIffRunning
    BY DEF Inv, RowsOK, RowOK, LeaseIffRunning, Running
  <1> QED  BY <1>1, Invariance, PTL

\* A lease that has not lapsed is ended by its holder alone.
THEOREM LeasesProtected == Spec => LeaseProtects
  <1> DEFINE ticket(j) == <<j, jobs[j].token>>
             Kept(j) == \/ Running(j)' /\ jobs'[j].token = jobs[j].token
                        \/ ticket(j) \notin tickets'
  <1>1. ASSUME Inv, [Next]_vars, NEW j \in Jobs,
               Running(j), ~jobs[j].lapsed, ticket(j) \in tickets
        PROVE  Kept(j)
    <2> USE <1>1
    <2>1. jobs \in [Jobs -> Row] /\ jobs[j] \in Row
      BY DEF Inv, RowsOK
    <2>2. ASSUME jobs'[j] = jobs[j] PROVE Kept(j)
      BY <2>2 DEF Running
    <2>3. ASSUME NEW c \in Claimers, ClaimStep(c)
          PROVE  Kept(j)
      <3>1. CASE Commit(c)
        BY <2>2, <3>1, CommitRows DEF Running
      <3>2. CASE BeginClaim(c) \/ Pick(c) \/ Update(c) \/ Rollback(c)
        BY <2>2, <3>2 DEF BeginClaim, Pick, Update, Rollback
      <3> QED  BY <2>3, <3>1, <3>2 DEF ClaimStep
    <2>4. ASSUME NEW i \in Jobs, NEW t \in Tokens, TicketStep(i, t)
          PROVE  Kept(j)
      <3>1. CASE i # j
        BY <2>1, <2>2, <2>4, <3>1
        DEF TicketStep, Complete, MarkCancelled, RecordFailure, Release, Park,
            ExtendLease, NotFound, HolderLost, Set
      <3>2. CASE i = j /\ Held(i, t) /\ Spend(i, t)
        BY <3>2 DEF Held, Spend
      <3>3. CASE i = j /\ ExtendLease(i, t)
        BY <2>1, <3>3 DEF ExtendLease, Set, Row, Running
      <3>4. CASE i = j /\ (NotFound(i, t) \/ HolderLost(i, t))
        BY <2>2, <3>4 DEF NotFound, HolderLost
      <3> QED
        BY <2>4, <3>1, <3>2, <3>3, <3>4
        DEF TicketStep, Complete, MarkCancelled, RecordFailure, Release, Park
    <2>5. ASSUME NEW i \in Jobs, JobStep(i)
          PROVE  Kept(j)
      <3>1. CASE i # j
        BY <2>1, <2>2, <2>5, <3>1
        DEF JobStep, Enqueue, RequestCancel, RequeueFailed, ComeDue, LeaseLapse, Set
      <3>2. CASE i = j /\ (RequestCancel(i) \/ ComeDue(i) \/ LeaseLapse(i))
        BY <2>1, <3>2
        DEF RequestCancel, CancelledRow, ComeDue, LeaseLapse, Set, Row, Running
      <3>3. CASE i = j /\ (Enqueue(i) \/ RequeueFailed(i))
        BY <3>3 DEF Enqueue, RequeueFailed, Running
      <3> QED  BY <2>5, <3>1, <3>2, <3>3 DEF JobStep
    <2>6. CASE ReapAbandoned
      BY <2>1, <2>2, <2>6 DEF ReapAbandoned, Abandoned
    <2>7. ASSUME NEW S \in Scopes, ResumeParked(S)
          PROVE  Kept(j)
      BY <2>1, <2>2, <2>7 DEF ResumeParked, Running
    <2>8. ASSUME NEW S \in Scopes, CancelForSession(S)
          PROVE  Kept(j)
      BY <2>1, <2>8 DEF CancelForSession, CancelledRow, Row, Running
    <2>9. CASE UNCHANGED vars
      BY <2>2, <2>9 DEF vars
    <2> QED  BY <2>3, <2>4, <2>5, <2>6, <2>7, <2>8, <2>9 DEF Next
  <1>2. Inv /\ [Next]_vars =>
            [\A j \in Jobs :
                LET tk == <<j, jobs[j].token>>
                IN  Running(j) /\ ~jobs[j].lapsed /\ tk \in tickets
                    => \/ Running(j)' /\ jobs'[j].token = jobs[j].token
                       \/ tk \notin tickets']_vars
    BY <1>1
  <1> QED  BY <1>2, Invariance, PTL DEF Spec, LeaseProtects

-----------------------------------------------------------------------------
(* The queue implements SerialQueue. *)

\* A quiet step moves no job to running, so only its arrows are to be checked;
\* these three facts name the abstract step of each kind of move.
LEMMA OneRowMove ==
    ASSUME jobs \in [Jobs -> Row], NEW j \in Jobs, NEW q \in Row, Set(j, q),
           \/ q.state = jobs[j].state
           \/ jobs[j].state = "absent" /\ q.state = "pending"
           \/ jobs[j].state = "failed" /\ q.state = "pending"
           \/ /\ jobs[j].state = "running"
              /\ q.state \in {"succeeded", "failed", "cancelled", "pending", "parked"}
           \/ jobs[j].state \in {"pending", "parked"} /\ q.state = "cancelled"
    PROVE  [Serial!Next]_[i \in Jobs |-> jobs[i].state]
  <1> DEFINE st == [i \in Jobs |-> jobs[i].state]
  <1>1. st' = [i \in Jobs |-> IF i \in {j} THEN q.state ELSE st[i]]
    BY DEF Set
  <1>2. CASE q.state = jobs[j].state
    BY <1>1, <1>2
  <1>3. CASE jobs[j].state = "absent" /\ q.state = "pending"
    <2>1. Serial!Enqueue(j)
      BY <1>1, <1>3 DEF Serial!Enqueue, Serial!Move
    <2> QED  BY <2>1 DEF Serial!Next
  <1>4. CASE jobs[j].state = "failed" /\ q.state = "pending"
    <2>1. Serial!Retry(j)
      BY <1>1, <1>4 DEF Serial!Retry, Serial!Move
    <2> QED  BY <2>1 DEF Serial!Next
  <1>5. CASE /\ jobs[j].state = "running"
             /\ q.state \in {"succeeded", "failed", "cancelled", "pending", "parked"}
    <2>1. Serial!Settle(j)
      BY <1>1, <1>5 DEF Serial!Settle, Serial!Move
    <2> QED  BY <2>1 DEF Serial!Next
  <1>6. CASE jobs[j].state \in {"pending", "parked"} /\ q.state = "cancelled"
    <2>1. Serial!Cancel({j})
      BY <1>1, <1>6 DEF Serial!Cancel, Serial!Move
    <2> QED  BY <2>1 DEF Serial!Next
  <1> QED  BY <1>2, <1>3, <1>4, <1>5, <1>6

\* A commit is the abstract claim of the rows it granted.
LEMMA CommitIsClaim ==
    ASSUME Inv, Inv', NEW c \in Claimers, Commit(c)
    PROVE  Serial!Next
  <1> DEFINE G == granted[c]
             st == [i \in Jobs |-> jobs[i].state]
  <1>1. /\ G \subseteq Jobs /\ \A j \in G : st[j] = "pending"
        /\ st' = [i \in Jobs |-> IF i \in G THEN "running" ELSE st[i]]
    BY CommitRows
  <1>2. Serial!RunningJobs \cup G = {i \in Jobs : jobs'[i].state = "running"}
    BY <1>1 DEF Serial!RunningJobs
  <1>3. Serial!Exclusive(Serial!RunningJobs \cup G)
    BY <1>2 DEF Serial!Exclusive, Inv, SerialExclusion, Running, SameKey, Keyed
  <1>4. PICK T \in SUBSET Jobs : T = G
    BY <1>1
  <1>5. Serial!Claim(T)
    BY <1>1, <1>3, <1>4 DEF Serial!Claim, Serial!Move, Serial!Exclusive
  <1> QED  BY <1>5 DEF Serial!Next

\* What a holder does with its ticket is an abstract Settle, or a stutter.
LEMMA TicketStepMoves ==
    ASSUME Inv, NEW j \in Jobs, NEW t \in Tokens, TicketStep(j, t)
    PROVE  [Serial!Next]_[i \in Jobs |-> jobs[i].state]
  <1> DEFINE r == jobs[j]
             q == jobs'[j]
  <1>1. /\ jobs \in [Jobs -> Row] /\ jobs' \in [Jobs -> Row]
        /\ q \in Row /\ r \in Row /\ RowOK(q)
    BY TicketStepQuiet DEF Inv, RowsOK, Quiet
  <1>2. CASE UNCHANGED jobs
    BY <1>2
  <1>3. CASE ExtendLease(j, t)
    <2>1. Set(j, q) /\ q.state = r.state
      BY <1>1, <1>3 DEF ExtendLease, Set, Row
    <2> QED  BY <1>1, <2>1, OneRowMove
  <1>4. ASSUME NEW p, Set(j, p), Running(j),
               p.state \in {"succeeded", "failed", "cancelled", "pending", "parked"}
        PROVE  [Serial!Next]_[i \in Jobs |-> jobs[i].state]
    <2>1. Set(j, q) /\ q = p
      BY <1>1, <1>4 DEF Set
    <2> QED  BY <1>1, <1>4, <2>1, OneRowMove DEF Running
  <1>5. CASE Complete(j, t)
    BY <1>1, <1>4, <1>5, UnleasedOK DEF Complete, Held, JobStates
  <1>6. CASE MarkCancelled(j, t)
    BY <1>1, <1>4, <1>6, UnleasedOK DEF MarkCancelled, Held, JobStates
  <1>7. ASSUME NEW g \in BOOLEAN, RecordFailure(j, t, g)
        PROVE  [Serial!Next]_[i \in Jobs |-> jobs[i].state]
    <2> DEFINE u == Unleased(r, FailureState(r, g))
    <2>1. u \in Row /\ u.state \in {"cancelled", "failed", "pending"}
      BY <1>1, FailureStateOK DEF Unleased, Row, JobStates
    <2>2. [u EXCEPT !.due = g].state \in {"cancelled", "failed", "pending"}
      BY <2>1 DEF Row
    <2> QED  BY <1>4, <1>7, <2>2 DEF RecordFailure, Held
  <1>8. CASE Release(j, t)
    <2>1. ReleasedRow(r).state \in {"failed", "pending"}
      BY <1>1 DEF ReleasedRow, Unleased, Row
    <2> QED  BY <1>4, <1>8, <2>1 DEF Release, Held
  <1>9. CASE Park(j, t)
    <2>1. [Unleased(r, "parked") EXCEPT !.attempts = GiveBack(@)].state = "parked"
      BY <1>1 DEF Unleased, Row
    <2> QED  BY <1>4, <1>9, <2>1 DEF Park, Held
  <1> QED
    BY <1>2, <1>3, <1>5, <1>6, <1>7, <1>8, <1>9 DEF TicketStep, NotFound, HolderLost

\* The operations on one job without a ticket are abstract moves, or stutters.
LEMMA JobStepMoves ==
    ASSUME Inv, NEW j \in Jobs, JobStep(j)
    PROVE  [Serial!Next]_[i \in Jobs |-> jobs[i].state]
  <1> DEFINE r == jobs[j]
             q == jobs'[j]
  <1>1. /\ jobs \in [Jobs -> Row] /\ jobs' \in [Jobs -> Row]
        /\ q \in Row /\ r \in Row
    BY JobStepQuiet DEF Inv, RowsOK, Quiet
  <1>2. Set(j, q)
    BY <1>1 DEF JobStep, Enqueue, RequestCancel, RequeueFailed, ComeDue, LeaseLapse, Set
  <1>3. CASE Enqueue(j)
    <2>1. r.state = "absent" /\ q.state = "pending"
      BY <1>1, <1>3 DEF Enqueue, Set, NoRow
    <2> QED  BY <1>1, <1>2, <2>1, OneRowMove
  <1>4. CASE RequestCancel(j)
    <2>1. \/ r.state = "running" /\ q.state = "running"
          \/ r.state \in {"pending", "parked"} /\ q.state = "cancelled"
      BY <1>1, <1>4 DEF RequestCancel, CancelledRow, Live, Set, Row
    <2> QED  BY <1>1, <1>2, <2>1, OneRowMove
  <1>5. CASE RequeueFailed(j)
    <2>1. r.state = "failed" /\ q.state = "pending"
      BY <1>1, <1>5 DEF RequeueFailed, Unleased, Set, Row
    <2> QED  BY <1>1, <1>2, <2>1, OneRowMove
  <1>6. CASE ComeDue(j) \/ LeaseLapse(j)
    <2>1. q.state = r.state
      BY <1>1, <1>6 DEF ComeDue, LeaseLapse, Set, Row
    <2> QED  BY <1>1, <1>2, <2>1, OneRowMove
  <1> QED  BY <1>3, <1>4, <1>5, <1>6 DEF JobStep

\* So are the statements over many rows: a session's cancel, a resume, a reap.
LEMMA ManyRowsMove ==
    ASSUME Inv,
           \/ ReapAbandoned
           \/ \E S \in Scopes : CancelForSession(S) \/ ResumeParked(S)
    PROVE  [Serial!Next]_[i \in Jobs |-> jobs[i].state]
  <1> DEFINE st == [i \in Jobs |-> jobs[i].state]
  <1>1. jobs \in [Jobs -> Row] /\ \A i \in Jobs : jobs[i] \in Row
    BY DEF Inv, RowsOK
  <1>2. CASE ReapAbandoned
    <2> DEFINE f == [i \in Jobs |-> FailureState(jobs[i], FALSE)]
               S == {i \in Jobs : Abandoned(i)}
    <2>1. f \in [Jobs -> {"failed", "cancelled", "pending"}]
      BY <1>1, FailureStateOK
    <2>2. S \in SUBSET Serial!RunningJobs
      BY DEF Abandoned, Running, Serial!RunningJobs
    <2>3. \A i \in Jobs : Unleased(jobs[i], f[i]).state = f[i]
      BY <1>1 DEF Unleased, Row
    <2>4. st' = [i \in Jobs |-> IF i \in S THEN f[i] ELSE st[i]]
      BY <1>2, <2>3 DEF ReapAbandoned
    <2>5. Serial!Reap
      BY <2>1, <2>2, <2>4 DEF Serial!Reap
    <2> QED  BY <2>5 DEF Serial!Next
  <1>3. ASSUME NEW X \in Scopes, CancelForSession(X)
        PROVE  [Serial!Next]_[i \in Jobs |-> jobs[i].state]
    <2> DEFINE S == {i \in X : jobs[i].state \in {"pending", "parked"}}
    <2>1. S \in SUBSET Jobs
      BY ServesAssumption
    <2>2. \A i \in Jobs : CancelledRow(jobs[i]).state =
              IF jobs[i].state \in {"pending", "parked"} THEN "cancelled"
                                                         ELSE jobs[i].state
      BY <1>1 DEF CancelledRow, Row
    <2>3. st' = [i \in Jobs |-> IF i \in S THEN "cancelled" ELSE st[i]]
      BY <1>3, <2>2 DEF CancelForSession
    <2>4. PICK T \in SUBSET Jobs : T = S
      BY <2>1
    <2>5. Serial!Cancel(T)
      BY <2>3, <2>4 DEF Serial!Cancel, Serial!Move
    <2> QED  BY <2>5 DEF Serial!Next
  <1>4. ASSUME NEW X \in Scopes, ResumeParked(X)
        PROVE  [Serial!Next]_[i \in Jobs |-> jobs[i].state]
    <2> DEFINE S == {i \in X : jobs[i].state = "parked"}
    <2>1. S \in SUBSET Jobs
      BY ServesAssumption
    <2>2. st' = [i \in Jobs |-> IF i \in S THEN "pending" ELSE st[i]]
      BY <1>1, <1>4 DEF ResumeParked, Row
    <2>3. PICK T \in SUBSET Jobs : T = S
      BY <2>1
    <2>4. Serial!Resume(T)
      BY <2>2, <2>3 DEF Serial!Resume, Serial!Move
    <2> QED  BY <2>4 DEF Serial!Next
  <1> QED  BY <1>2, <1>3, <1>4

\* Seen from outside, the queue is SerialQueue: a claim is one step that starts
\* jobs of idle keys, and jobs move only along the arrows of that module.
THEOREM Implements == Spec => ImplementsSerialQueue
  <1>1. Init => Serial!Init
    BY DEF Init, Serial!Init, NoRow
  <1>2. Inv /\ Inv' /\ [Next]_vars => [Serial!Next]_[j \in Jobs |-> jobs[j].state]
    <2> SUFFICES ASSUME Inv, Inv', [Next]_vars
                 PROVE  [Serial!Next]_[j \in Jobs |-> jobs[j].state]
      OBVIOUS
    <2>1. ASSUME NEW c \in Claimers, Commit(c)
          PROVE  [Serial!Next]_[j \in Jobs |-> jobs[j].state]
      BY <2>1, CommitIsClaim
    <2>2. ASSUME NEW c \in Claimers, BeginClaim(c) \/ Pick(c) \/ Update(c) \/ Rollback(c)
          PROVE  [Serial!Next]_[j \in Jobs |-> jobs[j].state]
      BY <2>2 DEF BeginClaim, Pick, Update, Rollback
    <2>3. CASE UNCHANGED vars
      BY <2>3 DEF vars
    <2> QED
      BY <2>1, <2>2, <2>3, TicketStepMoves, JobStepMoves, ManyRowsMove
      DEF Next, ClaimStep
  <1> QED  BY <1>1, <1>2, Invariance, PTL DEF Spec, Serial!Spec, ImplementsSerialQueue
=============================================================================
