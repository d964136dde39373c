----------------------------- MODULE MCJobQueue -----------------------------
(***************************************************************************)
(* Instances of JobQueue. Jobs 1 and 2 are two turns of one conversation,  *)
(* job 3 a turn of another, whose key has the same hash or not.            *)
(***************************************************************************)
EXTENDS JobQueue, TLC

CONSTANTS A, B, t1, t2, c1, c2

KeysDef == {A, B}
TokensDef == {t1, t2}
ClaimersDef == {c1, c2}
OneClaimer == {c1}
OneToken == {t1}

Jobs2 == {1, 2}
Key2 == <<A, A>>
Prio2 == <<10, 10>>

Jobs3 == {1, 2, 3}
Key3 == <<A, A, B>>
Prio3 == <<10, 10, 100>>

HashApart == A :> 1 @@ B :> 2
HashSame == A :> 1 @@ B :> 1

ServesAll == [c \in Claimers |-> Jobs]
ScopesAll == {Jobs}
NoScopes == {}

\* For the fair run with three jobs, nobody fails or parks a turn by hand, which only takes jobs
\* away from the claimers, and one of the three may be asked to stop.
BusyNext ==
    \/ \E c \in Claimers : ClaimStep(c)
    \/ \E j \in Jobs, t \in Tokens :
           Complete(j, t) \/ Release(j, t) \/ NotFound(j, t) \/ HolderLost(j, t)
    \/ \E j \in Jobs :
           Enqueue(j) \/ RequeueFailed(j) \/ ComeDue(j) \/ LeaseLapse(j)
    \/ ReapAbandoned
    \/ RequestCancel(3)

BusySpec == Init /\ [][BusyNext]_vars /\ RecoveryFairness /\ ClaimFairness

ClaimSymmetry == Permutations(TokensDef) \cup Permutations(ClaimersDef)
=============================================================================
