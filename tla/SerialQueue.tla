----------------------------- MODULE SerialQueue -----------------------------
(***************************************************************************)
(* What the job queue promises the rest of the system, with no database in *)
(* it: jobs have one of the states of JobState, a claim starts a set of    *)
(* pending jobs at once, no two jobs of one serial key run together, and a *)
(* job moves only along the arrows below. JobQueue implements this.        *)
(***************************************************************************)
CONSTANTS Jobs, Key, NoKey

VARIABLE state

Exclusive(S) ==
    \A i, j \in S : Key[i] # NoKey /\ Key[i] = Key[j] => i = j

RunningJobs == {j \in Jobs : state[j] = "running"}

Init == state = [j \in Jobs |-> "absent"]

Move(S, to) == state' = [j \in Jobs |-> IF j \in S THEN to ELSE state[j]]

Enqueue(j) == state[j] = "absent" /\ Move({j}, "pending")

\* A whole claim takes effect at once, and only if the keys allow it.
Claim(S) ==
    /\ \A j \in S : state[j] = "pending"
    /\ Exclusive(RunningJobs \cup S)
    /\ Move(S, "running")

\* The holder, or the reaper when the holder is gone, ends a run.
Settle(j) ==
    /\ state[j] = "running"
    /\ \E s \in {"succeeded", "failed", "cancelled", "pending", "parked"} : Move({j}, s)

Reap ==
    \E f \in [Jobs -> {"failed", "cancelled", "pending"}], S \in SUBSET RunningJobs :
        state' = [j \in Jobs |-> IF j \in S THEN f[j] ELSE state[j]]

\* A stop ends what has not started; what is running it does not touch.
Cancel(S) ==
    /\ \A j \in S : state[j] \in {"pending", "parked"}
    /\ Move(S, "cancelled")

Resume(S) == (\A j \in S : state[j] = "parked") /\ Move(S, "pending")

Retry(j) == state[j] = "failed" /\ Move({j}, "pending")

Next ==
    \/ \E j \in Jobs : Enqueue(j) \/ Settle(j) \/ Retry(j)
    \/ \E S \in SUBSET Jobs : Claim(S) \/ Cancel(S) \/ Resume(S)
    \/ Reap

Spec == Init /\ [][Next]_state
=============================================================================
