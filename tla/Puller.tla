------------------------------- MODULE Puller -------------------------------
(***************************************************************************)
(* Runtime pods asking the API for turns (runtime/puller.rs) against their *)
(* own slots and memory (runtime/admission.rs), and stopping               *)
(* (core/lifecycle.rs).  A pod's loop holds a permit while it asks; the    *)
(* permit goes with the turn it is given and comes back when the turn's    *)
(* report has been answered.  The guest runs in a task of its own, beside  *)
(* the request that reports it.  A turn is one lease of one job.           *)
(***************************************************************************)
EXTENDS Integers, FiniteSets, FiniteSetsExt

CONSTANTS Pods, Jobs,
          Limit,       \* turns a pod carries at once
          Mem,         \* what a pod may allocate
          Reserve,     \* kept clear for turns to grow
          Assumed,     \* charged for a turn
          Extra,       \* charged on top for a file being written or rendered
          MaxLeases,   \* times a job is handed out
          Budget, None

PullerAssumption ==
    Limit \in Nat \ {0} /\ {Mem, Reserve, Assumed, Extra, MaxLeases} \subseteq Nat

VARIABLES jobs,      \* the API's queue: state, the lease it stands under
          pods,      \* each pod's loop, what it was answered, whether told to stop
          reserved,  \* Admission.reserved: bytes charged
          turns,     \* each lease's turn on its pod; `blind` is what of it was charged with
               \* no look at memory that stood
          left

vars == <<jobs, pods, reserved, turns, left>>

Leases == Jobs \X (1..MaxLeases)
NoTurn == [pod |-> None, guest |-> "none", report |-> "none", permit |-> FALSE,
           used |-> 0, charge |-> "none", refused |-> FALSE, blind |-> {}]

Init ==
    /\ jobs = [j \in Jobs |-> [state |-> "pending", lease |-> 0]]
    /\ pods = [p \in Pods |-> [pc |-> "loop", t |-> None, stop |-> FALSE, blind |-> FALSE]]
    /\ reserved = [p \in Pods |-> 0]
    /\ turns = [t \in Leases |-> NoTurn]
    /\ left = Budget

Spend(f) == left[f] > 0 /\ left' = [left EXCEPT ![f] = @ - 1]
On(p) == {t \in Leases : turns[t].pod = p}
Guests(p) == {t \in On(p) : turns[t].guest = "running"}

-----------------------------------------------------------------------------
(* Admission                                                               *)

Asking(p) == pods[p].pc \in {"admit", "asking", "answered"}
in_flight(p) == Cardinality({t \in On(p) : turns[t].permit}) + (IF Asking(p) THEN 1 ELSE 0)

\* What the pod's memory probe reports: the limit less what is allocated.
available_bytes(p) ==
    LET used == MapThenSumSet(LAMBDA t : turns[t].used, On(p))
    IN  IF Mem > used THEN Mem - used ELSE 0

\* Mutant: what turns already taken will grow into is read as free.
free_ungrown(p) == available_bytes(p)

\* Less what is spoken for.
free(p) == IF available_bytes(p) > reserved[p] THEN available_bytes(p) - reserved[p] ELSE 0

\* An idle pod takes a turn however little it has.
Room(p) == in_flight(p) = 0 \/ free(p) >= Reserve + Assumed

\* A charge is taken: what another thread of the pod has checked and not
\* charged yet was checked without it.
Overtakes(p, T) == [u \in Leases |-> IF u \in On(p) /\ T[u].charge = "checked"
                                     THEN [T[u] EXCEPT !.blind = @ \cup {"extra"}] ELSE T[u]]

\* try_admit: a slot, and the memory checked; then the charge.
try_admit(p) ==
    /\ pods[p].pc = "loop" /\ ~pods[p].stop
    /\ in_flight(p) < Limit /\ Room(p)
    /\ pods' = [pods EXCEPT ![p].pc = "admit", ![p].blind = in_flight(p) = 0 /\ Guests(p) # {}]
    /\ UNCHANGED <<jobs, reserved, turns, left>>

Admitted(p) ==
    /\ pods[p].pc = "admit"
    /\ pods' = [pods EXCEPT ![p].pc = "asking"]
    /\ reserved' = [reserved EXCEPT ![p] = @ + Assumed]
    /\ turns' = Overtakes(p, turns)
    /\ UNCHANGED <<jobs, left>>

\* The permit of an ask that brought nothing.
GiveBack(p) == reserved' = [reserved EXCEPT ![p] = @ - Assumed]

\* try_charge: refused only where it does not fit and the pod carries others.
try_charge(t) ==
    LET p == turns[t].pod IN
    /\ Extra > 0 /\ turns[t].guest = "running" /\ turns[t].charge = "none" /\ ~turns[t].refused
    /\ IF in_flight(p) > 1 /\ free(p) < Extra
       THEN turns' = [turns EXCEPT ![t].refused = TRUE]
       ELSE turns' = [turns EXCEPT ![t].charge = "checked",
                                   ![t].blind = IF in_flight(p) <= 1 /\ Guests(p) # {t}
                                                THEN @ \cup {"extra"} ELSE @]
    /\ UNCHANGED <<jobs, pods, reserved, left>>

Charged(t) ==
    LET p == turns[t].pod IN
    /\ turns[t].charge = "checked"
    /\ reserved' = [reserved EXCEPT ![p] = @ + Extra]
    /\ turns' = Overtakes(p, [turns EXCEPT ![t].charge = "held", ![t].used = @ + Extra])
    /\ pods' = [pods EXCEPT ![p].blind = @ \/ pods[p].pc = "admit"]
    /\ UNCHANGED <<jobs, left>>

\* A Charge dropped.
Uncharge(t) ==
    /\ turns[t].charge = "held" /\ turns[t].guest = "running"
    /\ turns' = [turns EXCEPT ![t].charge = "given", ![t].used = @ - Extra]
    /\ reserved' = [reserved EXCEPT ![turns[t].pod] = @ - Extra]
    /\ UNCHANGED <<jobs, pods, left>>

-----------------------------------------------------------------------------
(* Asking                                                                  *)

Lease(j) == <<j, jobs[j].lease + 1>>
Claimable(j) == jobs[j].state = "pending" /\ jobs[j].lease < MaxLeases

\* The API answers with a turn, with nothing, or not at all.
Answer(p, j) ==
    /\ pods[p].pc = "asking" /\ Claimable(j)
    /\ jobs' = [jobs EXCEPT ![j] = [state |-> "leased", lease |-> @.lease + 1]]
    /\ pods' = [pods EXCEPT ![p].pc = "answered", ![p].t = Lease(j)]
    /\ UNCHANGED <<reserved, turns, left>>

NoWork(p) ==
    /\ pods[p].pc = "asking"
    /\ \/ (\A j \in Jobs : ~Claimable(j)) /\ UNCHANGED left
       \/ Spend("api")
    /\ pods' = [pods EXCEPT ![p].pc = "loop", ![p].blind = FALSE] /\ GiveBack(p)
    /\ UNCHANGED <<jobs, turns>>

\* Told to stop while it waits: the ask is dropped, perhaps in the instant
\* after the API claimed a job for it.
DropAsk(p) ==
    /\ pods[p].pc = "asking" /\ pods[p].stop
    /\ \/ UNCHANGED jobs
       \/ \E j \in Jobs : Claimable(j) /\ jobs' = [jobs EXCEPT ![j] = [state |-> "leased", lease |-> @.lease + 1]]
    /\ pods' = [pods EXCEPT ![p].pc = "stopped", ![p].blind = FALSE] /\ GiveBack(p)
    /\ UNCHANGED <<turns, left>>

Leave(p) ==
    /\ pods[p].pc = "loop" /\ pods[p].stop
    /\ pods' = [pods EXCEPT ![p].pc = "stopped"]
    /\ UNCHANGED <<jobs, reserved, turns, left>>

Stop(p) ==
    /\ ~pods[p].stop /\ Spend("stop")
    /\ pods' = [pods EXCEPT ![p].stop = TRUE]
    /\ UNCHANGED <<jobs, reserved, turns>>

\* The turn of the answer begins: its guest, and the request that reports it.
Begun(p) == [NoTurn EXCEPT !.pod = p, !.guest = "running", !.report = "open", !.permit = TRUE,
                           !.blind = IF pods[p].blind THEN {"turn"} ELSE {}]

\* Mutant: whatever was answered is run.
take_one_always(p) ==
    /\ pods[p].pc = "answered"
    /\ turns' = [turns EXCEPT ![pods[p].t] = Begun(p)]
    /\ pods' = [pods EXCEPT ![p].pc = "loop", ![p].t = None, ![p].blind = FALSE]
    /\ UNCHANGED <<jobs, reserved, left>>

\* take_one: handed straight back where the stop has come meanwhile, otherwise
\* run beside the loop, the permit with it.
take_one(p) ==
    /\ pods[p].pc = "answered"
    /\ IF pods[p].stop
       THEN /\ turns' = [turns EXCEPT ![pods[p].t] = [NoTurn EXCEPT !.pod = p, !.report = "back"]]
            /\ GiveBack(p)
       ELSE /\ turns' = [turns EXCEPT ![pods[p].t] = Begun(p)]
            /\ UNCHANGED reserved
    /\ pods' = [pods EXCEPT ![p].pc = "loop", ![p].t = None, ![p].blind = FALSE]
    /\ UNCHANGED <<jobs, left>>

-----------------------------------------------------------------------------
(* A turn: its guest, and the request that reports it                      *)

\* The guest grows into what it is assumed to cost.
Grow(t) ==
    /\ turns[t].guest = "running" /\ turns[t].used \in {0, Extra} /\ Assumed > 0
    /\ turns[t].used = (IF turns[t].charge = "held" THEN Extra ELSE 0)
    /\ turns' = [turns EXCEPT ![t].used = @ + Assumed]
    /\ UNCHANGED <<jobs, pods, reserved, left>>

\* The guest ends and what it held goes, its charge too.
GuestEnds(t) ==
    /\ turns[t].guest = "running" /\ turns[t].charge # "checked"
    /\ turns' = [turns EXCEPT ![t].guest = "ended", ![t].used = 0,
                              ![t].charge = IF @ = "held" THEN "given" ELSE @]
    /\ reserved' = [reserved EXCEPT ![turns[t].pod] =
                      @ - (IF turns[t].charge = "held" THEN Extra ELSE 0)]
    /\ UNCHANGED <<jobs, pods, left>>

Holds(t) == jobs[t[1]].state = "leased" /\ jobs[t[1]].lease = t[2]

\* The permit's drop.
DropPermit(t) ==
    /\ turns' = [turns EXCEPT ![t].permit = FALSE, ![t].report = "sent"]
    /\ reserved' = [reserved EXCEPT ![turns[t].pod] = @ - Assumed]

\* The report is answered once its last event is in; the API closes the job
\* of the lease that holds it.
Reported(t) ==
    /\ turns[t].report = "open" /\ turns[t].guest = "ended"
    /\ DropPermit(t)
    /\ jobs' = IF Holds(t) THEN [jobs EXCEPT ![t[1]].state = "done"] ELSE jobs
    /\ UNCHANGED <<pods, left>>

\* The report fails, or is answered early by an API that no longer knows the
\* lease: run returns, and its permit with it.
ReportFails(t) ==
    /\ turns[t].report = "open"
    /\ ~Holds(t) \/ left["report"] > 0
    /\ IF Holds(t) THEN Spend("report") ELSE UNCHANGED left
    /\ turns' = [turns EXCEPT ![t].permit = FALSE, ![t].report = "back"]
    /\ reserved' = [reserved EXCEPT ![turns[t].pod] = @ - Assumed]
    /\ UNCHANGED <<jobs, pods>>

\* hand_back: best effort; only the lease that holds the job gives it back.
hand_back(t) ==
    /\ turns[t].report = "back"
    /\ turns' = [turns EXCEPT ![t].report = "sent"]
    /\ \/ UNCHANGED left /\ jobs' = IF Holds(t) THEN [jobs EXCEPT ![t[1]].state = "pending"] ELSE jobs
       \/ Spend("lost") /\ UNCHANGED jobs
    /\ UNCHANGED <<pods, reserved>>

\* The reaper: a lease nobody is reporting under lapses, one that is reported
\* under only where its renewals were lost.
Reap(j) ==
    /\ jobs[j].state = "leased"
    /\ LET t == <<j, jobs[j].lease>>
       IN  /\ \A p \in Pods : pods[p].t # t
           /\ IF turns[t].report = "open" THEN Spend("lapse") ELSE UNCHANGED left
    /\ jobs' = [jobs EXCEPT ![j].state = "pending"]
    /\ UNCHANGED <<pods, reserved, turns>>

Loop(p) == try_admit(p) \/ Admitted(p) \/ (\E j \in Jobs : Answer(p, j)) \/ NoWork(p)
           \/ DropAsk(p) \/ Leave(p) \/ take_one(p)
Work(t) == Charged(t) \/ GuestEnds(t) \/ Reported(t) \/ hand_back(t)
Next ==
    \/ \E p \in Pods : Loop(p) \/ Stop(p)
    \/ \E t \in Leases : Work(t) \/ try_charge(t) \/ Uncharge(t) \/ Grow(t) \/ ReportFails(t)
    \/ \E j \in Jobs : Reap(j)

Spec == Init /\ [][Next]_vars

-----------------------------------------------------------------------------
TypeOK ==
    /\ \A j \in Jobs : jobs[j].state \in {"pending", "leased", "done"} /\ jobs[j].lease \in 0..MaxLeases
    /\ \A p \in Pods : pods[p].t # None <=> pods[p].pc = "answered"
    /\ \A t \in Leases : turns[t].permit => turns[t].report = "open"

\* Every byte charged is a permit or a charge somebody still holds: none
\* outlives its turn, however the turn ended (Permit and Charge's Drop).
Balanced == \A p \in Pods :
    reserved[p] = Assumed * (in_flight(p) - (IF pods[p].pc = "admit" THEN 1 ELSE 0))
                  + Extra * Cardinality({t \in On(p) : turns[t].charge = "held"})

\* What of a running turn no look at memory that stood was taken for: its turn
\* or its extra, charged after another charge of the pod overtook the check or
\* in place of one, and all of it once its report failed under it and the
\* permit went while the guest goes on.
Unseen(t) == Assumed * (IF "turn" \in turns[t].blind \/ ~turns[t].permit THEN 1 ELSE 0)
           + Extra * (IF turns[t].charge = "held" /\ ("extra" \in turns[t].blind \/ ~turns[t].permit)
                      THEN 1 ELSE 0)

\* Turns carried together fit: what they have allocated is within the pod's
\* memory, each one's growth and its extra charges included (try_admit), but
\* for what was charged between another's check and its charge
\* (admission.rs:267, 309) and for guests whose report was given up.
Fits == \A p \in Pods : Cardinality(Guests(p)) > 1 =>
    MapThenSumSet(LAMBDA t : turns[t].used, On(p)) <= Mem + MapThenSumSet(Unseen, Guests(p))

\* A pod told to stop starts nothing more (take_one, Shutdown).
StopsTaking == \A p \in Pods : pods[p].stop => \A t \in Leases :
                    turns'[t].pod = p /\ turns'[t].guest = "running" => turns[t].pod = p
=============================================================================
