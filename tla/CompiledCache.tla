---------------------------- MODULE CompiledCache ----------------------------
(***************************************************************************)
(* The runtime's cache of compiled components (component/cache.rs): kept   *)
(* by the bytes they came from, most recently used last, at most Entries   *)
(* of them, and compiled once however many turns ask at the same time.     *)
(* The right to compile a key is a lock the first asker makes; each asker  *)
(* holds a handle on it, and the last one out removes it from the map.     *)
(***************************************************************************)
EXTENDS Integers, Sequences, FiniteSets, SequencesExt

CONSTANTS Keys, Askers, Entries, Budget, None

CacheAssumption == Entries \in Nat \ {0}

VARIABLES entries,   \* what is kept: a key and whether it is past the idle window
          locks,     \* keys with a lock in the map
          gates,     \* the asker that holds each key's lock
          handles,   \* the askers with a handle on each key's lock
          askers,    \* each asker: where it is and the key it wants
          built,     \* keys compiled once, and keys compiled again
          left       \* faults still to come

vars == <<entries, locks, gates, handles, askers, built, left>>

Init ==
    /\ entries = <<>> /\ locks = {}
    /\ gates = [k \in Keys |-> None]
    /\ handles = [k \in Keys |-> {}]
    /\ askers = [a \in Askers |-> [pc |-> "none", key |-> None]]
    /\ built = [once |-> {}, again |-> {}]
    /\ left = Budget

Spend(f) == left[f] > 0 /\ left' = [left EXCEPT ![f] = @ - 1]
At(a, pc) == askers[a].pc = pc
To(a, pc) == askers' = [askers EXCEPT ![a].pc = pc]
Found(s, k) == {i \in 1..Len(s) : s[i].key = k}
drop_idle(s) == SelectSeq(s, LAMBDA e : ~e.idle)

\* get: what is idle goes, and what is found is used and moves to the back.  The
\* asker goes on to `hit` with it, or to `miss`.
get(a, hit, miss) ==
    LET s == drop_idle(entries)
        at == Found(s, askers[a].key)
    IN  \/ \E i \in at : entries' = Append(RemoveAt(s, i), s[i]) /\ To(a, hit)
        \/ at = {} /\ entries' = s /\ To(a, miss)

Ask(a, k) ==
    /\ At(a, "none")
    /\ askers' = [askers EXCEPT ![a] = [pc |-> "look", key |-> k]]
    /\ UNCHANGED <<entries, locks, gates, handles, built, left>>

Look(a) ==
    /\ At(a, "look") /\ get(a, "done", "gate")
    /\ UNCHANGED <<locks, gates, handles, built, left>>

\* A handle on the key's lock, which is made where there is none.
Gate(a) ==
    /\ At(a, "gate") /\ To(a, "lock")
    /\ locks' = locks \cup {askers[a].key}
    /\ handles' = [handles EXCEPT ![askers[a].key] = @ \cup {a}]
    /\ UNCHANGED <<entries, gates, built, left>>

Lock(a) ==
    /\ At(a, "lock") /\ gates[askers[a].key] = None /\ To(a, "again")
    /\ gates' = [gates EXCEPT ![askers[a].key] = a]
    /\ UNCHANGED <<entries, locks, handles, built, left>>

\* Whoever held the lock before may have left the build behind.
Again(a) ==
    /\ At(a, "again") /\ get(a, "unlock", "compile")
    /\ UNCHANGED <<locks, gates, handles, built, left>>

\* A build, or one that fails and is neither kept nor shared.
Compile(a) ==
    LET k == askers[a].key IN
    /\ At(a, "compile")
    /\ built' = [once |-> built.once \cup {k}, again |-> built.again \cup ({k} \cap built.once)]
    /\ \/ To(a, "insert") /\ UNCHANGED left
       \/ Spend("fail") /\ To(a, "unlock")
    /\ UNCHANGED <<entries, locks, gates, handles>>

\* insert: put at the back, and the least recently used put out.
insert(a) ==
    LET s == drop_idle(entries)
        t == IF Found(s, askers[a].key) # {} THEN s
             ELSE Append(s, [key |-> askers[a].key, idle |-> FALSE])
    IN  /\ At(a, "insert") /\ To(a, "unlock")
        /\ entries' = IF Len(t) > Entries THEN Tail(t) ELSE t
        /\ UNCHANGED <<locks, gates, handles, built, left>>

Unlock(a) ==
    /\ At(a, "unlock") /\ To(a, "drop")
    /\ gates' = [gates EXCEPT ![askers[a].key] = None]
    /\ UNCHANGED <<entries, locks, handles, built, left>>

\* Its own handle goes before the count is read.
DropHandle(a) ==
    /\ At(a, "drop") /\ To(a, "last")
    /\ handles' = [handles EXCEPT ![askers[a].key] = @ \ {a}]
    /\ UNCHANGED <<entries, locks, gates, built, left>>

\* The map's handle alone is left: the key's lock is forgotten.
LastOut(a) ==
    /\ At(a, "last") /\ To(a, "done")
    /\ locks' = IF handles[askers[a].key] = {} THEN locks \ {askers[a].key} ELSE locks
    /\ UNCHANGED <<entries, gates, handles, built, left>>

\* The turn is over.
Return(a) ==
    /\ At(a, "done")
    /\ askers' = [askers EXCEPT ![a] = [pc |-> "none", key |-> None]]
    /\ UNCHANGED <<entries, locks, gates, handles, built, left>>

\* An entry goes unasked for past the window.
GoIdle(i) ==
    /\ i \in DOMAIN entries /\ ~entries[i].idle /\ Spend("idle")
    /\ entries' = [entries EXCEPT ![i].idle = TRUE]
    /\ UNCHANGED <<locks, gates, handles, askers, built>>

Step(a) == Look(a) \/ Gate(a) \/ Lock(a) \/ Again(a) \/ Compile(a) \/ insert(a) \/ Unlock(a)
           \/ DropHandle(a) \/ LastOut(a) \/ Return(a)
Next == \/ \E a \in Askers : Step(a) \/ \E k \in Keys : Ask(a, k)
        \/ \E i \in 1..Entries : GoIdle(i)

Spec == Init /\ [][Next]_vars

-----------------------------------------------------------------------------
\* The cache stays within its size, and a lock is held by one that has a handle.
TypeOK ==
    /\ Len(entries) <= Entries
    /\ \A k \in Keys : gates[k] # None => gates[k] \in handles[k] /\ k \in locks

\* While nothing failed, went idle or had to be put out, no key is compiled
\* twice however its askers interleave; and no key is ever kept twice
\* (get_or_compile).
CompiledOnce ==
    /\ \A k \in Keys : Cardinality(Found(entries, k)) <= 1
    /\ left = Budget /\ Cardinality(Keys) <= Entries => built.again = {}

\* A key's lock is forgotten once nobody is in line for it (cache.rs:90).
Forgotten == \A k \in locks : \E a \in Askers : askers[a].key = k /\ askers[a].pc \notin {"none", "look", "gate", "done"}
=============================================================================
