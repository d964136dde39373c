------------------------- MODULE HeldRequestsProofs -------------------------
(***************************************************************************)
(* Proofs about HeldRequests, for any number of runtimes and relays, any   *)
(* number of tries and any budget of faults.                               *)
(***************************************************************************)
EXTENDS HeldRequests, FiniteSetTheorems, SequenceTheorems, TLAPS

\* Runtimes whose send may still have its effect, or is known to have had none
\* and will be given back.
Owes(p) == \/ pods[p].pc \in {"begun", "send"}
           \/ pods[p].pc \in {"out", "settle"} /\ pods[p].out = "never"
Owing == {p \in Pods : Owes(p)}
Ready == IF req.state = "approved" THEN 1 ELSE 0

\* A runtime on its way to sending has the operation as it stands.
SendsAs(p) == pods[p].pc \in {"ready", "mark", "begun", "send"} => pods[p].kind = kind

\* Every yes is worth one effect, had, or owed by a runtime, or waiting; where
\* the recipient has the key there is one effect at most.
Counted ==
    IF kind = "key" THEN got.effects = (IF got.key THEN 1 ELSE 0)
                    ELSE got.effects + Cardinality(Owing) + Ready <= got.yeses
\* Nothing is sent before a first yes.
Allowed ==
    \/ got.yeses > 0
    \/ /\ got.effects = 0 /\ req.state \notin {"approved", "sending"}
       /\ \A p \in Pods : pods[p].pc \notin {"begun", "send"}
EffectInv == Never("edit") => (\A p \in Pods : SendsAs(p)) /\ Counted /\ Allowed

\* A relay under way is a call of a guest that is still running.
RelayInv ==
    \A r \in Relays : relays[r].pc \notin {"idle", "done"} =>
        relays[r].pod \in Pods /\ pods[relays[r].pod].pc = "guest"

\* While no lease lapsed, who is at work has the lease, and settles from the
\* tries that stand.
Works(p) == /\ pods[p].pc # "idle" => turn.lease = p
            /\ pods[p].pc = "settle" =>
                 req.state \in {"approved", "sending"} /\ pods[p].saw = req.attempts
Tried == /\ got.marks <= MAX_ATTEMPTS
         /\ req.state = "approved" => got.marks <= req.attempts /\ req.attempts < MAX_ATTEMPTS
         /\ req.state = "sending" => got.marks <= req.attempts + 1 /\ req.attempts < MAX_ATTEMPTS
TryInv == Never("lapse") => (\A p \in Pods : Works(p)) /\ Tried

FollowsUp == \A i \in DOMAIN items : items[i].followup => items[i].hold = None

Inv == TypeOK /\ EffectInv /\ RelayInv /\ TryInv /\ FollowsUp /\ HoldAsked

PodRec == [pc : PodStates, kind : {"key", "record", "plain"}, saw : Nat, out : Outcomes,
           claimed : BOOLEAN, item : Nat, ret : {"prepare", "guest"}]
RelayRec == [pc : {"idle", "take", "targets", "raise", "keep", "done"},
             pod : Pods \cup {None}, item : Nat]
ItemRec == [state : {"pending", "settled"}, followup : BOOLEAN, hold : Relays \cup {None}]
ReqRec == [state : ReqStates, attempts : Nat, item : Nat]

Moves(p, rec) == rec \in PodRec /\ pods' = [pods EXCEPT ![p] = rec]
Num(b) == IF b THEN 1 ELSE 0

-----------------------------------------------------------------------------
(* Faults and runtimes                                                     *)

\* A fault that happened did not never happen; nothing else is spent by it.
LEMMA SpendIs ==
  ASSUME TypeOK, NEW f \in FaultKinds, Spend(f)
  PROVE  /\ faults' \in [FaultKinds -> Nat]
         /\ \A g \in FaultKinds : faults'[g] <= Budget[g] /\ (Never(g)' => Never(g))
         /\ ~Never(f)'
  <1>1. /\ faults \in [FaultKinds -> Nat] /\ \A g \in FaultKinds : faults[g] <= Budget[g]
        /\ Budget \in [FaultKinds -> Nat]
    BY HeldAssumption DEF TypeOK
  <1>2. /\ faults[f] > 0 /\ faults' = [faults EXCEPT ![f] = @ - 1]
    BY DEF Spend
  <1>3. /\ faults'[f] = faults[f] - 1 /\ \A g \in FaultKinds : g # f => faults'[g] = faults[g]
    BY <1>1, <1>2
  <1>4. faults[f] \in Nat /\ Budget[f] \in Nat /\ faults[f] <= Budget[f]
    BY <1>1
  <1>5. faults'[f] \in Nat /\ faults'[f] < Budget[f]
    BY <1>2, <1>3, <1>4
  <1>6. ASSUME NEW g \in FaultKinds
        PROVE  faults'[g] \in Nat /\ faults'[g] <= Budget[g] /\ (Never(g)' => Never(g))
    <2>1. CASE g = f
      BY <1>4, <1>5, <2>1 DEF Never
    <2>2. CASE g # f
      BY <1>1, <1>3, <2>2 DEF Never
    <2> QED  BY <2>1, <2>2
  <1>7. faults' \in [FaultKinds -> Nat]
    BY <1>1, <1>2, <1>6
  <1> QED  BY <1>4, <1>5, <1>6, <1>7 DEF Never

Faulted == /\ faults' \in [FaultKinds -> Nat]
           /\ \A g \in FaultKinds : faults'[g] <= Budget[g] /\ (Never(g)' => Never(g))

LEMMA Unfaulted ==
  ASSUME TypeOK, UNCHANGED faults  PROVE Faulted
  BY DEF TypeOK, Faulted, Never

LEMMA MovesIs ==
  ASSUME TypeOK, NEW p \in Pods, NEW rec, Moves(p, rec)
  PROVE  /\ pods' \in [Pods -> PodRec] /\ pods'[p] = rec
         /\ \A q \in Pods : q # p => pods'[q] = pods[q]
  BY DEF TypeOK, PodRec, Moves

LEMMA PodTyped ==
  ASSUME TypeOK, NEW p \in Pods  PROVE pods[p] \in PodRec
  BY DEF TypeOK, PodRec

LEMMA IdleTyped == Idle \in PodRec
  BY DEF Idle, PodRec, PodStates, Outcomes

LEMMA GoIs ==
  ASSUME TypeOK, NEW p \in Pods, NEW s \in PodStates, Go(p, s)
  PROVE  \E rec : /\ Moves(p, rec) /\ rec.pc = s
                  /\ s \notin {"guest", "prepare"} =>
                       /\ rec.kind = pods[p].kind /\ rec.out = pods[p].out
                       /\ rec.saw = pods[p].saw
  <1>1. CASE s \in {"guest", "prepare"}
    <2> DEFINE rec == [Idle EXCEPT !.pc = s]
    <2>1. rec \in PodRec /\ rec.pc = s
      BY IdleTyped DEF PodRec
    <2>2. pods' = [pods EXCEPT ![p] = rec]
      BY <1>1 DEF Go
    <2> HIDE DEF rec
    <2> QED  BY <1>1, <2>1, <2>2 DEF Moves
  <1>2. CASE s \notin {"guest", "prepare"}
    <2> DEFINE rec == [pods[p] EXCEPT !.pc = s]
    <2>1. /\ rec \in PodRec /\ rec.pc = s /\ rec.kind = pods[p].kind
          /\ rec.out = pods[p].out /\ rec.saw = pods[p].saw
      BY PodTyped DEF PodRec
    <2>2. pods' = [pods EXCEPT ![p] = rec]
      BY <1>2 DEF Go
    <2> HIDE DEF rec
    <2> QED  BY <2>1, <2>2 DEF Moves
  <1> QED  BY <1>1, <1>2

-----------------------------------------------------------------------------
(* Counting effects                                                        *)

LEMMA OwingFinite ==
  ASSUME TypeOK
  PROVE  IsFiniteSet(Owing) /\ Cardinality(Owing) \in Nat
  <1>1. IsFiniteSet(Owing)
    BY HeldAssumption, FS_Subset DEF Owing
  <1> QED  BY <1>1, FS_CardinalityType

\* One runtime moves: the number of those that owe changes by it alone.
LEMMA OwingMoves ==
  ASSUME TypeOK, NEW p \in Pods, NEW rec, Moves(p, rec)
  PROVE  Cardinality(Owing') + Num(Owes(p)) = Cardinality(Owing) + Num(Owes(p)')
  <1>1. \A q \in Pods : q # p => (Owes(q)' <=> Owes(q))
    BY MovesIs DEF Owes
  <1>2. IsFiniteSet(Owing) /\ Cardinality(Owing) \in Nat
    BY OwingFinite
  <1>3. CASE Owes(p)' /\ ~Owes(p)
    <2>1. Owing' = Owing \cup {p} /\ p \notin Owing
      BY <1>1, <1>3 DEF Owing
    <2>2. Cardinality(Owing') = Cardinality(Owing) + 1
      BY <1>2, <2>1, FS_AddElement
    <2> QED  BY <1>2, <1>3, <2>2 DEF Num
  <1>4. CASE ~Owes(p)' /\ Owes(p)
    <2>1. Owing' = Owing \ {p} /\ p \in Owing
      BY <1>1, <1>4 DEF Owing
    <2>2. Cardinality(Owing') = Cardinality(Owing) - 1
      BY <1>2, <2>1, FS_RemoveElement
    <2> QED  BY <1>2, <1>4, <2>2 DEF Num
  <1>5. CASE Owes(p)' <=> Owes(p)
    <2>1. Owing' = Owing
      BY <1>1, <1>5 DEF Owing
    <2> QED  BY <1>2, <1>5, <2>1 DEF Num
  <1> QED  BY <1>3, <1>4, <1>5

\* A runtime's step: what it adds to the effects it owed.
LEMMA PodEffect ==
  ASSUME TypeOK, EffectInv, TypeOK', Faulted, NEW p \in Pods, NEW rec, Moves(p, rec),
         UNCHANGED kind, got'.yeses = got.yeses,
         rec.pc \in {"ready", "mark", "begun", "send"} =>
             rec.kind = kind \/ (SendsAs(p) => rec.kind = kind),
         kind # "key" /\ SendsAs(p) =>
             got'.effects + Num(Owes(p)') + Ready' <= got.effects + Num(Owes(p)) + Ready,
         kind = "key" /\ SendsAs(p) /\ got.effects = (IF got.key THEN 1 ELSE 0)
             => got'.effects = (IF got'.key THEN 1 ELSE 0),
         Allowed => Allowed'
  PROVE  EffectInv'
  <1> SUFFICES ASSUME Never("edit")'  PROVE (\A q \in Pods : SendsAs(q)') /\ Counted' /\ Allowed'
    BY DEF EffectInv
  <1>1. (\A q \in Pods : SendsAs(q)) /\ Counted /\ Allowed
    BY DEF EffectInv, Faulted, FaultKinds
  <1>2. \A q \in Pods : SendsAs(q)'
    BY <1>1, MovesIs DEF SendsAs
  <1>3. CASE kind = "key"
    BY <1>1, <1>2, <1>3 DEF Counted
  <1>4. CASE kind # "key"
    <2>1. Cardinality(Owing') + Num(Owes(p)) = Cardinality(Owing) + Num(Owes(p)')
      BY OwingMoves
    <2>2. Cardinality(Owing) \in Nat /\ Cardinality(Owing') \in Nat
      <3>1. Cardinality(Owing) \in Nat
        BY OwingFinite
      <3>2. Owing' \subseteq Pods
        BY DEF Owing
      <3>3. Cardinality(Owing') \in Nat
        BY <3>2, HeldAssumption, FS_Subset, FS_CardinalityType
      <3> QED  BY <3>1, <3>3
    <2>3. /\ got.effects \in Nat /\ got'.effects \in Nat /\ got.yeses \in Nat
      BY DEF TypeOK
    <2>4. got'.effects + Num(Owes(p)') + Ready' <= got.effects + Num(Owes(p)) + Ready
      BY <1>1, <1>4
    <2>5. got.effects + Cardinality(Owing) + Ready <= got.yeses
      BY <1>1, <1>4 DEF Counted
    <2>6. /\ Num(Owes(p)) \in Nat /\ Num(Owes(p)') \in Nat /\ Ready \in Nat /\ Ready' \in Nat
      BY DEF Num, Ready
    <2>7. got'.effects + Cardinality(Owing') + Ready' <= got'.yeses
      BY <2>1, <2>2, <2>3, <2>4, <2>5, <2>6
    <2> QED  BY <1>1, <1>2, <1>4, <2>7 DEF Counted
  <1> QED  BY <1>3, <1>4

-----------------------------------------------------------------------------
(* The runtimes                                                            *)

GotRec == [effects : Nat, key : BOOLEAN, yeses : Nat, marks : Nat]

\* A step of a runtime at work, outside its guest.
LEMMA PodFrame ==
  ASSUME Inv, NEW p \in Pods, NEW rec, Moves(p, rec), pods[p].pc \notin {"idle", "guest"},
         UNCHANGED <<kind, answering, holds, relays, turn, faults>>,
         req' \in ReqRec, record' \in {"none", "attempted", "completed"}, got' \in GotRec,
         items' \in Seq(ItemRec), DOMAIN items \subseteq DOMAIN items',
         \A i \in DOMAIN items : items'[i] = items[i],
         FollowsUp',
         got'.yeses = got.yeses,
         rec.pc \in {"ready", "mark", "begun", "send"} =>
             rec.kind = kind \/ (SendsAs(p) => rec.kind = kind),
         kind # "key" /\ SendsAs(p) =>
             got'.effects + Num(Owes(p)') + Ready' <= got.effects + Num(Owes(p)) + Ready,
         kind = "key" /\ SendsAs(p) /\ got.effects = (IF got.key THEN 1 ELSE 0)
             => got'.effects = (IF got'.key THEN 1 ELSE 0),
         Allowed => Allowed',
         Works(p) /\ Tried =>
             /\ Tried'
             /\ rec.pc = "settle" =>
                  req'.state \in {"approved", "sending"} /\ rec.saw = req'.attempts
  PROVE  Inv'
  <1>0. TypeOK /\ EffectInv /\ RelayInv /\ TryInv /\ HoldAsked
    BY DEF Inv
  <1>1. /\ pods' \in [Pods -> PodRec] /\ pods'[p] = rec
        /\ \A q \in Pods : q # p => pods'[q] = pods[q]
    BY <1>0, MovesIs
  <1>2. Faulted
    BY <1>0, Unfaulted
  <1>3. TypeOK'
    <2>1. answering' \subseteq [item : DOMAIN items', holds : BOOLEAN, resend : BOOLEAN]
      BY <1>0 DEF TypeOK
    <2> QED  BY <1>0, <1>1, <1>2, <2>1 DEF TypeOK, Faulted, PodRec, ReqRec, GotRec, ItemRec
  <1>4. EffectInv'
    BY <1>0, <1>2, <1>3, PodEffect
  <1>5. RelayInv'
    BY <1>0, <1>1 DEF RelayInv
  <1>6. TryInv'
    <2> SUFFICES ASSUME Never("lapse")'  PROVE (\A q \in Pods : Works(q)') /\ Tried'
      BY DEF TryInv
    <2>1. (\A q \in Pods : Works(q)) /\ Tried
      BY <1>0, <1>2 DEF TryInv, Faulted, FaultKinds
    <2>2. \A q \in Pods : q # p => pods[q].pc = "idle"
      BY <2>1 DEF Works
    <2>3. ASSUME NEW q \in Pods  PROVE Works(q)'
      <3>1. CASE q = p
        BY <1>1, <2>1, <3>1 DEF Works
      <3>2. CASE q # p
        BY <1>1, <2>2, <3>2 DEF Works
      <3> QED  BY <3>1, <3>2
    <2> QED  BY <2>1, <2>3
  <1>7. HoldAsked'
    <2> SUFFICES ASSUME Never("crash")', NEW r \in holds
                 PROVE  \/ \E i \in DOMAIN items' : Open(i)' /\ items'[i].hold = r
                        \/ relays[r].pc \in {"targets", "raise"}
      BY DEF HoldAsked
    <2>1. \/ \E i \in DOMAIN items : Open(i) /\ items[i].hold = r
          \/ relays[r].pc \in {"targets", "raise"}
      BY <1>0, <1>2 DEF HoldAsked, Faulted, FaultKinds
    <2> QED  BY <2>1 DEF Open
  <1> QED  BY <1>3, <1>4, <1>5, <1>6, <1>7 DEF Inv

\* What may be assumed of a runtime about to move.
LEMMA PodAt ==
  ASSUME Inv, NEW p \in Pods
  PROVE  /\ TypeOK /\ pods[p] \in PodRec /\ req \in ReqRec /\ got \in GotRec
         /\ items \in Seq(ItemRec) /\ record \in {"none", "attempted", "completed"}
         /\ FollowsUp
  BY DEF Inv, TypeOK, PodRec, ReqRec, GotRec, ItemRec

\* Nothing of the request changes: what a runtime owes may only shrink.
LEMMA PodQuiet ==
  ASSUME Inv, NEW p \in Pods, NEW rec, Moves(p, rec), pods[p].pc \notin {"idle", "guest"},
         UNCHANGED <<kind, answering, holds, relays, turn, faults, req, got, items>>,
         record' \in {"none", "attempted", "completed"},
         rec.pc \in {"ready", "mark", "begun", "send"} =>
             rec.kind = kind \/ (SendsAs(p) => rec.kind = kind),
         Owes(p)' => Owes(p),
         rec.pc \in {"begun", "send"} => pods[p].pc \in {"begun", "send"},
         Works(p) /\ rec.pc = "settle" =>
             req.state \in {"approved", "sending"} /\ rec.saw = req.attempts
  PROVE  Inv'
  <1>0. /\ TypeOK /\ req \in ReqRec /\ got \in GotRec /\ items \in Seq(ItemRec) /\ FollowsUp
    BY PodAt
  <1>1. FollowsUp' /\ (Tried => Tried')
    BY <1>0 DEF FollowsUp, Tried
  <1>2. got'.effects + Num(Owes(p)') + Ready' <= got.effects + Num(Owes(p)) + Ready
    <2>1. got.effects \in Nat
      BY <1>0 DEF GotRec
    <2>2. Ready' = Ready /\ Ready \in Nat
      BY DEF Ready
    <2>3. Num(Owes(p)') \in Nat /\ Num(Owes(p)) \in Nat /\ Num(Owes(p)') <= Num(Owes(p))
      BY DEF Num
    <2> QED  BY <2>1, <2>2, <2>3
  <1>3. Allowed => Allowed'
    BY <1>0, MovesIs DEF Allowed
  <1> QED  BY <1>0, <1>1, <1>2, <1>3, PodFrame

LEMMA PreparePod ==
  ASSUME Inv, NEW p \in Pods, Prepare(p) \/ begin_held(p)  PROVE Inv'
  <1>0. TypeOK /\ pods[p] \in PodRec /\ record \in {"none", "attempted", "completed"}
    BY PodAt
  <1>1. UNCHANGED <<kind, answering, holds, relays, turn, faults, req, got, items, record>>
    BY DEF Prepare, begin_held
  <1>2. CASE Prepare(p)
    <2> DEFINE rec == IF req.state = "approved" THEN [Idle EXCEPT !.pc = "ready", !.kind = kind]
                                                ELSE [Idle EXCEPT !.pc = "guest"]
    <2>1. rec \in PodRec /\ rec.pc \in {"ready", "guest"} /\ (rec.pc = "ready" => rec.kind = kind)
      BY <1>0, IdleTyped DEF PodRec, PodStates, TypeOK, Idle
    <2>2. Moves(p, rec) /\ pods[p].pc = "prepare"
      BY <1>2, <2>1 DEF Prepare, Moves, At
    <2> HIDE DEF rec
    <2>3. ~Owes(p)'
      BY <1>0, <2>1, <2>2, MovesIs DEF Owes
    <2> QED  BY <1>0, <1>1, <2>1, <2>2, <2>3, PodQuiet
  <1>3. CASE begin_held(p)
    <2>1. \E s \in {"mark", "guest"} : Go(p, s)
      BY <1>3 DEF begin_held
    <2>2. PICK s \in {"mark", "guest"} : Go(p, s)
      BY <2>1
    <2>3. PICK rec : /\ Moves(p, rec) /\ rec.pc = s
                     /\ s \notin {"guest", "prepare"} => rec.kind = pods[p].kind
      BY <1>0, <2>2, GoIs DEF PodStates
    <2>4. pods[p].pc = "ready"
      BY <1>3 DEF begin_held, At
    <2>5. ~Owes(p)'
      BY <1>0, <2>3, MovesIs DEF Owes
    <2>6. rec.pc = "mark" => (SendsAs(p) => rec.kind = kind)
      BY <2>3, <2>4 DEF SendsAs
    <2> QED  BY <1>0, <1>1, <2>3, <2>4, <2>5, <2>6, PodQuiet
  <1> QED  BY <1>2, <1>3

\* The mark takes the yes that waited and makes it the runtime's to send.
LEMMA MarkPod ==
  ASSUME Inv, NEW p \in Pods, sending(p)  PROVE Inv'
  <1>0. /\ TypeOK /\ pods[p] \in PodRec /\ record \in {"none", "attempted", "completed"}
        /\ req \in ReqRec /\ got \in GotRec /\ items \in Seq(ItemRec) /\ FollowsUp
    BY PodAt
  <1>1. /\ UNCHANGED <<kind, answering, holds, relays, turn, faults, items, record>>
        /\ pods[p].pc = "mark"
    BY DEF sending, At
  <1>2. CASE req.state # "approved"
    <2>1. Go(p, "guest") /\ UNCHANGED <<req, got>>
      BY <1>2 DEF sending
    <2>2. PICK rec : Moves(p, rec) /\ rec.pc = "guest"
      BY <1>0, <2>1, GoIs DEF PodStates
    <2>3. ~Owes(p)'
      BY <1>0, <2>2, MovesIs DEF Owes
    <2> QED  BY <1>0, <1>1, <2>1, <2>2, <2>3, PodQuiet
  <1>3. CASE req.state = "approved"
    <2> DEFINE marks == IF got.marks > MAX_ATTEMPTS THEN got.marks ELSE got.marks + 1
    <2>1. /\ req' = [req EXCEPT !.state = "sending"] /\ got' = [got EXCEPT !.marks = marks]
          /\ Go(p, "begun")
      BY <1>3 DEF sending
    <2>2. PICK rec : Moves(p, rec) /\ rec.pc = "begun" /\ rec.kind = pods[p].kind
      BY <1>0, <2>1, GoIs DEF PodStates
    <2>3. marks \in Nat
      BY <1>0 DEF GotRec
    <2>4. /\ req' \in ReqRec /\ req'.state = "sending" /\ req'.attempts = req.attempts
      BY <1>0, <2>1 DEF ReqRec, ReqStates
    <2>5. /\ got' \in GotRec /\ got'.yeses = got.yeses /\ got'.effects = got.effects
          /\ got'.key = got.key /\ got'.marks = marks
      BY <1>0, <2>1, <2>3 DEF GotRec
    <2>6. Owes(p)' /\ ~Owes(p)
      BY <1>0, <1>1, <2>2, MovesIs DEF Owes
    <2>7. got'.effects + Num(Owes(p)') + Ready' <= got.effects + Num(Owes(p)) + Ready
      <3>1. Num(Owes(p)') = 1 /\ Num(Owes(p)) = 0 /\ Ready' = 0 /\ Ready = 1
        BY <1>3, <2>4, <2>6 DEF Num, Ready
      <3>2. got.effects \in Nat
        BY <1>0 DEF GotRec
      <3> QED  BY <2>5, <3>1, <3>2
    <2>8. Allowed => Allowed'
      BY <1>3, <2>5 DEF Allowed
    <2>9. Tried => Tried'
      <3> SUFFICES ASSUME Tried  PROVE Tried'
        OBVIOUS
      <3>1. got.marks <= req.attempts /\ req.attempts < MAX_ATTEMPTS
        BY <1>3 DEF Tried
      <3>2. got.marks \in Nat /\ req.attempts \in Nat /\ MAX_ATTEMPTS \in Nat
        BY <1>0, HeldAssumption DEF GotRec, ReqRec
      <3>3. got'.marks = got.marks + 1
        BY <2>5, <3>1, <3>2
      <3> QED  BY <2>4, <3>1, <3>2, <3>3 DEF Tried
    <2>10. SendsAs(p) => rec.kind = kind
      BY <1>1, <2>2 DEF SendsAs
    <2>11. FollowsUp' /\ items' = items
      BY <1>0, <1>1 DEF FollowsUp
    <2> HIDE DEF marks
    <2> QED  BY <1>0, <1>1, <2>2, <2>4, <2>5, <2>7, <2>8, <2>9, <2>10, <2>11, PodFrame
  <1> QED  BY <1>2, <1>3

LEMMA ClaimPod ==
  ASSUME Inv, NEW p \in Pods, claim_in(p)  PROVE Inv'
  <1>0. /\ TypeOK /\ pods[p] \in PodRec /\ record \in {"none", "attempted", "completed"}
    BY PodAt
  <1>1. /\ UNCHANGED <<kind, answering, holds, relays, turn, faults, items, req, got>>
        /\ pods[p].pc = "begun" /\ record' \in {"none", "attempted", "completed"}
    BY <1>0 DEF claim_in, At
  <1>2. CASE Leased(p) /\ record = "none"
    <2> DEFINE rec == [pods[p] EXCEPT !.pc = "send", !.claimed = TRUE]
    <2>1. rec \in PodRec /\ rec.pc = "send" /\ rec.kind = pods[p].kind
      BY <1>0 DEF PodRec, PodStates
    <2>2. Moves(p, rec)
      BY <1>0, <1>2, <2>1 DEF claim_in, Moves, TypeOK
    <2> HIDE DEF rec
    <2>3. Owes(p)
      BY <1>1 DEF Owes
    <2>4. SendsAs(p) => rec.kind = kind
      BY <1>1, <2>1 DEF SendsAs
    <2> QED  BY <1>0, <1>1, <2>1, <2>2, <2>3, <2>4, PodQuiet
  <1>3. CASE ~(Leased(p) /\ record = "none")
    <2> DEFINE out == IF ~Leased(p) THEN "refused"
                      ELSE IF record = "completed" THEN "answered" ELSE "noanswer"
               rec == [pods[p] EXCEPT !.pc = "out", !.out = out]
    <2>1. rec \in PodRec /\ rec.pc = "out" /\ rec.out = out /\ out # "never"
      BY <1>0 DEF PodRec, PodStates, Outcomes
    <2>2. Moves(p, rec)
      BY <1>0, <1>3, <2>1 DEF claim_in, Moves, TypeOK
    <2> HIDE DEF rec, out
    <2>3. ~Owes(p)'
      BY <1>0, <2>1, <2>2, MovesIs DEF Owes
    <2> QED  BY <1>0, <1>1, <2>1, <2>2, <2>3, PodQuiet
  <1> QED  BY <1>2, <1>3

\* The effect, where there is one, is the one the runtime owed.
LEMMA DispatchPod ==
  ASSUME Inv, NEW p \in Pods, dispatch(p)  PROVE Inv'
  <1>0. /\ TypeOK /\ pods[p] \in PodRec /\ record \in {"none", "attempted", "completed"}
        /\ req \in ReqRec /\ got \in GotRec /\ items \in Seq(ItemRec) /\ FollowsUp
    BY PodAt
  <1>1. PICK s \in {"ok", "client", "server", "never", "broke", "refused"} :
        /\ At(p, "send") \/ (At(p, "begun") /\ pods[p].kind # "record")
        /\ \/ s \in {"ok", "server", "broke"} /\ Land(p)
           \/ s \in {"client", "server", "never", "broke", "refused"} /\ UNCHANGED got
        /\ pods' = [pods EXCEPT ![p].pc = "out",
                       ![p].out = CASE s \in {"ok", "client", "server"} -> "answered"
                                    [] s = "never" -> "never"
                                    [] s = "broke" -> "noanswer"
                                    [] s = "refused" -> "refused",
                       ![p].claimed = FALSE]
        /\ record' = IF ~pods[p].claimed \/ ~Leased(p) THEN record
                     ELSE CASE s = "ok" -> "completed"
                            [] s \in {"client", "never", "refused"} -> "none"
                            [] s \in {"server", "broke"} -> record
        /\ UNCHANGED <<kind, req, items, answering, holds, relays, turn, faults>>
    BY DEF dispatch
  <1> DEFINE out == CASE s \in {"ok", "client", "server"} -> "answered"
                      [] s = "never" -> "never"
                      [] s = "broke" -> "noanswer"
                      [] s = "refused" -> "refused"
             rec == [pods[p] EXCEPT !.pc = "out", !.out = out, !.claimed = FALSE]
  <1>2. out \in Outcomes /\ (out = "never" => s = "never")
    BY DEF Outcomes
  <1>3. rec \in PodRec /\ rec.pc = "out" /\ rec.out = out
    BY <1>0, <1>2 DEF PodRec, PodStates
  <1>4. Moves(p, rec)
    <2>1. pods' = [pods EXCEPT ![p] = rec]
      BY <1>0, <1>1 DEF TypeOK
    <2> QED  BY <1>3, <2>1 DEF Moves
  <1>5. record' \in {"none", "attempted", "completed"}
    BY <1>0, <1>1
  <1> HIDE DEF rec, out
  <1>6. /\ pods[p].pc \in {"begun", "send"} /\ Owes(p)
        /\ UNCHANGED <<kind, req, items, answering, holds, relays, turn, faults>>
    BY <1>1 DEF At, Owes
  <1>7. Owes(p)' => s = "never"
    BY <1>0, <1>2, <1>3, <1>4, MovesIs DEF Owes
  <1>8. got.effects \in Nat /\ Ready' = Ready /\ Ready \in Nat
    BY <1>0, <1>6 DEF GotRec, Ready
  <1>9. CASE UNCHANGED got
    <2>1. Owes(p)' => Owes(p)
      BY <1>6
    <2> QED  BY <1>0, <1>3, <1>4, <1>5, <1>6, <1>9, <2>1, PodQuiet
  <1>10. CASE s \in {"ok", "server", "broke"} /\ Land(p)
    <2>1. ~Owes(p)'
      BY <1>7, <1>10
    <2>2. /\ got' \in GotRec /\ got'.yeses = got.yeses /\ got'.marks = got.marks
          /\ pods[p].kind # "key" => got'.effects = got.effects + 1 /\ got'.key = got.key
          /\ pods[p].kind = "key" => /\ got'.key = TRUE
                                     /\ got'.effects = IF got.key THEN got.effects ELSE got.effects + 1
      <3> DEFINE more == IF got.key THEN got.effects ELSE got.effects + 1
      <3>1. more \in Nat /\ got.effects + 1 \in Nat
        BY <1>8
      <3>2. CASE pods[p].kind = "key"
        <4>1. got' = [got EXCEPT !.effects = more, !.key = TRUE]
          BY <1>10, <3>2 DEF Land
        <4> HIDE DEF more
        <4>2. /\ got' \in GotRec /\ got'.yeses = got.yeses /\ got'.marks = got.marks
              /\ got'.key = TRUE /\ got'.effects = more
          BY <1>0, <3>1, <4>1 DEF GotRec
        <4> QED  BY <3>2, <4>2 DEF more
      <3>3. CASE pods[p].kind # "key"
        <4>1. got' = [got EXCEPT !.effects = got.effects + 1]
          BY <1>10, <3>3 DEF Land
        <4> QED  BY <1>0, <3>1, <3>3, <4>1 DEF GotRec
      <3> QED  BY <3>2, <3>3
    <2>3. kind # "key" /\ SendsAs(p) =>
             got'.effects + Num(Owes(p)') + Ready' <= got.effects + Num(Owes(p)) + Ready
      <3>1. Num(Owes(p)') = 0 /\ Num(Owes(p)) = 1
        BY <1>6, <2>1 DEF Num
      <3>2. kind # "key" /\ SendsAs(p) => got'.effects = got.effects + 1
        BY <1>6, <2>2 DEF SendsAs
      <3>3. got.effects + 1 + 0 + Ready <= got.effects + 1 + Ready
        BY <1>8
      <3> QED  BY <1>8, <3>1, <3>2, <3>3
    <2>4. kind = "key" /\ SendsAs(p) /\ got.effects = (IF got.key THEN 1 ELSE 0)
             => got'.effects = (IF got'.key THEN 1 ELSE 0)
      BY <1>0, <1>6, <2>2 DEF SendsAs, GotRec
    <2>5. Allowed => Allowed'
      <3>1. Allowed => got.yeses > 0
        BY <1>6 DEF Allowed
      <3> QED  BY <2>2, <3>1 DEF Allowed
    <2>6. Tried => Tried'
      BY <1>6, <2>2 DEF Tried
    <2>7. FollowsUp' /\ items' = items /\ req' = req
      BY <1>0, <1>6 DEF FollowsUp
    <2> QED  BY <1>0, <1>3, <1>4, <1>5, <1>6, <2>2, <2>3, <2>4, <2>5, <2>6, <2>7, PodFrame
  <1> QED  BY <1>1, <1>9, <1>10

LEMMA ReportPod ==
  ASSUME Inv, NEW p \in Pods, report(p)  PROVE Inv'
  <1>0. /\ TypeOK /\ pods[p] \in PodRec /\ record \in {"none", "attempted", "completed"}
        /\ req \in ReqRec
    BY PodAt
  <1>1. /\ UNCHANGED <<kind, answering, holds, relays, turn, faults, items, req, got, record>>
        /\ pods[p].pc = "out"
    BY DEF report, At
  <1>2. CASE Leased(p) /\ req.state \in {"approved", "sending"}
    <2> DEFINE rec == [Idle EXCEPT !.pc = "settle", !.out = pods[p].out, !.saw = req.attempts,
                                   !.ret = "guest"]
    <2>1. /\ rec \in PodRec /\ rec.pc = "settle" /\ rec.out = pods[p].out
          /\ rec.saw = req.attempts
      BY <1>0, IdleTyped DEF PodRec, PodStates, ReqRec, Idle
    <2>2. Moves(p, rec)
      BY <1>2, <2>1 DEF report, Moves
    <2> HIDE DEF rec
    <2>3. Owes(p)' => Owes(p)
      BY <1>0, <1>1, <2>1, <2>2, MovesIs DEF Owes
    <2> QED  BY <1>0, <1>1, <1>2, <2>1, <2>2, <2>3, PodQuiet
  <1>3. CASE ~(Leased(p) /\ req.state \in {"approved", "sending"})
    <2> DEFINE rec == [Idle EXCEPT !.pc = "guest"]
    <2>1. rec \in PodRec /\ rec.pc = "guest"
      BY IdleTyped DEF PodRec, PodStates
    <2>2. Moves(p, rec)
      BY <1>3, <2>1 DEF report, Moves
    <2> HIDE DEF rec
    <2>3. ~Owes(p)'
      BY <1>0, <2>1, <2>2, MovesIs DEF Owes
    <2> QED  BY <1>0, <1>1, <2>1, <2>2, <2>3, PodQuiet
  <1> QED  BY <1>2, <1>3

\* What an outcome makes of a request that is waiting or going.
LEMMA NextIs ==
  ASSUME NEW out \in Outcomes, NEW before \in Nat, NEW keyed \in BOOLEAN
  PROVE  /\ next(out, before, keyed) \in {"spent", "approved", "unsent", "unknown"}
         /\ next(out, before, keyed) = "approved" =>
              before + 1 < MAX_ATTEMPTS /\ (out = "never" \/ keyed)
  BY HeldAssumption DEF next, Outcomes

\* Only an outcome that had no effect, or none a second time, gives the yes back.
LEMMA SettlePod ==
  ASSUME Inv, NEW p \in Pods, settle(p)  PROVE Inv'
  <1>0. /\ TypeOK /\ pods[p] \in PodRec /\ record \in {"none", "attempted", "completed"}
        /\ req \in ReqRec /\ got \in GotRec /\ items \in Seq(ItemRec) /\ FollowsUp
    BY PodAt
  <1>1. /\ UNCHANGED <<kind, answering, holds, relays, turn, faults, items, got, record>>
        /\ pods[p].pc = "settle"
    BY DEF settle, At
  <1> DEFINE out == pods[p].out
             saw == pods[p].saw
             to == next(out, saw, kind = "key")
  <1>2. out \in Outcomes /\ saw \in Nat /\ pods[p].ret \in {"prepare", "guest"}
    BY <1>0 DEF PodRec
  <1>3. /\ to \in {"spent", "approved", "unsent", "unknown"}
        /\ to = "approved" => saw + 1 < MAX_ATTEMPTS /\ (out = "never" \/ kind = "key")
    <2>1. (kind = "key") \in BOOLEAN
      OBVIOUS
    <2> HIDE DEF out, saw
    <2> QED  BY <1>2, <2>1, NextIs
  <1>4. CASE req.state \notin {"approved", "sending"}
    <2>1. Go(p, pods[p].ret) /\ UNCHANGED req
      BY <1>4 DEF settle
    <2>2. PICK rec : Moves(p, rec) /\ rec.pc = pods[p].ret
      BY <1>0, <1>2, <2>1, GoIs DEF PodStates
    <2>3. ~Owes(p)'
      BY <1>0, <1>2, <2>2, MovesIs DEF Owes
    <2> QED  BY <1>0, <1>1, <1>2, <2>1, <2>2, <2>3, PodQuiet
  <1>5. CASE req.state \in {"approved", "sending"}
    <2> DEFINE tries == IF out = "never" \/ to = "approved" THEN req.attempts + 1 ELSE req.attempts
               pc == IF to \in {"unsent", "unknown"} THEN "ask" ELSE pods[p].ret
    <2>1. req' = [req EXCEPT !.state = to, !.attempts = tries] /\ Go(p, pc)
      BY <1>5 DEF settle
    <2>2. pc \in {"ask", "prepare", "guest"}
      BY <1>2
    <2>3. tries \in Nat /\ (to = "approved" => tries = req.attempts + 1)
      BY <1>0 DEF ReqRec
    <2> HIDE DEF to, tries, pc
    <2>4. req' \in ReqRec /\ req'.state = to /\ req'.attempts = tries
      BY <1>0, <1>3, <2>1, <2>3 DEF ReqRec, ReqStates
    <2>5. PICK rec : Moves(p, rec) /\ rec.pc = pc
      BY <1>0, <2>1, <2>2, GoIs DEF PodStates
    <2>6. ~Owes(p)'
      BY <1>0, <2>2, <2>5, MovesIs DEF Owes
    <2>7. kind # "key" => got'.effects + Num(Owes(p)') + Ready' <= got.effects + Num(Owes(p)) + Ready
      <3> SUFFICES ASSUME kind # "key"
                   PROVE  got'.effects + Num(Owes(p)') + Ready' <= got.effects + Num(Owes(p)) + Ready
        OBVIOUS
      <3>1. got.effects \in Nat /\ got' = got /\ Num(Owes(p)') = 0
        BY <1>0, <1>1, <2>6 DEF GotRec, Num
      <3>2. /\ Ready' <= Num(Owes(p)) /\ Num(Owes(p)) \in Nat
            /\ Ready \in Nat /\ Ready' \in Nat
        BY <1>1, <1>3, <2>4 DEF Ready, Num, Owes
      <3> QED  BY <3>1, <3>2
    <2>8. Allowed => Allowed'
      BY <1>1, <1>5 DEF Allowed
    <2>9. Works(p) /\ Tried => Tried'
      <3> SUFFICES ASSUME Works(p), Tried  PROVE Tried'
        OBVIOUS
      <3>1. saw = req.attempts
        BY <1>1 DEF Works
      <3>2. got.marks <= req.attempts + 1 /\ got.marks <= MAX_ATTEMPTS
        BY <1>0, <1>5 DEF Tried, GotRec, ReqRec
      <3>3. got' = got
        BY <1>1
      <3> QED  BY <1>3, <2>3, <2>4, <3>1, <3>2, <3>3 DEF Tried
    <2>10. FollowsUp' /\ items' = items
      BY <1>0, <1>1 DEF FollowsUp
    <2> QED  BY <1>0, <1>1, <2>2, <2>4, <2>5, <2>7, <2>8, <2>9, <2>10, PodFrame
  <1> QED  BY <1>4, <1>5

LEMMA AskPod ==
  ASSUME Inv, NEW p \in Pods, AskAgain(p) \/ MoveItem(p)  PROVE Inv'
  <1>0. /\ TypeOK /\ pods[p] \in PodRec /\ record \in {"none", "attempted", "completed"}
        /\ req \in ReqRec /\ got \in GotRec /\ items \in Seq(ItemRec) /\ FollowsUp
    BY PodAt
  <1>1. /\ UNCHANGED <<kind, answering, holds, relays, turn, faults, got, record>>
        /\ pods[p].pc \in {"ask", "move"} /\ ~Owes(p)
    BY DEF AskAgain, MoveItem, At, Owes
  <1>2. PICK rec : Moves(p, rec) /\ rec.pc \in {"move", "prepare", "guest"}
    <2>1. CASE AskAgain(p)
      <3> DEFINE rec == [pods[p] EXCEPT !.pc = "move", !.item = Len(items) + 1]
      <3>1. Len(items) + 1 \in Nat
        BY <1>0
      <3>2. rec \in PodRec /\ rec.pc = "move"
        BY <1>0, <3>1 DEF PodRec, PodStates
      <3>3. pods' = [pods EXCEPT ![p] = rec]
        BY <1>0, <2>1 DEF AskAgain, TypeOK
      <3> HIDE DEF rec
      <3> QED  BY <3>2, <3>3 DEF Moves
    <2>2. CASE MoveItem(p)
      <3>1. pods[p].ret \in {"prepare", "guest"} /\ Go(p, pods[p].ret)
        BY <1>0, <2>2 DEF MoveItem, PodRec
      <3> QED  BY <1>0, <3>1, GoIs DEF PodStates
    <2> QED  BY <2>1, <2>2
  <1>3. ~Owes(p)'
    BY <1>0, <1>2, MovesIs DEF Owes
  <1>4. req' \in ReqRec /\ req'.state = req.state /\ req'.attempts = req.attempts
    <2>1. CASE AskAgain(p)
      BY <1>0, <2>1 DEF AskAgain
    <2>2. CASE MoveItem(p)
      <3>1. req' = [req EXCEPT !.item = pods[p].item] /\ pods[p].item \in Nat
        BY <1>0, <2>2 DEF MoveItem, PodRec
      <3> QED  BY <1>0, <3>1 DEF ReqRec
    <2> QED  BY <2>1, <2>2
  <1>5. /\ items' \in Seq(ItemRec) /\ DOMAIN items \subseteq DOMAIN items'
        /\ \A i \in DOMAIN items : items'[i] = items[i]
        /\ FollowsUp'
    <2>1. CASE AskAgain(p)
      <3> DEFINE new == [state |-> "pending", followup |-> TRUE, hold |-> None]
      <3>1. new \in ItemRec /\ new.hold = None /\ items' = Append(items, new)
        BY <2>1 DEF AskAgain, ItemRec
      <3> HIDE DEF new
      <3>2. /\ Append(items, new) \in Seq(ItemRec)
            /\ Len(Append(items, new)) = Len(items) + 1
            /\ \A i \in 1 .. Len(items) : Append(items, new)[i] = items[i]
            /\ Append(items, new)[Len(items) + 1] = new
        BY <1>0, <3>1, AppendProperties
      <3>3. DOMAIN items = 1 .. Len(items) /\ DOMAIN items' = 1 .. Len(items) + 1
        BY <1>0, <3>1, <3>2
      <3>4. Len(items) \in Nat
        BY <1>0
      <3>5. \A i \in DOMAIN items' : i \in DOMAIN items \/ i = Len(items) + 1
        BY <3>3, <3>4
      <3>6. FollowsUp'
        BY <1>0, <3>1, <3>2, <3>3, <3>5 DEF FollowsUp
      <3>7. DOMAIN items \subseteq DOMAIN items'
        BY <3>3, <3>4
      <3> QED  BY <3>1, <3>2, <3>3, <3>6, <3>7
    <2>2. CASE MoveItem(p)
      BY <1>0, <2>2 DEF MoveItem, FollowsUp
    <2> QED  BY <2>1, <2>2
  <1>6. got'.effects + Num(Owes(p)') + Ready' <= got.effects + Num(Owes(p)) + Ready
    <2>1. got' = got /\ got.effects \in Nat /\ Ready' = Ready /\ Ready \in Nat
      BY <1>0, <1>1, <1>4 DEF GotRec, Ready
    <2>2. Num(Owes(p)') = 0 /\ Num(Owes(p)) = 0
      BY <1>1, <1>3 DEF Num
    <2> QED  BY <2>1, <2>2
  <1>7. Allowed => Allowed'
    BY <1>0, <1>1, <1>2, <1>4, MovesIs DEF Allowed
  <1>8. Tried => Tried'
    BY <1>1, <1>4 DEF Tried
  <1>9. got' \in GotRec /\ got'.yeses = got.yeses /\ got'.effects = got.effects /\ got'.key = got.key
    BY <1>0, <1>1
  <1> QED  BY <1>0, <1>1, <1>2, <1>4, <1>5, <1>6, <1>7, <1>8, <1>9, PodFrame

\* A turn begins or ends, or its runtime is lost.
LEMMA TurnPod ==
  ASSUME Inv, NEW p \in Pods, Take(p) \/ Finish(p) \/ Crash(p)  PROVE Inv'
  <1>0. /\ TypeOK /\ pods[p] \in PodRec /\ record \in {"none", "attempted", "completed"}
        /\ req \in ReqRec /\ got \in GotRec /\ items \in Seq(ItemRec) /\ FollowsUp
        /\ EffectInv /\ RelayInv /\ TryInv /\ HoldAsked
    BY PodAt DEF Inv
  <1>1. UNCHANGED <<kind, req, items, answering, holds, record, got>>
    BY DEF Take, Finish, Crash
  <1>2. Faulted
    <2>1. CASE Take(p) \/ Finish(p)
      BY <1>0, <2>1, Unfaulted DEF Take, Finish
    <2>2. CASE Crash(p)
      <3>1. "crash" \in FaultKinds /\ Spend("crash")
        BY <2>2 DEF Crash, FaultKinds
      <3> QED  BY <1>0, <3>1, SpendIs DEF Faulted
    <2> QED  BY <2>1, <2>2
  <1>3. PICK rec : /\ Moves(p, rec) /\ rec.pc \in {"settle", "prepare", "idle"}
                   /\ rec.pc = "idle" <=> ~Take(p)
                   /\ rec.pc = "settle" =>
                        /\ Take(p) /\ req.state = "sending" /\ rec.saw = req.attempts
                        /\ rec.out = "noanswer"
    <2>1. CASE Take(p) /\ req.state = "sending"
      <3> DEFINE rec == [Idle EXCEPT !.pc = "settle", !.saw = req.attempts,
                                     !.out = "noanswer", !.ret = "prepare"]
      <3>1. /\ rec \in PodRec /\ rec.pc = "settle" /\ rec.saw = req.attempts
            /\ rec.out = "noanswer"
        BY <1>0, IdleTyped DEF PodRec, PodStates, Outcomes, ReqRec, Idle
      <3>2. pods' = [pods EXCEPT ![p] = rec]
        BY <2>1 DEF Take
      <3> HIDE DEF rec
      <3> QED  BY <2>1, <3>1, <3>2 DEF Moves
    <2>2. CASE Take(p) /\ req.state # "sending"
      <3> DEFINE rec == [Idle EXCEPT !.pc = "prepare"]
      <3>1. rec \in PodRec /\ rec.pc = "prepare"
        BY IdleTyped DEF PodRec, PodStates
      <3>2. pods' = [pods EXCEPT ![p] = rec]
        BY <2>2 DEF Take
      <3> HIDE DEF rec
      <3> QED  BY <2>2, <3>1, <3>2 DEF Moves
    <2>3. CASE ~Take(p)
      <3>1. pods' = [pods EXCEPT ![p] = Idle]
        BY <2>3 DEF Finish, Crash
      <3>2. Idle \in PodRec /\ Idle.pc = "idle"
        BY IdleTyped DEF Idle
      <3> QED  BY <2>3, <3>1, <3>2 DEF Moves
    <2> QED  BY <2>1, <2>2, <2>3
  <1>4. /\ pods' \in [Pods -> PodRec] /\ pods'[p] = rec
        /\ \A q \in Pods : q # p => pods'[q] = pods[q]
    BY <1>0, <1>3, MovesIs
  <1>5. relays' \in [Relays -> RelayRec]
    <2>1. relays \in [Relays -> RelayRec]
      BY <1>0 DEF TypeOK, RelayRec
    <2>2. CASE Take(p)
      BY <2>1, <2>2 DEF Take
    <2>3. CASE Finish(p)
      <3>1. \A r \in Relays : [relays[r] EXCEPT !.pod = None] \in RelayRec
        BY <2>1 DEF RelayRec
      <3> QED  BY <2>1, <2>3, <3>1 DEF Finish
    <2>4. CASE Crash(p)
      <3>1. \A r \in Relays : [relays[r] EXCEPT !.pc = "done", !.pod = None] \in RelayRec
        BY <2>1 DEF RelayRec
      <3> QED  BY <2>1, <2>4, <3>1 DEF Crash
    <2> QED  BY <2>2, <2>3, <2>4
  <1>6. turn' \in [queued : BOOLEAN, parked : BOOLEAN, lease : Pods \cup {None}]
    <2>1. turn \in [queued : BOOLEAN, parked : BOOLEAN, lease : Pods \cup {None}]
      BY <1>0 DEF TypeOK
    <2>2. CASE Take(p)
      BY <2>1, <2>2 DEF Take
    <2>3. CASE Finish(p)
      <3>1. (Told(p) /\ holds # {}) \in BOOLEAN /\ (turn.queued \/ (Told(p) /\ holds = {})) \in BOOLEAN
        OBVIOUS
      <3> QED  BY <2>1, <2>3, <3>1 DEF Finish
    <2>4. CASE Crash(p)
      BY <2>1, <2>4 DEF Crash
    <2> QED  BY <2>2, <2>3, <2>4
  <1>7. TypeOK'
    BY <1>0, <1>1, <1>2, <1>4, <1>5, <1>6 DEF TypeOK, Faulted, PodRec, RelayRec
  <1>8. EffectInv'
    <2>1. ~Owes(p)'
      BY <1>3, <1>4 DEF Owes
    <2>2. got'.effects + Num(Owes(p)') + Ready' <= got.effects + Num(Owes(p)) + Ready
      <3>1. got' = got /\ got.effects \in Nat /\ Ready' = Ready /\ Ready \in Nat
        BY <1>0, <1>1 DEF GotRec, Ready
      <3>2. Num(Owes(p)') = 0 /\ Num(Owes(p)) \in Nat
        BY <2>1 DEF Num
      <3> QED  BY <3>1, <3>2
    <2>3. Allowed => Allowed'
      BY <1>1, <1>3, <1>4 DEF Allowed
    <2> QED  BY <1>0, <1>1, <1>2, <1>3, <1>7, <2>2, <2>3, PodEffect
  <1>9. RelayInv'
    <2> SUFFICES ASSUME NEW r \in Relays, relays'[r].pc \notin {"idle", "done"}
                 PROVE  relays'[r].pod \in Pods /\ pods'[relays'[r].pod].pc = "guest"
      BY DEF RelayInv
    <2>0. relays \in [Relays -> RelayRec]
      BY <1>0 DEF TypeOK, RelayRec
    <2>1. CASE Take(p)
      <3>1. relays' = relays /\ pods[p].pc = "idle"
        BY <2>1 DEF Take, At
      <3> QED  BY <1>0, <1>4, <3>1 DEF RelayInv
    <2>2. CASE Finish(p)
      <3>1. relays[r].pod # p
        <4>1. CASE relays[r].pod = p
          <5>1. relays'[r] = [relays[r] EXCEPT !.pod = None]
            BY <2>2, <4>1 DEF Finish
          <5>2. relays[r].pc \notin {"idle", "done"}
            BY <2>0, <5>1 DEF RelayRec
          <5> QED  BY <2>2, <4>1, <5>2 DEF Finish, Relaying
        <4> QED  BY <4>1
      <3>2. relays'[r] = relays[r]
        BY <2>2, <3>1 DEF Finish
      <3> QED  BY <1>0, <1>4, <3>1, <3>2 DEF RelayInv
    <2>3. CASE Crash(p)
      <3>1. relays[r].pod # p
        <4>1. CASE relays[r].pod = p
          <5>1. relays'[r] = [relays[r] EXCEPT !.pc = "done", !.pod = None]
            BY <2>3, <4>1 DEF Crash
          <5> QED  BY <2>0, <5>1 DEF RelayRec
        <4> QED  BY <4>1
      <3>2. relays'[r] = relays[r]
        BY <2>3, <3>1 DEF Crash
      <3> QED  BY <1>0, <1>4, <3>1, <3>2 DEF RelayInv
    <2> QED  BY <2>1, <2>2, <2>3
  <1>10. TryInv'
    <2> SUFFICES ASSUME Never("lapse")'  PROVE (\A q \in Pods : Works(q)') /\ Tried'
      BY DEF TryInv
    <2>1. (\A q \in Pods : Works(q)) /\ Tried
      BY <1>0, <1>2 DEF TryInv, Faulted, FaultKinds
    <2>2. Tried'
      BY <1>1, <2>1 DEF Tried
    <2>3. \A q \in Pods : q # p => pods[q].pc = "idle"
      <3>1. CASE Take(p)
        BY <2>1, <3>1, HeldAssumption DEF Take, Works
      <3>2. CASE Finish(p) \/ Crash(p)
        BY <2>1, <3>2 DEF Finish, Crash, At, Works
      <3> QED  BY <3>1, <3>2
    <2>4. Take(p) => turn'.lease = p
      BY <1>0 DEF Take, TypeOK
    <2>5. ASSUME NEW q \in Pods  PROVE Works(q)'
      <3>1. CASE q = p
        BY <1>1, <1>3, <1>4, <2>4, <3>1 DEF Works
      <3>2. CASE q # p
        BY <1>4, <2>3, <3>2 DEF Works
      <3> QED  BY <3>1, <3>2
    <2> QED  BY <2>2, <2>5
  <1>11. HoldAsked'
    <2>1. CASE Crash(p)
      <3>1. ~Never("crash")'
        BY <1>0, <2>1, SpendIs DEF Crash, FaultKinds
      <3> QED  BY <3>1 DEF HoldAsked
    <2>2. CASE Take(p) \/ Finish(p)
      <3>1. \A r \in Relays : relays'[r].pc = relays[r].pc
        BY <1>0, <2>2 DEF Take, Finish, TypeOK
      <3>2. holds \subseteq Relays
        BY <1>0 DEF TypeOK
      <3>3. Never("crash")' => Never("crash")
        BY <1>2 DEF Faulted, FaultKinds
      <3> QED  BY <1>0, <1>1, <3>1, <3>2, <3>3 DEF HoldAsked, Open
    <2> QED  BY <2>1, <2>2
  <1>12. FollowsUp'
    BY <1>0, <1>1 DEF FollowsUp
  <1> QED  BY <1>7, <1>8, <1>9, <1>10, <1>11, <1>12 DEF Inv

-----------------------------------------------------------------------------
(* The relays, the people and the queue                                    *)

\* A step that leaves every runtime where it is.
LEMMA DeskFrame ==
  ASSUME Inv, Faulted, UNCHANGED <<kind, pods, record>>,
         req' \in ReqRec, got' \in GotRec, items' \in Seq(ItemRec),
         answering' \subseteq [item : DOMAIN items', holds : BOOLEAN, resend : BOOLEAN],
         holds' \subseteq Relays, relays' \in [Relays -> RelayRec],
         turn' \in [queued : BOOLEAN, parked : BOOLEAN, lease : Pods \cup {None}],
         got'.effects = got.effects, got'.key = got.key, got'.yeses >= got.yeses,
         got.yeses + Ready' <= got'.yeses + Ready,
         req'.state \in {"approved", "sending"} =>
             req.state \in {"approved", "sending"} \/ got'.yeses > 0,
         RelayInv', FollowsUp', HoldAsked',
         turn'.lease = turn.lease \/ ~Never("lapse")',
         Tried /\ (\A p \in Pods : Works(p)) =>
             /\ Tried'
             /\ \A p \in Pods : pods[p].pc = "settle" =>
                  req'.state \in {"approved", "sending"} /\ pods[p].saw = req'.attempts
  PROVE  Inv'
  <1>0. TypeOK /\ EffectInv /\ TryInv
    BY DEF Inv
  <1>1. TypeOK'
    BY <1>0 DEF TypeOK, Faulted, PodRec, RelayRec, ReqRec, ItemRec, GotRec
  <1>2. EffectInv'
    <2> SUFFICES ASSUME Never("edit")'  PROVE (\A q \in Pods : SendsAs(q)') /\ Counted' /\ Allowed'
      BY DEF EffectInv
    <2>1. (\A q \in Pods : SendsAs(q)) /\ Counted /\ Allowed
      BY <1>0 DEF EffectInv, Faulted, FaultKinds
    <2>2. \A q \in Pods : SendsAs(q)'
      BY <2>1 DEF SendsAs
    <2>3. Owing' = Owing
      BY DEF Owing, Owes
    <2>4. /\ Cardinality(Owing) \in Nat /\ got.effects \in Nat /\ got.yeses \in Nat
          /\ got'.yeses \in Nat /\ Ready \in Nat /\ Ready' \in Nat
      BY <1>0, OwingFinite DEF TypeOK, GotRec, Ready
    <2>5. Counted'
      BY <2>1, <2>3, <2>4 DEF Counted
    <2>6. Allowed'
      BY <2>1, <2>4 DEF Allowed
    <2> QED  BY <2>2, <2>5, <2>6
  <1>3. TryInv'
    <2> SUFFICES ASSUME Never("lapse")'  PROVE (\A q \in Pods : Works(q)') /\ Tried'
      BY DEF TryInv
    <2>1. (\A q \in Pods : Works(q)) /\ Tried
      BY <1>0 DEF TryInv, Faulted, FaultKinds
    <2> QED  BY <2>1 DEF Works
  <1> QED  BY <1>1, <1>2, <1>3 DEF Inv

\* Nothing of the request changes.
LEMMA DeskQuiet ==
  ASSUME Inv, Faulted, UNCHANGED <<kind, pods, record, req, got>>,
         items' \in Seq(ItemRec),
         answering' \subseteq [item : DOMAIN items', holds : BOOLEAN, resend : BOOLEAN],
         holds' \subseteq Relays, relays' \in [Relays -> RelayRec],
         turn' \in [queued : BOOLEAN, parked : BOOLEAN, lease : Pods \cup {None}],
         RelayInv', FollowsUp', HoldAsked',
         turn'.lease = turn.lease \/ ~Never("lapse")'
  PROVE  Inv'
  <1>1. req \in ReqRec /\ got \in GotRec
    BY DEF Inv, TypeOK, ReqRec, GotRec
  <1>2. got.yeses \in Nat /\ Ready' = Ready /\ Ready \in Nat
    BY <1>1 DEF GotRec, Ready
  <1>3. Tried => Tried'
    BY DEF Tried
  <1>4. (\A p \in Pods : Works(p)) => \A p \in Pods : pods[p].pc = "settle" =>
            req'.state \in {"approved", "sending"} /\ pods[p].saw = req'.attempts
    BY DEF Works
  <1> QED  BY <1>1, <1>2, <1>3, <1>4, DeskFrame

\* What may be assumed at the desk.
LEMMA DeskAt ==
  ASSUME Inv
  PROVE  /\ TypeOK /\ req \in ReqRec /\ got \in GotRec /\ items \in Seq(ItemRec)
         /\ answering \subseteq [item : DOMAIN items, holds : BOOLEAN, resend : BOOLEAN]
         /\ holds \subseteq Relays /\ relays \in [Relays -> RelayRec]
         /\ turn \in [queued : BOOLEAN, parked : BOOLEAN, lease : Pods \cup {None}]
         /\ RelayInv /\ FollowsUp /\ HoldAsked
  BY DEF Inv, TypeOK, ReqRec, GotRec, ItemRec, RelayRec

\* One item more, at the end.
LEMMA OneItemMore ==
  ASSUME items \in Seq(ItemRec), NEW new \in ItemRec, items' = Append(items, new)
  PROVE  /\ items' \in Seq(ItemRec) /\ DOMAIN items \subseteq DOMAIN items'
         /\ \A i \in DOMAIN items : items'[i] = items[i]
         /\ Len(items) + 1 \in DOMAIN items' /\ items'[Len(items) + 1] = new
         /\ \A i \in DOMAIN items' : i \in DOMAIN items \/ i = Len(items) + 1
         /\ Len(items) + 1 \in Nat
  <1>1. /\ items' \in Seq(ItemRec) /\ Len(items') = Len(items) + 1
        /\ \A i \in 1 .. Len(items) : items'[i] = items[i]
        /\ items'[Len(items) + 1] = new
    BY AppendProperties
  <1>2. Len(items) \in Nat /\ DOMAIN items = 1 .. Len(items) /\ DOMAIN items' = 1 .. Len(items) + 1
    BY <1>1
  <1>3. /\ DOMAIN items \subseteq DOMAIN items' /\ Len(items) + 1 \in DOMAIN items'
        /\ \A i \in DOMAIN items' : i \in DOMAIN items \/ i = Len(items) + 1
    BY <1>2
  <1> QED  BY <1>1, <1>2, <1>3

\* One item settled.
LEMMA OneItemSettled ==
  ASSUME items \in Seq(ItemRec), NEW i \in DOMAIN items,
         items' = [items EXCEPT ![i].state = "settled"]
  PROVE  /\ items' \in Seq(ItemRec) /\ DOMAIN items' = DOMAIN items
         /\ items'[i].hold = items[i].hold /\ items'[i].followup = items[i].followup
         /\ \A j \in DOMAIN items : j # i => items'[j] = items[j]
  <1> DEFINE new == [items[i] EXCEPT !.state = "settled"]
  <1>1. items[i] \in ItemRec /\ i \in 1 .. Len(items)
    OBVIOUS
  <1>2. new \in ItemRec /\ new.hold = items[i].hold /\ new.followup = items[i].followup
    BY <1>1 DEF ItemRec
  <1>3. items' = [items EXCEPT ![i] = new]
    OBVIOUS
  <1> HIDE DEF new
  <1>4. items' \in Seq(ItemRec) /\ Len(items') = Len(items)
    BY <1>1, <1>2, <1>3, ExceptSeq
  <1>5. DOMAIN items' = DOMAIN items
    BY <1>3
  <1>6. items'[i] = new /\ \A j \in DOMAIN items : j # i => items'[j] = items[j]
    BY <1>3
  <1> QED  BY <1>2, <1>4, <1>5, <1>6

\* A relay of a refusal: it suspends, asks, and keeps the request.
LEMMA RelayDesk ==
  ASSUME Inv, NEW r \in Relays, Relay(r) \/ TakeHold(r) \/ Targets(r) \/ RaiseItem(r) \/ Keep(r)
  PROVE  Inv'
  <1>0. /\ TypeOK /\ req \in ReqRec /\ got \in GotRec /\ items \in Seq(ItemRec)
        /\ answering \subseteq [item : DOMAIN items, holds : BOOLEAN, resend : BOOLEAN]
        /\ holds \subseteq Relays /\ relays \in [Relays -> RelayRec]
        /\ turn \in [queued : BOOLEAN, parked : BOOLEAN, lease : Pods \cup {None}]
        /\ RelayInv /\ FollowsUp /\ HoldAsked
    BY DeskAt
  <1>1. UNCHANGED <<kind, answering, turn, pods, record, got>>
    BY DEF Relay, TakeHold, Targets, RaiseItem, Keep
  <1>2. Faulted
    <2>1. UNCHANGED faults \/ \E f \in FaultKinds : Spend(f)
      BY DEF Relay, TakeHold, Targets, RaiseItem, Keep, FaultKinds
    <2> QED  BY <1>0, <2>1, Unfaulted, SpendIs DEF Faulted
  <1>3. ASSUME NEW rec \in RelayRec, relays' = [relays EXCEPT ![r] = rec],
               rec.pc \notin {"idle", "done"} =>
                  rec.pod \in Pods /\ pods[rec.pod].pc = "guest"
        PROVE  /\ relays' \in [Relays -> RelayRec] /\ RelayInv'
               /\ relays'[r] = rec /\ \A q \in Relays : q # r => relays'[q] = relays[q]
    BY <1>0, <1>1, <1>3 DEF RelayInv
  <1>4. Never("crash")' => Never("crash")
    BY <1>2 DEF Faulted, FaultKinds
  <1>5. relays[r] \in RelayRec
    BY <1>0
  <1>6. CASE Relay(r)
    <2>1. PICK p \in Pods :
             /\ At(p, "guest") /\ relays[r].pc = "idle"
             /\ relays' = [relays EXCEPT ![r] = [pc |-> IF OpenApproval THEN "done" ELSE "take",
                                                 pod |-> p, item |-> 0]]
      BY <1>6 DEF Relay
    <2> DEFINE rec == [pc |-> IF OpenApproval THEN "done" ELSE "take", pod |-> p, item |-> 0]
    <2>2. rec \in RelayRec /\ rec.pod = p /\ rec.pc \in {"done", "take"}
      BY DEF RelayRec
    <2> HIDE DEF rec
    <2>3. /\ relays' \in [Relays -> RelayRec] /\ RelayInv'
          /\ \A q \in Relays : q # r => relays'[q] = relays[q]
      BY <1>3, <2>1, <2>2 DEF At, rec
    <2>4. UNCHANGED <<req, items, holds>>
      BY <1>6 DEF Relay
    <2>5. HoldAsked'
      BY <1>0, <1>4, <2>1, <2>3, <2>4 DEF HoldAsked, Open
    <2>6. FollowsUp'
      BY <1>0, <2>4 DEF FollowsUp
    <2> QED  BY <1>0, <1>1, <1>2, <2>3, <2>4, <2>5, <2>6, DeskQuiet
  <1>7. ASSUME relays[r].pc \notin {"idle", "done"}, NEW s \in {"targets", "raise", "done"},
               relays' = [relays EXCEPT ![r].pc = s], UNCHANGED <<req, items>>,
               \/ s \in {"targets", "raise"} /\ holds' \subseteq holds \cup {r}
               \/ s = "done" /\ holds' = holds \ {r}
        PROVE  Inv'
    <2> DEFINE rec == [relays[r] EXCEPT !.pc = s]
    <2>1. rec \in RelayRec /\ rec.pc = s /\ rec.pod = relays[r].pod
      BY <1>5 DEF RelayRec
    <2>2. relays' = [relays EXCEPT ![r] = rec]
      BY <1>0, <1>7
    <2> HIDE DEF rec
    <2>3. relays[r].pod \in Pods /\ pods[relays[r].pod].pc = "guest"
      BY <1>0, <1>7 DEF RelayInv
    <2>4. /\ relays' \in [Relays -> RelayRec] /\ RelayInv' /\ relays'[r] = rec
          /\ \A q \in Relays : q # r => relays'[q] = relays[q]
      BY <1>3, <2>1, <2>2, <2>3
    <2>5. HoldAsked'
      BY <1>0, <1>4, <1>7, <2>1, <2>4 DEF HoldAsked, Open
    <2>6. FollowsUp' /\ holds' \subseteq Relays
      BY <1>0, <1>7 DEF FollowsUp
    <2> QED  BY <1>0, <1>1, <1>2, <1>7, <2>4, <2>5, <2>6, DeskQuiet
  <1>8. CASE TakeHold(r) \/ Targets(r)
    BY <1>7, <1>8 DEF TakeHold, Targets
  <1>9. CASE RaiseItem(r)
    <2>1. CASE OpenApproval
      BY <1>7, <1>9, <2>1 DEF RaiseItem
    <2>2. CASE ~OpenApproval
      <3> DEFINE new == [state |-> "pending", followup |-> FALSE, hold |-> r]
                 rec == [relays[r] EXCEPT !.pc = "keep", !.item = Len(items) + 1]
      <3>1. /\ new \in ItemRec /\ items' = Append(items, new)
            /\ new.hold = r /\ new.state = "pending" /\ new.followup = FALSE
        BY <1>9, <2>2 DEF RaiseItem, ItemRec
      <3> HIDE DEF new
      <3>2. /\ items' \in Seq(ItemRec) /\ DOMAIN items \subseteq DOMAIN items'
            /\ \A i \in DOMAIN items : items'[i] = items[i]
            /\ Len(items) + 1 \in DOMAIN items' /\ items'[Len(items) + 1] = new
            /\ \A i \in DOMAIN items' : i \in DOMAIN items \/ i = Len(items) + 1
            /\ Len(items) + 1 \in Nat
        BY <1>0, <3>1, OneItemMore
      <3>3. rec \in RelayRec /\ rec.pc = "keep" /\ rec.pod = relays[r].pod
        BY <1>5, <3>2 DEF RelayRec
      <3>4. relays' = [relays EXCEPT ![r] = rec] /\ relays[r].pc = "raise" /\ UNCHANGED <<req, holds>>
        BY <1>0, <1>9, <2>2 DEF RaiseItem
      <3> HIDE DEF rec
      <3>5. /\ relays' \in [Relays -> RelayRec] /\ RelayInv' /\ relays'[r] = rec
            /\ \A q \in Relays : q # r => relays'[q] = relays[q]
        BY <1>0, <1>3, <3>3, <3>4 DEF RelayInv
      <3>6. FollowsUp'
        BY <1>0, <3>1, <3>2 DEF FollowsUp
      <3>7. HoldAsked'
        <4> SUFFICES ASSUME Never("crash")', NEW q \in holds
                     PROVE  \/ \E i \in DOMAIN items' : Open(i)' /\ items'[i].hold = q
                            \/ relays'[q].pc \in {"targets", "raise"}
          BY <3>4 DEF HoldAsked
        <4>1. CASE q = r
          BY <3>1, <3>2, <4>1 DEF Open
        <4>2. CASE q # r
          <5>1. \/ \E i \in DOMAIN items : Open(i) /\ items[i].hold = q
                \/ relays[q].pc \in {"targets", "raise"}
            BY <1>0, <1>4 DEF HoldAsked
          <5> QED  BY <1>0, <3>2, <3>5, <4>2, <5>1 DEF Open
        <4> QED  BY <4>1, <4>2
      <3>8. answering' \subseteq [item : DOMAIN items', holds : BOOLEAN, resend : BOOLEAN]
        BY <1>0, <1>1, <3>2
      <3> QED  BY <1>0, <1>1, <1>2, <3>2, <3>4, <3>5, <3>6, <3>7, <3>8, DeskQuiet
    <2> QED  BY <2>1, <2>2
  <1>10. CASE Keep(r)
    <2> DEFINE rec == [relays[r] EXCEPT !.pc = "done"]
    <2>1. rec \in RelayRec /\ rec.pc = "done"
      BY <1>5 DEF RelayRec
    <2>2. relays' = [relays EXCEPT ![r] = rec] /\ relays[r].pc = "keep" /\ UNCHANGED <<items, holds>>
      BY <1>0, <1>10 DEF Keep
    <2> HIDE DEF rec
    <2>3. /\ relays' \in [Relays -> RelayRec] /\ RelayInv' /\ relays'[r] = rec
          /\ \A q \in Relays : q # r => relays'[q] = relays[q]
      BY <1>3, <2>1, <2>2
    <2>4. HoldAsked'
      BY <1>0, <1>4, <2>2, <2>3 DEF HoldAsked, Open
    <2>5. FollowsUp'
      BY <1>0, <2>2 DEF FollowsUp
    <2>6. CASE UNCHANGED req
      BY <1>0, <1>1, <1>2, <2>2, <2>3, <2>4, <2>5, <2>6, DeskQuiet
    <2>7. CASE req' = [state |-> "held", attempts |-> 0, item |-> relays[r].item]
      <3>1. req' \in ReqRec /\ req'.state = "held"
        BY <1>5, <2>7 DEF ReqRec, ReqStates, RelayRec
      <3>2. got.yeses \in Nat /\ Ready' = 0 /\ Ready \in Nat
        BY <1>0, <3>1 DEF GotRec, Ready
      <3>3. Tried => Tried'
        BY <1>1, <3>1 DEF Tried
      <3>4. (\A p \in Pods : Works(p)) => \A p \in Pods : pods[p].pc # "settle"
        <4>1. relays[r].pod \in Pods /\ pods[relays[r].pod].pc = "guest"
          BY <1>0, <2>2 DEF RelayInv
        <4> QED  BY <4>1 DEF Works
      <3> QED  BY <1>0, <1>1, <1>2, <2>2, <2>3, <2>4, <2>5, <3>1, <3>2, <3>3, <3>4, DeskFrame
    <2> QED  BY <1>10, <2>6, <2>7 DEF Keep
  <1> QED  BY <1>6, <1>8, <1>9, <1>10

Decisions == {"approve", "decline", "resend", "done"}

\* A decision that applies gives a yes with all its tries, or ends the request.
LEMMA DecideIs ==
  ASSUME req \in ReqRec, got \in GotRec, NEW i \in Nat, NEW d \in Decisions, decide_tx(i, d)
  PROVE  /\ req' \in ReqRec /\ got' \in GotRec
         /\ got'.effects = got.effects /\ got'.key = got.key
         /\ \/ UNCHANGED <<req, got>>
            \/ /\ req.state \in {"held", "unsent", "unknown"}
               /\ \/ /\ req'.state = "approved" /\ req'.attempts = 0
                     /\ got'.yeses = got.yeses + 1 /\ got'.marks = 0
                  \/ req'.state \in {"declined", "done"} /\ UNCHANGED got
  <1> DEFINE to == transition(d).to
  <1>1. /\ transition(d).from \subseteq {"held", "unsent", "unknown"}
        /\ to \in {"approved", "declined", "done"}
    BY DEF transition, Decisions
  <1> HIDE DEF to
  <1>2. CASE req.item = i /\ req.state \in transition(d).from
    <2> DEFINE tries == IF to = "approved" THEN 0 ELSE req.attempts
    <2>1. /\ req' = [req EXCEPT !.state = to, !.attempts = tries]
          /\ got' = IF to = "approved" THEN [got EXCEPT !.yeses = @ + 1, !.marks = 0] ELSE got
      BY <1>2 DEF decide_tx, to
    <2>2. tries \in Nat /\ (to = "approved" => tries = 0)
      BY DEF ReqRec
    <2> HIDE DEF tries
    <2>3. req' \in ReqRec /\ req'.state = to /\ req'.attempts = tries
      BY <1>1, <2>1, <2>2 DEF ReqRec, ReqStates
    <2>4. CASE to = "approved"
      <3>1. got' = [got EXCEPT !.yeses = @ + 1, !.marks = 0]
        BY <2>1, <2>4
      <3>2. /\ got' \in GotRec /\ got'.effects = got.effects /\ got'.key = got.key
            /\ got'.yeses = got.yeses + 1 /\ got'.marks = 0
        <4>1. got \in GotRec /\ got.yeses + 1 \in Nat
          BY DEF GotRec
        <4> QED  BY <3>1, <4>1 DEF GotRec
      <3> QED  BY <1>1, <1>2, <2>2, <2>3, <2>4, <3>2
    <2>5. CASE to # "approved"
      BY <1>1, <1>2, <2>1, <2>3, <2>5
    <2> QED  BY <2>4, <2>5
  <1>3. CASE ~(req.item = i /\ req.state \in transition(d).from)
    BY <1>3 DEF decide_tx
  <1> QED  BY <1>2, <1>3

\* What a decision means to the counts.
LEMMA DecideDesk ==
  ASSUME Inv, NEW i \in Nat, NEW d \in Decisions, decide_tx(i, d) \/ UNCHANGED <<req, got>>
  PROVE  /\ req' \in ReqRec /\ got' \in GotRec
         /\ got'.effects = got.effects /\ got'.key = got.key /\ got'.yeses >= got.yeses
         /\ got.yeses + Ready' <= got'.yeses + Ready
         /\ req'.state \in {"approved", "sending"} =>
                req.state \in {"approved", "sending"} \/ got'.yeses > 0
         /\ Tried /\ (\A p \in Pods : Works(p)) =>
                /\ Tried'
                /\ \A p \in Pods : pods[p].pc = "settle" =>
                     req'.state \in {"approved", "sending"} /\ pods[p].saw = req'.attempts
  <1>0. req \in ReqRec /\ got \in GotRec /\ got.yeses \in Nat /\ MAX_ATTEMPTS \in Nat \ {0}
    BY DeskAt, HeldAssumption DEF GotRec
  <1>1. CASE UNCHANGED <<req, got>>
    BY <1>0, <1>1 DEF Ready, Tried, Works
  <1>2. CASE decide_tx(i, d) /\ ~UNCHANGED <<req, got>>
    <2>1. /\ req' \in ReqRec /\ got' \in GotRec
          /\ got'.effects = got.effects /\ got'.key = got.key
          /\ req.state \in {"held", "unsent", "unknown"}
          /\ \/ /\ req'.state = "approved" /\ req'.attempts = 0
                /\ got'.yeses = got.yeses + 1 /\ got'.marks = 0
             \/ req'.state \in {"declined", "done"} /\ UNCHANGED got
      BY <1>0, <1>2, DecideIs
    <2>2. (\A p \in Pods : Works(p)) => \A p \in Pods : pods[p].pc # "settle"
      BY <2>1 DEF Works
    <2>3. Tried => Tried'
      BY <1>0, <2>1 DEF Tried
    <2>4. Ready = 0 /\ Ready' <= got'.yeses - got.yeses /\ got'.yeses >= got.yeses
      BY <1>0, <2>1 DEF Ready
    <2>5. Ready' \in Nat /\ got'.yeses \in Nat
      BY <2>1 DEF Ready, GotRec
    <2> QED  BY <1>0, <2>1, <2>2, <2>3, <2>4, <2>5
  <1> QED  BY <1>1, <1>2

LEMMA AnswerDesk ==
  ASSUME Inv, NEW a \in answering, NEW y \in BOOLEAN, Answer(a, y)  PROVE Inv'
  <1>0. /\ TypeOK /\ req \in ReqRec /\ got \in GotRec /\ items \in Seq(ItemRec)
        /\ answering \subseteq [item : DOMAIN items, holds : BOOLEAN, resend : BOOLEAN]
        /\ holds \subseteq Relays /\ relays \in [Relays -> RelayRec]
        /\ turn \in [queued : BOOLEAN, parked : BOOLEAN, lease : Pods \cup {None}]
        /\ RelayInv /\ FollowsUp /\ HoldAsked
    BY DeskAt
  <1>1. UNCHANGED <<kind, relays, pods, record, faults>> /\ answering' \subseteq answering
    BY DEF Answer
  <1>2. Faulted /\ RelayInv'
    BY <1>0, <1>1, Unfaulted DEF RelayInv
  <1>3. Never("crash")' => Never("crash")
    BY <1>1 DEF Never
  <1>4. a.item \in DOMAIN items /\ a.item \in Nat
    BY <1>0
  <1>5. CASE ~Open(a.item)
    <2>1. UNCHANGED <<items, holds, turn, req, got>>
      BY <1>5 DEF Answer
    <2>2. FollowsUp' /\ HoldAsked'
      BY <1>0, <1>1, <1>3, <2>1 DEF FollowsUp, HoldAsked, Open
    <2>3. answering' \subseteq [item : DOMAIN items', holds : BOOLEAN, resend : BOOLEAN]
      BY <1>0, <1>1, <2>1
    <2> QED  BY <1>0, <1>1, <1>2, <2>1, <2>2, <2>3, DeskQuiet
  <1>6. CASE Open(a.item)
    <2>1. /\ items' = [items EXCEPT ![a.item].state = "settled"]
          /\ holds' = holds \ {items[a.item].hold}
      BY <1>6 DEF Answer
    <2>2. /\ items' \in Seq(ItemRec) /\ DOMAIN items' = DOMAIN items
          /\ items'[a.item].hold = items[a.item].hold
          /\ items'[a.item].followup = items[a.item].followup
          /\ \A j \in DOMAIN items : j # a.item => items'[j] = items[j]
      BY <1>0, <1>4, <2>1, OneItemSettled
    <2>3. FollowsUp'
      BY <1>0, <2>2 DEF FollowsUp
    <2>4. HoldAsked'
      <3> SUFFICES ASSUME Never("crash")', NEW r \in holds'
                   PROVE  \/ \E i \in DOMAIN items' : Open(i)' /\ items'[i].hold = r
                          \/ relays'[r].pc \in {"targets", "raise"}
        BY DEF HoldAsked
      <3>1. \/ \E i \in DOMAIN items : Open(i) /\ items[i].hold = r
            \/ relays[r].pc \in {"targets", "raise"}
        BY <1>0, <1>3, <2>1 DEF HoldAsked
      <3>2. r # items[a.item].hold
        BY <2>1
      <3> QED  BY <1>1, <2>2, <3>1, <3>2 DEF Open
    <2>5. /\ turn' \in [queued : BOOLEAN, parked : BOOLEAN, lease : Pods \cup {None}]
          /\ turn'.lease = turn.lease
      <3>1. turn' = turn \/ turn' = [turn EXCEPT !.parked = FALSE, !.queued = TRUE]
        BY <1>6 DEF Answer
      <3> QED  BY <1>0, <3>1
    <2>6. \E d \in Decisions : decide_tx(a.item, d) \/ UNCHANGED <<req, got>>
      BY <1>6 DEF Answer, Decisions
    <2>7. PICK d \in Decisions : decide_tx(a.item, d) \/ UNCHANGED <<req, got>>
      BY <2>6
    <2>8. /\ req' \in ReqRec /\ got' \in GotRec
          /\ got'.effects = got.effects /\ got'.key = got.key /\ got'.yeses >= got.yeses
          /\ got.yeses + Ready' <= got'.yeses + Ready
          /\ req'.state \in {"approved", "sending"} =>
                 req.state \in {"approved", "sending"} \/ got'.yeses > 0
          /\ Tried /\ (\A p \in Pods : Works(p)) =>
                 /\ Tried'
                 /\ \A p \in Pods : pods[p].pc = "settle" =>
                      req'.state \in {"approved", "sending"} /\ pods[p].saw = req'.attempts
      BY <1>4, <2>7, DecideDesk
    <2>9. /\ answering' \subseteq [item : DOMAIN items', holds : BOOLEAN, resend : BOOLEAN]
          /\ holds' \subseteq Relays
      BY <1>0, <1>1, <2>1, <2>2
    <2> QED  BY <1>0, <1>1, <1>2, <2>2, <2>3, <2>4, <2>5, <2>8, <2>9, DeskFrame
  <1> QED  BY <1>5, <1>6

LEMMA FollowupDesk ==
  ASSUME Inv, NEW i \in DOMAIN items, NEW d \in {"resend", "done"}, settle_followup(i, d)
  PROVE  Inv'
  <1>0. /\ TypeOK /\ req \in ReqRec /\ got \in GotRec /\ items \in Seq(ItemRec)
        /\ answering \subseteq [item : DOMAIN items, holds : BOOLEAN, resend : BOOLEAN]
        /\ holds \subseteq Relays /\ relays \in [Relays -> RelayRec]
        /\ turn \in [queued : BOOLEAN, parked : BOOLEAN, lease : Pods \cup {None}]
        /\ RelayInv /\ FollowsUp /\ HoldAsked
    BY DeskAt
  <1>1. UNCHANGED <<kind, holds, relays, turn, pods, record>>
    BY DEF settle_followup
  <1>2. Faulted
    <2>1. UNCHANGED faults \/ Spend("resend")
      BY DEF settle_followup, Spend
    <2> QED  BY <1>0, <2>1, Unfaulted, SpendIs DEF Faulted, FaultKinds
  <1>3. (Never("crash")' => Never("crash")) /\ RelayInv'
    BY <1>0, <1>1, <1>2 DEF Faulted, FaultKinds, RelayInv
  <1>4. items' = [items EXCEPT ![i].state = "settled"] /\ items[i].followup /\ i \in Nat
    BY <1>0 DEF settle_followup
  <1>5. /\ items' \in Seq(ItemRec) /\ DOMAIN items' = DOMAIN items
        /\ items'[i].hold = items[i].hold /\ items'[i].followup = items[i].followup
        /\ \A j \in DOMAIN items : j # i => items'[j] = items[j]
    BY <1>0, <1>4, OneItemSettled
  <1>6. FollowsUp'
    BY <1>0, <1>5 DEF FollowsUp
  <1>7. HoldAsked'
    <2> SUFFICES ASSUME Never("crash")', NEW r \in holds
                 PROVE  \/ \E j \in DOMAIN items' : Open(j)' /\ items'[j].hold = r
                        \/ relays'[r].pc \in {"targets", "raise"}
      BY <1>1 DEF HoldAsked
    <2>1. \/ \E j \in DOMAIN items : Open(j) /\ items[j].hold = r
          \/ relays[r].pc \in {"targets", "raise"}
      BY <1>0, <1>3 DEF HoldAsked
    <2>2. items[i].hold # r
      BY <1>0, <1>4, HeldAssumption DEF FollowsUp
    <2> QED  BY <1>1, <1>5, <2>1, <2>2 DEF Open
  <1>8. answering' \subseteq [item : DOMAIN items', holds : BOOLEAN, resend : BOOLEAN]
    <2>1. answering' \subseteq answering \cup {[item |-> i, holds |-> TRUE, resend |-> TRUE]}
      BY DEF settle_followup
    <2>2. [item |-> i, holds |-> TRUE, resend |-> TRUE] \in
              [item : DOMAIN items', holds : BOOLEAN, resend : BOOLEAN]
      BY <1>5
    <2>3. answering \subseteq [item : DOMAIN items', holds : BOOLEAN, resend : BOOLEAN]
      BY <1>0, <1>5
    <2> QED  BY <2>1, <2>2, <2>3
  <1>9. /\ req' \in ReqRec /\ got' \in GotRec
        /\ got'.effects = got.effects /\ got'.key = got.key /\ got'.yeses >= got.yeses
        /\ got.yeses + Ready' <= got'.yeses + Ready
        /\ req'.state \in {"approved", "sending"} =>
               req.state \in {"approved", "sending"} \/ got'.yeses > 0
        /\ Tried /\ (\A p \in Pods : Works(p)) =>
               /\ Tried'
               /\ \A p \in Pods : pods[p].pc = "settle" =>
                    req'.state \in {"approved", "sending"} /\ pods[p].saw = req'.attempts
    <2>1. decide_tx(i, d) /\ d \in Decisions
      BY DEF settle_followup, Decisions
    <2> QED  BY <1>4, <2>1, DecideDesk
  <1> QED  BY <1>0, <1>1, <1>2, <1>3, <1>5, <1>6, <1>7, <1>8, <1>9, DeskFrame

\* Questions read, turns started and queued, leases that lapse and records
\* that expire change nothing of the request.
LEMMA QuietDesk ==
  ASSUME Inv,
         \/ \E i \in DOMAIN items : ReadAnswer(i)
         \/ \E a \in answering : resend_now(a)
         \/ NewMessage \/ Lapse
  PROVE  Inv'
  <1>0. /\ TypeOK /\ req \in ReqRec /\ got \in GotRec /\ items \in Seq(ItemRec)
        /\ answering \subseteq [item : DOMAIN items, holds : BOOLEAN, resend : BOOLEAN]
        /\ holds \subseteq Relays /\ relays \in [Relays -> RelayRec]
        /\ turn \in [queued : BOOLEAN, parked : BOOLEAN, lease : Pods \cup {None}]
        /\ RelayInv /\ FollowsUp /\ HoldAsked
    BY DeskAt
  <1>1. UNCHANGED <<kind, req, items, holds, relays, pods, record, got>>
    BY DEF ReadAnswer, resend_now, NewMessage, Lapse
  <1>2. Faulted
    <2>1. UNCHANGED faults \/ \E f \in FaultKinds : Spend(f)
      BY DEF ReadAnswer, resend_now, NewMessage, Lapse, FaultKinds
    <2> QED  BY <1>0, <2>1, Unfaulted, SpendIs DEF Faulted
  <1>3. RelayInv' /\ FollowsUp' /\ HoldAsked'
    <2>1. Never("crash")' => Never("crash")
      BY <1>2 DEF Faulted, FaultKinds
    <2> QED  BY <1>0, <1>1, <2>1 DEF RelayInv, FollowsUp, HoldAsked, Open
  <1>4. answering' \subseteq [item : DOMAIN items', holds : BOOLEAN, resend : BOOLEAN]
    <2>1. CASE \E i \in DOMAIN items : ReadAnswer(i)
      <3>1. PICK i \in DOMAIN items :
               answering' = answering \cup {[item |-> i, holds |-> req.item = i, resend |-> FALSE]}
        BY <2>1 DEF ReadAnswer
      <3>2. (req.item = i) \in BOOLEAN
        OBVIOUS
      <3>3. [item |-> i, holds |-> req.item = i, resend |-> FALSE] \in
                [item : DOMAIN items, holds : BOOLEAN, resend : BOOLEAN]
        BY <3>2
      <3> QED  BY <1>0, <1>1, <3>1, <3>3
    <2>2. CASE ~\E i \in DOMAIN items : ReadAnswer(i)
      <3>1. answering' \subseteq answering
        BY <2>2 DEF resend_now, NewMessage, Lapse
      <3> QED  BY <1>0, <1>1, <3>1
    <2> QED  BY <2>1, <2>2
  <1>5. /\ turn' \in [queued : BOOLEAN, parked : BOOLEAN, lease : Pods \cup {None}]
        /\ turn'.lease = turn.lease \/ ~Never("lapse")'
    <2>1. CASE Lapse
      <3>1. turn' = [turn EXCEPT !.lease = None, !.queued = TRUE]
        BY <2>1 DEF Lapse
      <3>2. ~Never("lapse")'
        BY <1>0, <2>1, SpendIs DEF Lapse, FaultKinds
      <3> QED  BY <1>0, <3>1, <3>2
    <2>2. CASE ~Lapse
      <3>1. turn' = turn \/ \E b \in BOOLEAN : turn' = [turn EXCEPT !.queued = b]
        <4>1. CASE NewMessage \/ \E i \in DOMAIN items : ReadAnswer(i)
          BY <4>1 DEF NewMessage, ReadAnswer
        <4>2. CASE \E a \in answering : resend_now(a)
          <5>1. PICK a \in answering : resend_now(a)
            BY <4>2
          <5>2. (turn.queued \/ (req.item = a.item /\ req.state = "approved")) \in BOOLEAN
            OBVIOUS
          <5> QED  BY <5>1, <5>2 DEF resend_now
        <4> QED  BY <2>2, <4>1, <4>2
      <3> QED  BY <1>0, <3>1
    <2> QED  BY <2>1, <2>2
  <1>6. holds' \subseteq Relays /\ relays' \in [Relays -> RelayRec] /\ items' \in Seq(ItemRec)
    BY <1>0, <1>1
  <1> QED  BY <1>1, <1>2, <1>3, <1>4, <1>5, <1>6, DeskQuiet

\* The skill is edited, or a record forgotten: what was counted on it is no
\* longer claimed, and the rest does not read it.
LEMMA FaultStep ==
  ASSUME Inv, EditSkill \/ forget_expired  PROVE Inv'
  <1>0. /\ TypeOK /\ EffectInv /\ RelayInv /\ TryInv /\ FollowsUp /\ HoldAsked
    BY DEF Inv
  <1>1. UNCHANGED <<req, items, answering, holds, relays, turn, pods, got>>
    BY DEF EditSkill, forget_expired
  <1>2. Faulted
    <2>1. \E f \in FaultKinds : Spend(f)
      BY DEF EditSkill, forget_expired, FaultKinds
    <2> QED  BY <1>0, <2>1, SpendIs DEF Faulted
  <1>3. TypeOK'
    <2>1. kind' \in {"key", "record", "plain"} /\ record' \in {"none", "attempted", "completed"}
      BY <1>0 DEF EditSkill, forget_expired, TypeOK
    <2> QED  BY <1>0, <1>1, <1>2, <2>1 DEF TypeOK, Faulted
  <1>4. RelayInv' /\ FollowsUp'
    BY <1>0, <1>1 DEF RelayInv, FollowsUp
  <1>5. HoldAsked' /\ TryInv'
    <2>1. (Never("crash")' => Never("crash")) /\ (Never("lapse")' => Never("lapse"))
      BY <1>2 DEF Faulted, FaultKinds
    <2> QED  BY <1>0, <1>1, <2>1 DEF HoldAsked, TryInv, Open, Works, Tried
  <1>6. EffectInv'
    <2>1. CASE EditSkill
      <3>1. ~Never("edit")'
        BY <1>0, <2>1, SpendIs DEF EditSkill, FaultKinds
      <3> QED  BY <3>1 DEF EffectInv
    <2>2. CASE forget_expired
      <3>1. UNCHANGED kind /\ (Never("edit")' => Never("edit"))
        BY <1>2, <2>2 DEF forget_expired, Faulted, FaultKinds
      <3>2. Owing' = Owing /\ Ready' = Ready
        BY <1>1 DEF Owing, Owes, Ready
      <3> QED  BY <1>0, <1>1, <3>1, <3>2 DEF EffectInv, SendsAs, Counted, Allowed
    <2> QED  BY <2>1, <2>2
  <1> QED  BY <1>3, <1>4, <1>5, <1>6 DEF Inv

-----------------------------------------------------------------------------
(* The theorems                                                            *)

\* The inductive invariant holds in every reachable state.
THEOREM Invariance == Spec => []Inv
  <1>1. Init => Inv
    <2> SUFFICES ASSUME Init  PROVE Inv
      OBVIOUS
    <2>1. <<>> \in Seq(ItemRec) /\ DOMAIN <<>> = {}
      OBVIOUS
    <2>2. pods \in [Pods -> PodRec] /\ \A p \in Pods : pods[p].pc = "idle"
      BY IdleTyped DEF Init, Idle
    <2>3. TypeOK
      <3>1. faults \in [FaultKinds -> Nat] /\ \A f \in FaultKinds : faults[f] <= Budget[f]
        BY HeldAssumption DEF Init
      <3>2. relays \in [Relays -> RelayRec]
        BY DEF Init, RelayRec
      <3>3. req \in ReqRec /\ got \in GotRec /\ turn \in [queued : BOOLEAN, parked : BOOLEAN, lease : Pods \cup {None}]
        BY DEF Init, ReqRec, ReqStates, GotRec
      <3> QED  BY <2>1, <2>2, <3>1, <3>2, <3>3, HeldAssumption
               DEF Init, TypeOK, PodRec, RelayRec, ReqRec, GotRec, ItemRec
    <2>4. Owing = {} /\ Cardinality(Owing) = 0
      BY <2>2, FS_EmptySet DEF Owing, Owes
    <2>5. Counted /\ Allowed
      BY <2>2, <2>4 DEF Init, Counted, Allowed, Ready
    <2>6. \A p \in Pods : SendsAs(p) /\ Works(p)
      BY <2>2 DEF SendsAs, Works
    <2>7. Tried /\ RelayInv /\ FollowsUp /\ HoldAsked
      BY <2>1, HeldAssumption DEF Init, Tried, RelayInv, FollowsUp, HoldAsked
    <2> QED  BY <2>3, <2>5, <2>6, <2>7 DEF Inv, EffectInv, TryInv
  <1>2. Inv /\ [Next]_vars => Inv'
    <2> SUFFICES ASSUME Inv, [Next]_vars  PROVE Inv'
      OBVIOUS
    <2>1. CASE UNCHANGED vars
      BY <2>1 DEF vars, Inv, TypeOK, EffectInv, SendsAs, Counted, Allowed, Owing, Owes, Ready,
                  RelayInv, TryInv, Works, Tried, FollowsUp, HoldAsked, Open, Never
    <2>2. CASE RelayStep
      BY <2>2, RelayDesk DEF RelayStep
    <2>3. CASE Person
      BY <2>3, AnswerDesk, FollowupDesk, QuietDesk DEF Person
    <2>4. CASE NewMessage \/ Faults
      BY <2>4, QuietDesk, FaultStep, TurnPod DEF Faults
    <2>5. ASSUME NEW p \in Pods, PodStep(p)  PROVE Inv'
      BY <2>5, TurnPod, PreparePod, MarkPod, ClaimPod, DispatchPod, ReportPod, SettlePod, AskPod
      DEF PodStep
    <2> QED  BY <2>1, <2>2, <2>3, <2>4, <2>5 DEF Next
  <1> QED  BY <1>1, <1>2, PTL DEF Spec

\* For any number of runtimes, relays, faults and resends: a held request has
\* its effect at most as often as somebody said yes to it while its skill is not
\* edited, is marked at most MAX_ATTEMPTS times for one yes while no lease
\* lapses, and suspends its conversation only while somebody is asked while no
\* pod is lost.
THEOREM Held == Spec => []HeldSound
  <1>1. Inv => HeldSound
    <2> SUFFICES ASSUME Inv  PROVE HeldSound
      OBVIOUS
    <2>1. EffectsWithinYeses
      <3> SUFFICES ASSUME Never("edit")  PROVE got.effects <= got.yeses
        BY DEF EffectsWithinYeses
      <3>1. Counted /\ Allowed /\ got.effects \in Nat /\ got.yeses \in Nat
        BY DEF Inv, EffectInv, TypeOK
      <3>2. Cardinality(Owing) \in Nat /\ Ready \in Nat
        BY OwingFinite DEF Inv, Ready
      <3> QED  BY <3>1, <3>2 DEF Counted, Allowed
    <2> QED  BY <2>1 DEF Inv, HeldSound, TriesBounded, TryInv, Tried
  <1> QED  BY <1>1, Invariance, PTL

\* What a person or a recipient answered is not undone by any late report,
\* stale recover or second decision, for any number of them.
THEOREM Final == Spec => AnswerFinal
  <1>1. Inv /\ [Next]_vars =>
          [req.state \in {"spent", "declined", "done"} /\ req'.state # req.state
             => \E r \in Relays : relays[r].pc = "keep"]_vars
    <2> SUFFICES ASSUME Inv, Next, req.state \in {"spent", "declined", "done"},
                        req'.state # req.state
                 PROVE  \E r \in Relays : relays[r].pc = "keep"
      OBVIOUS
    <2>0. req \in ReqRec /\ got \in GotRec /\ items \in Seq(ItemRec)
          /\ answering \subseteq [item : DOMAIN items, holds : BOOLEAN, resend : BOOLEAN]
      BY DeskAt
    <2>1. CASE RelayStep
      BY <2>1 DEF RelayStep, Relay, TakeHold, Targets, RaiseItem, Keep
    <2>2. \A i \in Nat, d \in Decisions : decide_tx(i, d) => UNCHANGED req
      BY <2>0, DecideIs
    <2>3. CASE Person
      <3>1. \A a \in answering, y \in BOOLEAN : Answer(a, y) => UNCHANGED req
        <4> SUFFICES ASSUME NEW a \in answering, NEW y \in BOOLEAN, Answer(a, y)
                     PROVE  UNCHANGED req
          OBVIOUS
        <4>1. a.item \in Nat
          BY <2>0
        <4>2. \/ UNCHANGED req \/ \E d \in Decisions : decide_tx(a.item, d)
          BY DEF Answer, Decisions
        <4> QED  BY <2>2, <4>1, <4>2
      <3>2. \A i \in DOMAIN items, d \in {"resend", "done"} :
               settle_followup(i, d) => UNCHANGED req
        <4> SUFFICES ASSUME NEW i \in DOMAIN items, NEW d \in {"resend", "done"},
                            settle_followup(i, d)
                     PROVE  UNCHANGED req
          OBVIOUS
        <4>1. i \in Nat /\ d \in Decisions /\ decide_tx(i, d)
          BY <2>0 DEF settle_followup, Decisions
        <4> QED  BY <2>2, <4>1
      <3> QED  BY <2>3, <3>1, <3>2 DEF Person, ReadAnswer, resend_now
    <2>4. CASE NewMessage \/ Faults
      BY <2>4 DEF NewMessage, Faults, Lapse, EditSkill, forget_expired, Crash
    <2>5. ASSUME NEW p \in Pods, PodStep(p)  PROVE req'.state = req.state
      <3>1. CASE MoveItem(p)
        BY <2>0, <3>1 DEF MoveItem, ReqRec
      <3>2. CASE ~MoveItem(p)
        BY <2>5, <3>2 DEF PodStep, Take, Prepare, begin_held, sending, claim_in, dispatch, report,
                          settle, AskAgain, Finish
      <3> QED  BY <3>1, <3>2
    <2> QED  BY <2>1, <2>3, <2>4, <2>5 DEF Next
  <1> QED  BY <1>1, Invariance, PTL DEF Spec, AnswerFinal
=============================================================================
