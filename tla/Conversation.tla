---------------------------- MODULE Conversation ----------------------------
(***************************************************************************)
(* What a turn is told of its conversation: the transcript is read back    *)
(* from the newest summary on (chat/postgres.rs), rebuilt as the entries a *)
(* model is sent (worker/projection.rs), compacted by a summary where it   *)
(* does not fit (worker/compaction.rs, chat/summarize.rs) and trimmed      *)
(* (chat/trim.rs).  One conversation: people send messages, a worker       *)
(* prepares and runs their turns one at a time, a turn asks for an         *)
(* approval and is resumed by the answer, crashes and is retried, and a    *)
(* compaction is asked for beside them.                                    *)
(*                                                                         *)
(* A message's id is its place in `rows`, which is the order ids are       *)
(* minted in.  What was said is abstracted to parts: "say" is text, "call" *)
(* a tool call that was answered, and "ask" a call a gate refused.  Every  *)
(* "ask" is the same call, the case `answered` has to tell apart.  `read`  *)
(* is what a summary was written from.                                     *)
(***************************************************************************)
EXTENDS Integers, Sequences, FiniteSets, SequencesExt

CONSTANTS
    Shapes,    \* what a reply may consist of: sequences of parts
    Kept,      \* TAIL_MESSAGES: how many entries a cut leaves, so that it falls before `marked`'s
    Room,      \* what the conversation may cost
    MaxRows, MaxHeld,
    BootRows, BootHeld,  \* the conversation as it stands
    Budget     \* how often each of crash, stop, compact and lose may happen

ConversationAssumption ==
    /\ Shapes \subseteq Seq({"say", "call", "ask"})
    /\ Kept \in Nat \ {0, 1} /\ Room \in Nat /\ MaxRows \in Nat /\ MaxHeld \in Nat
    /\ Budget \in [{"crash", "stop", "compact", "lose"} -> Nat]

VARIABLES rows,      \* agent_messages, in the order of their ids
          queue,     \* the prompts whose turns are to run
          parked,    \* the prompts whose turns wait for an approval
          settledFor,\* the prompts whose turns somebody gave back by answering
          held,      \* held_requests, oldest first
          stopped,   \* the session's stop latch
          wanted,    \* whether a compaction is queued
          turn,      \* the job the session's serial key is held by
          left       \* what remains of Budget

vars == <<rows, queue, parked, settledFor, held, stopped, wanted, turn, left>>

Row(kind, to, parts) ==
    [kind |-> kind, to |-> to, through |-> 0, parts |-> parts, cut |-> FALSE,
     done |-> kind # "reply", read |-> {}]

Idle == [pc |-> "idle", prompt |-> 0, reply |-> 0, restarting |-> FALSE, seen |-> <<>>,
         noted |-> {}, conv |-> <<>>, sources |-> <<>>, through |-> 0, stored |-> 0]

Init ==
    /\ rows = BootRows /\ held = BootHeld
    /\ queue = {} /\ settledFor = {}
    /\ parked = {BootHeld[k].prompt : k \in {k \in DOMAIN BootHeld : BootHeld[k].state = "held"}}
    /\ stopped = FALSE /\ wanted = FALSE /\ turn = Idle /\ left = Budget

(* ------------------------- reading the transcript ------------------------ *)

Summaries == {i \in DOMAIN rows : rows[i].kind = "summary"}

\* From the newest summary whose mark reads: it, and what follows what it covers.
turn_history ==
    IF Summaries = {} THEN DOMAIN rows
    ELSE LET s == Max(Summaries) IN {s} \cup {i \in DOMAIN rows : i > rows[s].through}

\* Nothing after the prompt but what its own turn produced and the records of approvals.
up_to(S, p) ==
    {i \in S : \/ i <= p
               \/ rows[i].kind = "reply" /\ rows[i].to = p
               \/ rows[i].kind = "approval"}

(* ----------------------------- the projection ---------------------------- *)

\* A set of ids, in their order.
Ordered(S) == SelectSeq([i \in 1..Max(S \cup {0}) |-> i], LAMBDA i : i \in S)

\* One entry as the model is sent it: `of` are the parts it carries, or the call it answers.
Entry(role, row, says, of) ==
    [role |-> role, row |-> row, says |-> says, of |-> of, held |-> 0, read |-> {}]

IsCall(part) == part # "say"

\* Text that follows a call closes the entry, so that results come between the two.
Rounds(i, parts) ==
    LET starts == {k \in DOMAIN parts : k = 1 \/ (~IsCall(parts[k]) /\ IsCall(parts[k - 1]))}
        round(a) == {k \in DOMAIN parts : k >= a /\ \A b \in starts : b > a => k < b}
        result(k) == Entry("tool", i, IF parts[k] = "ask" THEN "refused" ELSE "result", {k})
        calls(a) == Ordered({k \in round(a) : IsCall(parts[k])})
        flush(a) == <<Entry("assistant", i, "words", round(a))>>
                    \o [n \in DOMAIN calls(a) |-> result(calls(a)[n])]
    IN FlattenSeq([n \in 1..Cardinality(starts) |-> flush(Ordered(starts)[n])])

note_if_cut_off(i, r) == IF r.cut THEN <<Entry("user", i, "cutoff", {})>> ELSE <<>>

\* What a stored message is sent as: its calls, their results, then what was said once answered.
Entries(i, r) ==
    LET role == IF r.kind \in {"user", "approval"} THEN "user" ELSE "assistant"
        said == [Entry(role, i, IF r.kind = "summary" THEN "summary" ELSE "words", DOMAIN r.parts)
                 EXCEPT !.read = r.read]
    IN (IF \E k \in DOMAIN r.parts : IsCall(r.parts[k]) THEN Rounds(i, r.parts) ELSE <<said>>)
       \o note_if_cut_off(i, r)

\* The newest summary in front, and what follows what it covers in the order it was said.
projected_with_sources(seen) ==
    LET marks == {i \in DOMAIN seen : seen[i].kind = "summary"}
        s == Max(marks)
        tail == IF marks = {} THEN DOMAIN seen
                ELSE {i \in DOMAIN seen \ {s} : i > seen[s].through}
        order == (IF marks = {} THEN <<>> ELSE <<s>>) \o Ordered(tail)
    IN FlattenSeq([n \in DOMAIN order |-> Entries(order[n], seen[order[n]])])

\* The refusal each answered request stands in the place of: the latest one written before it
\* was held that no older request has; 0 where there is none.
Answering(c) ==
    LET free(f, k) == {i \in DOMAIN c : /\ c[i].says = "refused" /\ c[i].row <= held[k].after
                                       /\ \A m \in 1..(k - 1) : f[m] # i}
        asks(k) == held[k].state \in {"approved", "settled"}
        f[k \in 0..Len(held)] ==
            IF k = 0 THEN [m \in DOMAIN held |-> 0]
            ELSE IF asks(k) /\ free(f[k - 1], k) # {}
                 THEN [f[k - 1] EXCEPT ![k] = Max(free(f[k - 1], k))] ELSE f[k - 1]
    IN f[Len(held)]

\* Where an outcome with no refusal to stand in is told: before the first entry of a person or
\* the platform written after it was settled, or before the prompt, or at the end.
NoteAt(c, k) ==
    LET later == {i \in DOMAIN c : c[i].role = "user" /\ c[i].row > held[k].settled}
    IN IF later # {} THEN Min(later)
       ELSE IF c # <<>> /\ c[Len(c)].role = "user" THEN Len(c) ELSE Len(c) + 1

\* Puts what became of each settled request where its refusal was, or in a note.
answered(c) ==
    LET at == Answering(c)
        by(i) == {k \in DOMAIN held : at[k] = i /\ held[k].state = "settled"}
        told == [i \in DOMAIN c |->
                    IF by(i) = {} THEN c[i] ELSE [c[i] EXCEPT !.says = "told", !.held = Max(by(i))]]
        rest == {k \in DOMAIN held : held[k].state = "settled" /\ at[k] = 0}
        source(d, n) == d[IF n <= Len(d) THEN n ELSE Len(d)].row
        \* From the newest, each at the place it had in what was told, with the source found there.
        put(d, k) == LET here == NoteAt(told, k)
                     IN InsertAt(d, here, [Entry("user", source(d, here), "note", {}) EXCEPT !.held = k])
    IN FoldLeft(put, told, Reverse(Ordered(rest)))

\* A turn picking up from a stop is told so, before what it explains.
marked(c, restarting) ==
    IF restarting THEN InsertAt(c, Len(c), Entry("user", 0, "restart", {})) ELSE c

(* -------------------------- summaries and trims -------------------------- *)

\* Bytes, coarsely: what a tool returned is the bulk, and a stub is smaller than it.
Bulky(e) == e.says \in {"result", "told"}
total_cost(c) == Len(c) + Cardinality({i \in DOMAIN c : Bulky(c[i])})

\* Mutant: the tail may begin with what answered a call that is summarized away.
boundaryBare(c) == IF Len(c) > Kept + 1 THEN Len(c) - Kept ELSE 0

\* How many entries a summary replaces: all but the tail, and the results it would strand;
\* 0 where there is nothing worth summarizing.
boundary(c) ==
    LET cuts == {n \in (Len(c) - Kept)..(Len(c) - 1) : c[n + 1].role # "tool"}
    IN IF Len(c) > Kept + 1 /\ cuts # {} THEN Min(cuts) ELSE 0

\* The parts of messages the first n entries of c carry, and what summaries among them read.
Said(c, n) ==
    UNION {c[m].read \cup {<<c[m].row, k>> : k \in c[m].of} :
              m \in {m \in 1..n : c[m].role # "tool"}}

apply(c, n) ==
    <<[Entry("assistant", 0, "summary", {}) EXCEPT !.read = Said(c, n)]>>
    \o SubSeq(c, n + 1, Len(c))

\* Results are stubbed, oldest first, and then whole entries go, each with what answers it.
to_fit(c) ==
    LET over == total_cost(c) - Room
        results == {i \in 1..(Len(c) - 1) : Bulky(c[i])}
        oldest == {i \in results : Cardinality({j \in results : j < i}) < over}
        stubbed == [i \in DOMAIN c |-> IF i \in oldest THEN [c[i] EXCEPT !.says = "stub"] ELSE c[i]]
        drops == {n \in 0..Len(c) : n \in {0, Len(c)} \/ c[n + 1].role # "tool"}
        left_by(n) == SubSeq(stubbed, n + 1, Len(c))
    IN IF over <= 0 \/ c = <<>> THEN c
       ELSE left_by(Min({n \in drops : Len(c) - n <= 1 \/ total_cost(left_by(n)) <= Room}))

(* ------------------------------- the people ------------------------------ *)

Minted(r) == Len(rows) < MaxRows /\ rows' = Append(rows, r)

Spend(f) == left[f] > 0 /\ left' = [left EXCEPT ![f] = @ - 1]

\* A person sends a message, and its turn is queued.
Send ==
    /\ Minted(Row("user", 0, <<"say">>))
    /\ queue' = queue \cup {Len(rows')}
    /\ UNCHANGED <<parked, settledFor, held, stopped, wanted, turn, left>>

\* Somebody answers a held request: recorded in the conversation, and its turn is given back.
Answer(k, as) ==
    /\ held[k].state = "held"
    /\ Minted(Row("approval", 0, <<"say">>))
    /\ held' = [held EXCEPT ![k].state = as]
    /\ settledFor' = settledFor \cup {held[k].prompt}
    /\ queue' = queue \cup (parked \cap {held[k].prompt})
    /\ parked' = parked \ {held[k].prompt}
    /\ UNCHANGED <<stopped, wanted, turn, left>>

\* A hold stops a conversation in which nothing is to run; a person's next turn restarts it.
Stop ==
    /\ ~stopped /\ queue = {} /\ turn = Idle /\ Spend("stop")
    /\ stopped' = TRUE
    /\ UNCHANGED <<rows, queue, parked, settledFor, held, wanted, turn>>

\* Somebody asks for a compaction, whatever the budget.
request ==
    /\ ~wanted /\ Spend("compact")
    /\ wanted' = TRUE
    /\ UNCHANGED <<rows, queue, parked, settledFor, held, stopped, turn>>

(* --------------------------- preparing a turn ---------------------------- *)

\* The transcript is read, for a prompt whose turn the queue hands out (a turn put back or given
\* back lets later ones by), before its reply is claimed; a latch lifts here.
ReadTranscript(p) ==
    /\ turn = Idle /\ p \in queue
    /\ LET S == up_to(IF p \in turn_history THEN turn_history ELSE DOMAIN rows, p)
       IN turn' = [Idle EXCEPT !.pc = "read", !.prompt = p, !.seen = [i \in S |-> rows[i]],
                               !.restarting = stopped]
    /\ queue' = queue \ {p}
    /\ stopped' = FALSE
    /\ UNCHANGED <<rows, parked, settledFor, held, wanted, left>>

\* The attempt a turn writes, and the rows with it: an attempt nobody saw anything of is taken
\* back, one that was cut off is sealed, and a turn somebody answered for writes the next one.
attempt_for(p) ==
    LET mine == {i \in DOMAIN rows : rows[i].kind = "reply" /\ rows[i].to = p}
        a == Max(mine)
        next(R) == [rows |-> Append(R, Row("reply", p, <<>>)), reply |-> Len(R) + 1]
    IN IF mine = {} \/ (rows[a].done /\ p \in settledFor) THEN next(rows)
       ELSE IF rows[a].parts = <<>> THEN [rows |-> rows, reply |-> a]
       ELSE next([rows EXCEPT ![a].cut = @ \/ ~rows[a].done, ![a].done = TRUE])

\* The attempt is claimed, and what was read becomes what the model would be sent.
Claim ==
    /\ turn.pc = "read" /\ turn.prompt # 0
    /\ LET a == attempt_for(turn.prompt)
           c == answered(projected_with_sources(turn.seen))
       IN /\ Len(a.rows) <= MaxRows
          /\ rows' = a.rows
          /\ turn' = [turn EXCEPT !.pc = "shown", !.reply = a.reply, !.seen = <<>>,
                                  !.conv = marked(c, turn.restarting),
                                  !.sources = [i \in DOMAIN c |-> c[i].row],
                                  !.noted = {c[i].held : i \in {i \in DOMAIN c : c[i].says = "note"}}]
    /\ UNCHANGED <<queue, parked, settledFor, held, stopped, wanted, left>>

(* -------------------------- a compaction asked for ----------------------- *)

\* It runs under the session's serial key, on the transcript as it stands.
Compact ==
    /\ turn = Idle /\ wanted
    /\ LET c == projected_with_sources([i \in turn_history |-> rows[i]])
       IN turn' = [Idle EXCEPT !.pc = "shown", !.conv = c,
                               !.sources = [i \in DOMAIN c |-> c[i].row]]
    /\ UNCHANGED <<rows, queue, parked, settledFor, held, stopped, wanted, left>>

(* ------------------------------- compacting ------------------------------ *)

Budgeted == IF turn.prompt = 0 THEN 0 ELSE Room

Compacts == total_cost(turn.conv) > Budgeted /\ boundary(turn.conv) # 0

\* Within budget, too short, or no summary came: the trim does the work alone.
Uncompacted ==
    /\ turn.pc = "shown"
    /\ \/ ~Compacts /\ left' = left
       \/ Compacts /\ Spend("lose")
    /\ turn' = [turn EXCEPT !.pc = "ready", !.sources = <<>>]
    /\ UNCHANGED <<rows, queue, parked, settledFor, held, stopped, wanted>>

\* The message the last summarized entry came from.
covered(n) == turn.sources[n]

\* A summary came, smaller than what it replaces: it stands at the front, and is to be stored
\* against the message the last entry it covers came from.
Summarized ==
    /\ turn.pc = "shown" /\ Compacts
    /\ LET n == boundary(turn.conv) IN
       /\ total_cost(apply(turn.conv, n)) < total_cost(turn.conv)
       /\ turn' = [turn EXCEPT !.pc = "storing", !.conv = apply(turn.conv, n), !.sources = <<>>,
                               !.through = covered(n)]
    /\ UNCHANGED <<rows, queue, parked, settledFor, held, stopped, wanted, left>>

\* It is appended, as something the agent said, and then marked; a failure of either is let go.
StoreSummary ==
    /\ turn.pc = "storing"
    /\ \/ /\ Minted([Row("speech", 0, <<"say">>) EXCEPT !.read = turn.conv[1].read])
          /\ turn' = [turn EXCEPT !.pc = "marking", !.stored = Len(rows')]
          /\ left' = left
       \/ /\ Spend("lose")
          /\ rows' = rows /\ turn' = [turn EXCEPT !.pc = "ready"]
    /\ UNCHANGED <<queue, parked, settledFor, held, stopped, wanted>>

MarkSummary ==
    /\ turn.pc = "marking"
    /\ \/ /\ rows' = [rows EXCEPT ![turn.stored].kind = "summary",
                                  ![turn.stored].through = turn.through]
          /\ left' = left
       \/ rows' = rows /\ Spend("lose")
    /\ turn' = [turn EXCEPT !.pc = "ready"]
    /\ UNCHANGED <<queue, parked, settledFor, held, stopped, wanted>>

\* A compaction that was asked for ends with its summary.
Compacted ==
    /\ turn.pc = "ready" /\ turn.prompt = 0
    /\ turn' = Idle /\ wanted' = FALSE
    /\ UNCHANGED <<rows, queue, parked, settledFor, held, stopped, left>>

(* -------------------------------- running -------------------------------- *)

\* What fits is sent; approved requests go out, and are settled, before the guest runs.
Hand ==
    /\ turn.pc = "ready" /\ turn.prompt # 0
    /\ turn' = [turn EXCEPT !.pc = "running", !.conv = to_fit(turn.conv)]
    /\ held' = [k \in DOMAIN held |->
                   IF held[k].state = "approved"
                   THEN [held[k] EXCEPT !.state = "settled", !.settled = Len(rows)] ELSE held[k]]
    /\ UNCHANGED <<rows, queue, parked, settledFor, stopped, wanted, left>>

\* The reply streams; a call that is refused holds its request, one for all of a reply.
Stream(s) ==
    /\ turn.pc = "running" /\ s # <<>>
    /\ "ask" \in Range(s) => Len(held) < MaxHeld
    /\ rows' = [rows EXCEPT ![turn.reply].parts = s]
    /\ held' = IF "ask" \in Range(s)
               THEN Append(held, [prompt |-> turn.prompt, after |-> Len(rows), state |-> "held",
                                  settled |-> 0])
               ELSE held
    /\ turn' = [turn EXCEPT !.pc = "streamed", !.conv = <<>>]
    /\ UNCHANGED <<queue, parked, settledFor, stopped, wanted, left>>

\* The reply is written, and the turn is done; one that asked waits for its answer, or is given
\* back where the answer came first.
Finish ==
    /\ turn.pc = "streamed"
    /\ rows' = [rows EXCEPT ![turn.reply].done = TRUE]
    /\ LET waits == "ask" \in Range(rows[turn.reply].parts)
           open == \E k \in DOMAIN held : held[k].prompt = turn.prompt /\ held[k].state = "held"
       IN /\ parked' = IF waits /\ open THEN parked \cup {turn.prompt} ELSE parked
          /\ queue' = IF waits /\ ~open THEN queue \cup {turn.prompt} ELSE queue
    /\ turn' = Idle
    /\ UNCHANGED <<settledFor, held, stopped, wanted, left>>

\* The pod is lost: the job goes back to its queue, and what was written stays.
Crash ==
    /\ turn # Idle /\ Spend("crash")
    /\ queue' = queue \cup ({turn.prompt} \ {0})
    /\ turn' = Idle
    /\ UNCHANGED <<rows, parked, settledFor, held, stopped, wanted>>

Next ==
    \/ Send \/ Stop \/ request
    \/ \E k \in DOMAIN held, as \in {"approved", "declined"} : Answer(k, as)
    \/ (\E p \in queue : ReadTranscript(p)) \/ Claim \/ Compact
    \/ Uncompacted \/ Summarized \/ StoreSummary \/ MarkSummary \/ Compacted
    \/ Hand \/ (\E s \in Shapes : Stream(s)) \/ Finish \/ Crash

Spec == Init /\ [][Next]_vars

(* ------------------------------- properties ------------------------------ *)

Calls(e) ==
    IF e.role = "assistant" /\ e.row # 0
    THEN {k \in e.of : IsCall(rows[e.row].parts[k])} ELSE {}

\* Where the result of the call k of the entry j belongs: in the order the calls were made.
ResultOf(c, j, k) == j + Cardinality({m \in Calls(c[j]) : m <= k})

\* Every call of c is followed by its result, and every result follows its call.
Paired(c) ==
    LET answers(i, j, k) == /\ i = ResultOf(c, j, k) /\ c[i].role = "tool"
                            /\ c[i].row = c[j].row /\ c[i].of = {k}
    IN /\ \A j \in DOMAIN c : \A k \in Calls(c[j]) : \E i \in DOMAIN c : answers(i, j, k)
       /\ \A i \in DOMAIN c : c[i].role = "tool" =>
             \E j \in DOMAIN c : \E k \in Calls(c[j]) : answers(i, j, k)

\* What a turn would be sent, but for the notes of requests settled in another order than they
\* were held in.
Late(k) == \E m \in turn.noted : k < m /\ held[k].settled > held[m].settled
InOrder(c) == SelectSeq(c, LAMBDA e : e.says # "note" \/ ~Late(e.held))

\* What a model is sent has every call followed by its result and no result without its call,
\* whatever was summarized away, noted in between or trimmed: providers refuse either.  Two
\* requests told in notes that were settled in another order than they were held in are the
\* exception: the place of one is counted before the other is put in front of it, and it may
\* come between a call and its result, which the code says it never does (projection.rs:807),
\* and what is summarized away or trimmed may end there.
CallsPaired ==
    Paired(InOrder(turn.conv)) \/ (turn.pc # "shown" /\ \E k \in turn.noted : Late(k))

\* What became of a request somebody approved is told once to each later turn: in the place of
\* one refusal, or in a note where none is found.
ToldOnce ==
    turn.pc = "shown" /\ turn.prompt # 0 =>
        \A k \in DOMAIN held :
            Cardinality({i \in DOMAIN turn.conv : turn.conv[i].held = k})
                = (IF held[k].state = "settled" THEN 1 ELSE 0)

\* What is in the tail a summary left is not hidden from later turns by its mark, which hides
\* every message up to the one it is stored against (projection.rs:187).  Two things are: the
\* rest of a reply the cut fell inside of (compaction.rs:522 names the reply), and a message
\* that a note stood before, where the note was the last thing summarized, since it has that
\* message's id.
TailStands ==
    turn.pc \in {"storing", "marking"} =>
        \A i \in 2..Len(turn.conv) :
            LET r == turn.conv[i].row
            IN \/ r = 0 \/ r > turn.through
               \/ r = turn.through /\ rows[r].kind = "reply"
               \/ r = turn.through /\ \E k \in turn.noted : \A j \in DOMAIN turn.conv : turn.conv[j].held # k

ConversationSound == CallsPaired /\ ToldOnce /\ TailStands

\* What was said up to its prompt reaches a turn, word for word or through a summary that read
\* it: what a stored mark hides is what its summary was written from.
NothingDropped ==
    turn.pc = "ready" /\ turn.prompt # 0 =>
        \A i \in {i \in 1..turn.prompt : rows[i].kind # "summary"} : \A k \in DOMAIN rows[i].parts :
            <<i, k>> \in Said(turn.conv, Len(turn.conv))
=============================================================================
