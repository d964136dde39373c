------------------------------ MODULE GuestTurn ------------------------------
(***************************************************************************)
(* One turn of the default agent inside its host: the loop of              *)
(* agents/default (lib.rs, `run`), which asks the model, runs the tools it *)
(* calls and asks again; and the runtime's side of it (component/), which  *)
(* counts the model calls, streams what the model says to the reader and   *)
(* hands over what people say meanwhile.  The model, the gateway and the   *)
(* person at the keyboard choose freely.                                   *)
(***************************************************************************)
EXTENDS Integers, Sequences, FiniteSets, SequencesExt

CONSTANTS MaxRounds,  \* model calls a turn may make; 0 for no limit
          Builtin,    \* the component's own tools
          Ops,        \* the bound skills' operations, as the API sends them
          FileName,   \* [Ops -> the name each one's file goes by]
          Documented, \* names of operations some bound skill's file describes
          Eager,      \* tools offered from the first round
          Loaded,     \* names an earlier turn's load_tools calls asked for
          Replies,    \* what the model may answer: [text, calls, finish]
          Arrivals,   \* what a person says during the turn
          Budget      \* how often each thing outside may happen

LOAD_TOOLS == "load_tools"
LOOK == "describe_image"
FETCH == "fetch_url"
Absent == "none"

GuestTurnAssumption == MaxRounds \in Nat

VARIABLES pc,        \* where the loop is
          g,         \* the guest: its round, its reply, what it loaded
          messages,  \* the conversation it sends, from this turn's first message
          reply,     \* the model's reply being worked through: its calls left to run
          h,         \* the host: rounds used, flags, messages kept for the guest
          streamed,  \* what the reader was shown, in order
          waiting,   \* said, and not yet handed to the turn
          stopped,   \* somebody has pressed stop
          log,       \* what this turn did: [what, ...] facts the properties read
          left

vars == <<pc, g, messages, reply, h, streamed, waiting, stopped, log, left>>

Msg(role, calls, to, said) == [role |-> role, calls |-> calls, to |-> to, said |-> said]
Quiet == [calls |-> <<>>, finish |-> Absent]
Spend(f) == left[f] > 0 /\ left' = [left EXCEPT ![f] = @ - 1]

-----------------------------------------------------------------------------
(* Tools: which exist, which are offered, and what loading one takes.       *)

\* An operation named as one of the component's own tools is not offered.
operations == Ops \ (Builtin \cup {LOAD_TOOLS})
all_tools == Builtin \cup operations
deferred_names == all_tools \ Eager

\* A name as the model gave it: a tool's own, or that of one bound
\* operation's file and no other's.
resolve_name(n) ==
    IF n \in deferred_names THEN {n}
    ELSE LET matching == {o \in operations \cap deferred_names : FileName[o] = n}
         IN  IF Cardinality(matching) = 1 THEN matching ELSE {}

\* What the transcript's load_tools calls asked for, resolved again.
already_loaded == UNION {resolve_name(n) : n \in Loaded}

offered_tools(loaded) ==
    (Eager \cap all_tools) \cup (loaded \cap all_tools)
        \cup (IF deferred_names # {} THEN {LOAD_TOOLS} ELSE {})

is_offered(n, loaded) == n = LOAD_TOOLS \/ n \in Eager \/ n \in loaded

Init ==
    /\ pc = "top"
    /\ g = [round |-> 0, reply |-> <<>>, loaded |-> already_loaded, failed |-> {}]
    /\ messages = <<Msg("user", <<>>, 0, "prompt")>>
    /\ reply = Quiet
    /\ h = [used |-> 0, cancelled |-> FALSE, streamed |-> FALSE, arrivals |-> <<>>]
    /\ streamed = <<>>
    /\ waiting = <<>>
    /\ stopped = FALSE
    /\ log = [seen |-> {}, taken |-> {}, absorbed |-> {}, ran |-> {}, repeats |-> {},
              late |-> 0, served |-> 0, billed |-> 0, over |-> FALSE, end |-> Absent]
    /\ left = Budget

-----------------------------------------------------------------------------
(* The host's side of a model call.                                         *)

\* A call is counted before it is made; a stopped turn may make none.
take_round(n) ==
    CASE h.cancelled -> "stopped"
      [] ~h.cancelled /\ MaxRounds > 0 /\ n > MaxRounds -> "limit"
      [] OTHER -> "ok"

\* What the gateway's own line, sent with the answer, changes: the messages
\* it took as the call began are kept for the guest, and a stop -- which
\* cuts the answer short -- is never withdrawn.
Told(host) ==
    [host EXCEPT !.used = @ + 1, !.cancelled = @ \/ stopped, !.arrivals = @ \o waiting]

\* A call begun: the gateway takes what was said, whatever becomes of it.
Begun(facts) ==
    [facts EXCEPT !.taken = @ \cup ToSet(waiting), !.late = IF stopped THEN @ + 1 ELSE @]

\* bill: one call's cost, the moment it is known.
bill(facts) == [facts EXCEPT !.served = @ + 1, !.billed = @ + 1]

\* What the reader is shown: the break before a round's first token, where
\* an earlier round showed something, and then the round's text.
Progress(text) ==
    IF text = Absent THEN streamed
    ELSE streamed \o (IF h.streamed THEN <<"break">> ELSE <<>>) \o <<text>>

\* pending_input: the messages kept are handed over, once, and reported.
pending_input == ToSet(h.arrivals)

injected(arrivals) == [i \in DOMAIN arrivals |-> Msg("user", <<>>, 0, arrivals[i])]

-----------------------------------------------------------------------------
(* The loop of `run`.                                                       *)

End(how) == pc' = "done" /\ log' = [log EXCEPT !.end = how]

\* The top of the loop: a stopped turn returns what it has said.
Stop ==
    /\ pc = "top" /\ h.cancelled
    /\ End("ok")
    /\ UNCHANGED <<g, messages, reply, h, streamed, waiting, stopped, left>>

exhausted == MaxRounds > 0 /\ g.round + 1 >= MaxRounds

\* host::chat answered.  A stop cuts the answer, which then names no finish.
Chat ==
    /\ pc = "top" /\ ~h.cancelled /\ take_round(h.used + 1) = "ok"
    /\ \E r \in Replies :
        LET cut == stopped /\ r.finish # Absent
            finish == IF cut THEN Absent ELSE r.finish
        IN  /\ reply' = [calls |-> r.calls, finish |-> finish]
            /\ streamed' = Progress(r.text)
            /\ h' = [Told(h) EXCEPT !.streamed = @ \/ r.text # Absent]
            /\ g' = [g EXCEPT !.reply =
                        IF r.text = Absent THEN @
                        ELSE @ \o (IF @ = <<>> THEN <<>> ELSE <<"break">>) \o <<r.text>>]
    /\ waiting' = <<>>
    /\ log' = [bill(Begun(log)) EXCEPT !.seen = @ \cup {messages[i].said : i \in DOMAIN messages}]
    /\ pc' = "read"
    /\ UNCHANGED <<messages, stopped, left>>

\* host::chat refused or failed, which fails the turn: over its limit; short
\* of memory, the stream broken or the reply malformed; or the provider
\* declining, whose answer is read to its end, cost included, and dropped.
ChatFails ==
    /\ pc = "top" /\ ~h.cancelled
    /\ \/ /\ take_round(h.used + 1) = "limit"
          /\ pc' = "done" /\ log' = [log EXCEPT !.end = "failed", !.over = TRUE]
          /\ UNCHANGED left
       \/ /\ take_round(h.used + 1) = "ok" /\ Spend("fail")
          /\ pc' = "done" /\ log' = [Begun(log) EXCEPT !.end = "failed"]
       \/ /\ take_round(h.used + 1) = "ok" /\ Spend("decline")
          /\ pc' = "done" /\ log' = [Begun(log) EXCEPT !.end = "failed", !.served = @ + 1]
    /\ h' = [h EXCEPT !.used = @ + 1]
    /\ UNCHANGED <<g, messages, reply, streamed, waiting, stopped>>

Again(more) ==
    /\ messages' = messages \o more
    /\ g' = [g EXCEPT !.round = @ + 1]
    /\ pc' = "top"

Assistant == Msg("assistant", reply.calls, 0, Absent)

\* A reply that calls nothing ends the turn, unless something was said.
NoCalls ==
    /\ pc = "read" /\ reply.calls = <<>>
    /\ IF h.arrivals = <<>>
       THEN End("ok") /\ UNCHANGED <<g, messages>>
       ELSE /\ Again(<<Assistant>> \o injected(h.arrivals))
            /\ log' = [log EXCEPT !.absorbed = @ \cup pending_input]
    /\ h' = [h EXCEPT !.arrivals = <<>>]
    /\ UNCHANGED <<reply, streamed, waiting, stopped, left>>

truncated == reply.finish = "length" \/ reply.finish = Absent

\* Mutant: what was said goes in before the calls are answered.
TruncatedSteered ==
    /\ pc = "read" /\ reply.calls # <<>> /\ truncated
    /\ Again(<<Assistant>> \o injected(h.arrivals)
             \o [i \in DOMAIN reply.calls |-> Msg("tool", <<>>, i, "not run")])
    /\ UNCHANGED <<reply, h, streamed, waiting, stopped, log, left>>

\* The calls of a reply that was cut short are answered and not run.
Truncated ==
    /\ pc = "read" /\ reply.calls # <<>> /\ truncated
    /\ Again(<<Assistant>> \o [i \in DOMAIN reply.calls |-> Msg("tool", <<>>, i, "not run")])
    /\ UNCHANGED <<reply, h, streamed, waiting, stopped, log, left>>

\* The calls go back into the conversation, and are run in order.
RunCalls ==
    /\ pc = "read" /\ reply.calls # <<>> /\ ~truncated
    /\ messages' = Append(messages, Assistant)
    /\ pc' = "tools"
    /\ UNCHANGED <<g, reply, h, streamed, waiting, stopped, log, left>>

-----------------------------------------------------------------------------
(* One tool call.                                                           *)

Done == Len(messages) - Max({i \in DOMAIN messages : messages[i].role = "assistant"})
Call == reply.calls[Done + 1]

\* What a name that is no tool but a skill's operation is answered with: the
\* file that says how to make the call.
operations_hint == "read its file"

\* The answer pushed, and a failure met before in this turn pointed out.
Answer(said, refused, facts) ==
    LET attempt == <<Call.name, Call.args, said>>
    IN  /\ messages' = Append(messages, Msg("tool", <<>>, Done + 1, said))
        /\ g' = [g EXCEPT !.failed = IF refused THEN @ \cup {attempt} ELSE @,
                          !.loaded = IF said = "loaded" THEN @ \cup resolve_name(Call.args) ELSE @]
        /\ log' = [facts EXCEPT
                     !.repeats = IF refused /\ attempt \in g.failed
                                 THEN @ \cup {Len(messages) + 1} ELSE @,
                     !.ran = IF said \in {operations_hint, "not loaded"} THEN @
                             ELSE @ \cup {[name |-> Call.name, finish |-> reply.finish,
                                           withheld |-> exhausted]}]
Answered(said, refused) == Answer(said, refused, log)

\* Not offered: refused, however well the call is formed.
Refuse ==
    /\ ~is_offered(Call.name, g.loaded)
    /\ Answered(IF Call.name \in Documented THEN operations_hint ELSE "not loaded", TRUE)
    /\ UNCHANGED <<h, waiting, left>>

load_tools ==
    /\ Call.name = LOAD_TOOLS
    /\ IF resolve_name(Call.args) # {} THEN Answered("loaded", FALSE)
       ELSE Answered(IF Call.args \in Documented THEN operations_hint ELSE "no such tool", TRUE)
    /\ UNCHANGED <<h, waiting, left>>

\* A look at an image is a model call of the host's: it takes a round, and
\* carries what was said, or a stop, as a round does.
describe_image ==
    /\ Call.name = LOOK /\ is_offered(LOOK, g.loaded)
    /\ \/ /\ take_round(h.used + 1) = "ok"
          /\ h' = Told(h) /\ waiting' = <<>>
          /\ Answer("seen", FALSE, bill(Begun(log)))
          /\ UNCHANGED left
       \* Nowhere to send it, declined or broken off: the tool's answer.
       \/ /\ take_round(h.used + 1) = "ok" /\ Spend("fail")
          /\ h' = [h EXCEPT !.used = @ + 1] /\ waiting' = <<>>
          /\ Answer("unavailable", TRUE, Begun(log))
       \/ /\ take_round(h.used + 1) # "ok"
          /\ h' = [h EXCEPT !.used = @ + (IF h.cancelled THEN 0 ELSE 1)]
          /\ Answered(take_round(h.used + 1), TRUE)
          /\ UNCHANGED <<waiting, left>>

\* A request: answered; refused; or held for an approval, which stops the
\* turn at its next boundary.
fetch ==
    /\ Call.name = FETCH /\ is_offered(FETCH, g.loaded)
    /\ \/ Answered("fetched", FALSE) /\ UNCHANGED <<h, left>>
       \/ Spend("fail") /\ Answered("refused", TRUE) /\ UNCHANGED h
       \/ /\ Spend("gate") /\ Answered("gated", TRUE)
          /\ h' = [h EXCEPT !.cancelled = TRUE]
    /\ UNCHANGED waiting

\* An operation's request: an argument it does not take, or one missing,
\* and nothing is sent.
call_operation ==
    /\ Call.name \in operations /\ is_offered(Call.name, g.loaded)
    /\ IF Call.args = "bad" THEN Answered("not sent", TRUE) ELSE Answered("ran", FALSE)
    /\ UNCHANGED <<h, waiting, left>>

\* Any other tool; a name that is eager and is no tool's answers so.
Other ==
    /\ Call.name \notin {LOAD_TOOLS, LOOK, FETCH} \cup operations
    /\ is_offered(Call.name, g.loaded)
    /\ IF Call.name \in all_tools THEN Answered("ran", FALSE) ELSE Answered("no such tool", TRUE)
    /\ UNCHANGED <<h, waiting, left>>

run_tool ==
    /\ pc = "tools" /\ Done < Len(reply.calls)
    /\ Refuse \/ load_tools \/ describe_image \/ fetch \/ call_operation \/ Other
    /\ UNCHANGED <<pc, reply, streamed, stopped>>

\* Every call answered: what was said goes in, and the loop goes round --
\* unless this was the round that withheld the tools.
EndRound ==
    /\ pc = "tools" /\ Done = Len(reply.calls)
    /\ messages' = messages \o injected(h.arrivals)
    /\ h' = [h EXCEPT !.arrivals = <<>>]
    /\ g' = [g EXCEPT !.round = @ + 1]
    /\ IF exhausted THEN pc' = "done" ELSE pc' = "top"
    /\ log' = [log EXCEPT !.absorbed = @ \cup pending_input,
                          !.end = IF exhausted THEN "ok" ELSE @]
    /\ UNCHANGED <<reply, streamed, waiting, stopped, left>>

\* The guest traps: out of fuel, or out of the memory it may hold.
Trap ==
    /\ pc # "done" /\ Spend("trap")
    /\ End("failed")
    /\ UNCHANGED <<g, messages, reply, h, streamed, waiting, stopped>>

-----------------------------------------------------------------------------
(* The person.                                                              *)

Say(m) ==
    /\ pc # "done" /\ m \notin ToSet(waiting) \cup log.taken
    /\ Spend("say")
    /\ waiting' = Append(waiting, m)
    /\ UNCHANGED <<pc, g, messages, reply, h, streamed, stopped, log>>

PressStop ==
    /\ pc # "done" /\ ~stopped /\ Spend("stop")
    /\ stopped' = TRUE
    /\ UNCHANGED <<pc, g, messages, reply, h, streamed, waiting, log>>

Turn == Stop \/ Chat \/ ChatFails \/ NoCalls \/ Truncated \/ RunCalls \/ run_tool \/ EndRound
Next == Turn \/ Trap \/ (\E m \in Arrivals : Say(m)) \/ PressStop

Spec == Init /\ [][Next]_vars

\* The runtime runs the guest to its end; the fuel and the idle timeout end
\* one that stalls.
FairSpec == Spec /\ WF_vars(Turn)

-----------------------------------------------------------------------------
(* What should hold.                                                        *)

TypeOK ==
    /\ pc \in {"top", "read", "tools", "done"}
    /\ g.round \in Nat /\ g.loaded \subseteq deferred_names
    /\ h.used \in Nat /\ {h.cancelled, h.streamed, stopped} \subseteq BOOLEAN
    /\ \A i \in DOMAIN messages : messages[i].role \in {"user", "assistant", "tool"}
    /\ log.end \in {Absent, "ok", "failed"}

\* run (lib.rs): whatever is sent to the model, every call it made is followed at
\* once by one answer to each, in order, and nothing else is an answer: a
\* provider refuses the whole conversation otherwise.
WellFormed ==
    pc = "top" =>
        \A i \in DOMAIN messages :
            LET n == Len(messages[i].calls)
                before == {j \in 1..i : messages[j].role = "assistant"}
            IN  /\ \A k \in 1..n : /\ i + k \in DOMAIN messages
                                    /\ messages[i + k].role = "tool" /\ messages[i + k].to = k
                /\ messages[i].role = "tool" =>
                     before # {} /\ i <= Max(before) + Len(messages[Max(before)].calls)

\* truncated and run_tool (lib.rs): a call is run only from a reply that said it had
\* finished, and only for a tool that was eager, or that a load named -- in
\* this turn or an earlier one -- before the call.
RunsWhole ==
    \A c \in log.ran :
        /\ c.finish = "stop"
        /\ \/ c.name \in Eager \cup {LOAD_TOOLS}
           \/ c.name \in already_loaded
           \/ \E i \in DOMAIN messages, k \in 1..2 :
                /\ k <= Len(messages[i].calls)
                /\ messages[i].calls[k].name = LOAD_TOOLS
                /\ \/ messages[i].calls[k].args = c.name
                   \/ c.name \in operations /\ messages[i].calls[k].args = FileName[c.name]

\* run's reply and chat's progress (lib.rs, model.rs): what the turn returns is,
\* break for break, what the reader was already shown.
AsStreamed == pc # "done" \/ log.end = "ok" => g.reply = streamed

\* pending_input (mod.rs): what a person says mid-turn is put in front of the
\* model once, and in the order it was said.
SaidOnce ==
    LET said == SelectSeq([i \in DOMAIN messages |-> messages[i].said], LAMBDA m : m \in Arrivals)
    IN  /\ IsInjective(said)
        /\ ToSet(said) = log.absorbed
        /\ ToSet(said) \cap ToSet(h.arrivals) = {}

\* take_round and the top of the loop: once stop is pressed at most one more
\* model call begins, the one that brings the news.
StopsThere == log.late <= 1

\* run_tool's note: "this exact call already failed this way" is said of a call
\* exactly when the same call was answered so before in this turn.
RepeatsReal ==
    \A i \in DOMAIN messages :
        messages[i].role = "tool" /\ messages[i].said \notin {"not run", "ran", "fetched", "seen", "loaded"} =>
            LET CallOf(j) ==
                    messages[Max({k \in 1..j : messages[k].role = "assistant"})].calls[messages[j].to]
            IN  (i \in log.repeats) <=>
                    \E j \in 1..(i - 1) : /\ messages[j].role = "tool"
                                           /\ messages[j].said = messages[i].said
                                           /\ CallOf(j) = CallOf(i)
=============================================================================
