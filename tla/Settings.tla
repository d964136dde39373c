------------------------------- MODULE Settings ------------------------------
(***************************************************************************)
(* The settings cascade of one workspace and one of its agents: who may      *)
(* write a row and what is checked before it is, what a page shows at each   *)
(* level, and what a turn's model is asked with (api/settings/mod.rs,        *)
(* settings/postgres.rs, router.rs, quota.rs, core/model_settings.rs).  A    *)
(* setting's values are numbers, a ceiling's the strictest first, and a      *)
(* model's facts are the values it takes.  A step of a request is one query. *)
(***************************************************************************)
EXTENDS Integers, Sequences, SequencesExt, FiniteSets

CONSTANTS Values, Default, Asks, Calls, Described, None

Requests == 1..Asks
\* What tells settings apart: who may set each below the operator, which are about a model, and
\* which one hands another to workspaces, at its value 1.
catalog == [effort |-> "overridable", risk |-> "ceiling", stored |-> "operator",
    stored_by |-> "operator"]
Keys == DOMAIN catalog
per_model == {"effort"}
delegated == {"stored"}
owner_given(key, flag) == IF key \in delegated /\ flag = 1 THEN "overridable" ELSE catalog[key]
\* The levels a level's value is walked from, a template's fixed values last of all.
Levels == {"operator", "workspace", "agent"}
Chain(level) ==
    CASE level = "operator" -> <<"operator">> [] level = "workspace" -> <<"operator", "workspace">>
      [] level = "agent" -> <<"operator", "workspace", "agent">>

\* What is taken of the constants: one value of each setting is the catalog's own.
SettingsAssumption ==
    /\ Values \subseteq Nat /\ Default \in [Keys -> Values] /\ Asks \in Nat
    /\ \A c \in Calls : c.key \in Keys /\ c.level \in Levels /\ (c.model => c.key \in per_model)

VARIABLES overrides,  \* setting_overrides: a level's row, for one model or every one, of a key, or None
          fixed,      \* what the agent's template fixes, by key, and who published it
          takes,      \* the values of each key the model takes, and who described it
          ask         \* requests, numbered as they are asked

vars == <<overrides, fixed, takes, ask>>

Unasked == [pc |-> <<>>, call |-> None, after |-> {}, said |-> "unasked", facts |-> {},
    seen |-> None, got |-> None]

Init ==
    /\ overrides = [l \in Levels |-> [m \in BOOLEAN |-> [k \in Keys |-> None]]]
    /\ fixed = [value |-> None, by |-> 0] /\ takes \in {[set |-> d, by |-> 0] : d \in Described}
    /\ ask = [q \in Requests |-> Unasked]

At(q, pc) == ask[q].said = None /\ ask[q].pc # <<>> /\ Head(ask[q].pc) = pc
Done(q) == ask[q].said \notin {"unasked", None}
\* On to what the request checks or does next, or the answer.
Onward(q) ==
    LET rest == Tail(ask[q].pc) IN
    ask' = [ask EXCEPT ![q] = [@ EXCEPT !.pc = rest, !.said = IF rest = <<>> THEN "ok" ELSE None]]
Refused(q) == ask' = [ask EXCEPT ![q].said = "refused"]
OnlyIf(q, ok) == (IF ok THEN Onward(q) ELSE Refused(q)) /\ UNCHANGED <<overrides, fixed, takes>>

valid_for(key, value, facts) == key \notin per_model \/ value \in facts

(* --------------------------------- reading -------------------------------- *)

Value(row) == IF row = None THEN None ELSE row.value
\* rows_at: those for every model, with the model's over them.
rows_at(level, model, key) ==
    IF model /\ overrides[level][TRUE][key] # None THEN Value(overrides[level][TRUE][key])
        ELSE Value(overrides[level][FALSE][key])
\* walk: the last that has one wins.
walk(found, key) ==
    LET some == SelectSeq(found, LAMBDA v : v # None)
    IN IF some = <<>> THEN Default[key] ELSE Last(some)
Fixed(level, key) == IF level = "agent" /\ key = "effort" THEN <<fixed.value>> ELSE <<>>
Found(level, model, key) == [i \in DOMAIN Chain(level) |-> rows_at(Chain(level)[i], model, key)]
Operators(key) == walk(Found("operator", FALSE, key), key)
stricter(a, b) == IF b < a THEN b ELSE a
\* view: what applies at the level; and what would without the level's own row.
view(level, model, key) ==
    LET value == walk(Found(level, model, key) \o Fixed(level, key), key) IN
    IF catalog[key] = "ceiling" THEN stricter(Operators(key), value) ELSE value
inherited(level, model, key) ==
    LET found == Found(level, model, key)
        above == SubSeq(found, 1, Len(found) - 1)
        every == IF model THEN <<rows_at(level, FALSE, key)>> ELSE <<>>
    IN walk(above \o every \o Fixed(level, key), key)

\* cascade: a template's value where the model takes it, else the nearest row it takes.
cascade(found, fix, key, facts) ==
    LET usable == SelectSeq(found, LAMBDA v : v # None /\ valid_for(key, v, facts)) IN
    IF fix # None /\ valid_for(key, fix, facts) THEN fix
    ELSE IF usable = <<>> THEN Default[key] ELSE Head(usable)
\* The rows as resolve ranks them.
Ranked(key) ==
    LET at(l, m) == Value(overrides[l][m][key]) IN
    <<at("agent", TRUE), at("agent", FALSE), at("workspace", TRUE), at("workspace", FALSE),
      at("operator", TRUE), at("operator", FALSE)>>

(* ------------------------------- a request -------------------------------- *)

\* What a request goes through: a write is checked by who writes, what it writes and where.
Stages(c) ==
    LET set == c.do = "set"
        when(stage, applies) == IF applies THEN <<stage>> ELSE <<>>
        below == c.level # "operator" /\ ~c.operator
    IN
    IF c.do = "set" \/ c.do = "clear"
    THEN when("may_write", below)
         \o when("within_ceiling",
                 set /\ below /\ c.level = "workspace" /\ catalog[c.key] = "ceiling")
         \o when("facts", set /\ c.model)
         \o when("fixed", set /\ c.level = "agent")
         \o <<"put">>
    ELSE IF c.do = "turn" THEN <<"links", "resolve", "running">>
    ELSE IF c.do = "read" THEN <<"above", "here">> ELSE <<c.do>>
Ask(q, c) ==
    /\ ask[q].said = "unasked" /\ \A r \in 1..q - 1 : ask[r].said # "unasked"
    /\ ask' = [ask EXCEPT ![q] = [@ EXCEPT !.pc = Stages(c), !.call = c, !.said = None,
                                           !.after = {r \in Requests : Done(r)}]]
    /\ UNCHANGED <<overrides, fixed, takes>>

\* may_write: by who may set it as the operator has it now; and per agent, not what is a workspace's.
may_write(q) ==
    LET c == ask[q].call IN
    /\ At(q, "may_write")
    /\ OnlyIf(q, /\ owner_given(c.key, Operators("stored_by")) # "operator"
                 /\ c.level = "agent" => c.key \notin delegated /\ catalog[c.key] # "ceiling")

\* within_ceiling: no looser than the operator's.
within_ceiling(q) ==
    /\ At(q, "within_ceiling")
    /\ LET c == ask[q].call IN OnlyIf(q, stricter(Operators(c.key), c.value) = c.value)

\* set: what the model takes, and what the template does not fix; and clear.
CheckFacts(q) ==
    /\ At(q, "facts")
    /\ LET c == ask[q].call IN OnlyIf(q, valid_for(c.key, c.value, takes.set))
CheckFixed(q) ==
    /\ At(q, "fixed") /\ OnlyIf(q, fixed.value = None \/ ask[q].call.key # "effort")
set(q) ==
    LET c == ask[q].call IN
    /\ At(q, "put") /\ Onward(q)
    /\ overrides' = [overrides EXCEPT ![c.level][c.model][c.key] =
                  IF c.do = "set" THEN [value |-> c.value, by |-> q] ELSE None]
    /\ UNCHANGED <<fixed, takes>>

\* A version of the template is published; the model is described otherwise.
Publish(q) ==
    /\ At(q, "publish") /\ Onward(q)
    /\ fixed' = [value |-> ask[q].call.value, by |-> q] /\ UNCHANGED <<overrides, takes>>
Describe(q) ==
    /\ At(q, "describe") /\ Onward(q) /\ \E d \in Described : takes' = [set |-> d, by |-> q]
    /\ UNCHANGED <<overrides, fixed>>

\* What a turn's model is asked with: its facts, the rows, then what the running version fixes.
Links(q) ==
    /\ At(q, "links") /\ ask' = [ask EXCEPT ![q].pc = Tail(@), ![q].facts = takes.set]
    /\ UNCHANGED <<overrides, fixed, takes>>
resolve(q) ==
    /\ At(q, "resolve")
    /\ ask' = [ask EXCEPT ![q].pc = Tail(@), ![q].seen = Ranked("effort")]
    /\ UNCHANGED <<overrides, fixed, takes>>
Running(q) ==
    /\ At(q, "running")
    /\ LET asked == cascade(ask[q].seen, fixed.value, "effort", ask[q].facts) IN
       ask' = [ask EXCEPT ![q] = [@ EXCEPT !.pc = <<>>, !.said = "ok", !.got = asked]]
    /\ UNCHANGED <<overrides, fixed, takes>>

\* A quota or a ceiling as the workspace has it: the operator's rows, then the workspace's.
ReadAbove(q) ==
    /\ At(q, "above")
    /\ ask' = [ask EXCEPT ![q].pc = Tail(@),
           ![q].seen = rows_at("operator", FALSE, ask[q].call.key)]
    /\ UNCHANGED <<overrides, fixed, takes>>
ReadHere(q) ==
    LET key == ask[q].call.key
        walked == walk(<<ask[q].seen, rows_at("workspace", FALSE, key)>>, key)
        value == IF catalog[key] = "ceiling" THEN stricter(walk(<<ask[q].seen>>, key), walked)
                 ELSE walked
    IN
    /\ At(q, "here")
    /\ ask' = [ask EXCEPT ![q] = [@ EXCEPT !.pc = <<>>, !.said = "ok", !.got = value]]
    /\ UNCHANGED <<overrides, fixed, takes>>

\* A step of a request that was asked.
Serve(q) ==
    \/ may_write(q) \/ within_ceiling(q) \/ CheckFacts(q) \/ CheckFixed(q) \/ set(q)
    \/ Publish(q) \/ Describe(q) \/ Links(q) \/ resolve(q) \/ Running(q)
    \/ ReadAbove(q) \/ ReadHere(q)

Next == \E q \in Requests : (\E c \in Calls : Ask(q, c)) \/ Serve(q)

Spec == Init /\ [][Next]_vars

(* ------------------------------- properties ------------------------------- *)

Asked == {q \in Requests : ask[q].said # "unasked"}
Alone(q) == \A r \in Asked \ {q} : r \in ask[q].after \/ q \in ask[r].after
Latest(q) == Asked \ {q} \subseteq ask[q].after
\* Written before the request was asked, so seen by what it checked.
Before(by, q) == by = 0 \/ by \in ask[q].after
Mine(level, model, key) == overrides[level][model][key]

\* A row that stands was one its writer could write by everything that was already so: a quota
\* only while it was handed to workspaces, no value the template fixes, none the model refuses
\* (may_write, set).
WritesAllowed ==
    \A l \in Levels, m \in BOOLEAN, k \in Keys : Mine(l, m, k) # None =>
        LET r == Mine(l, m, k)  c == ask[r.by].call  flag == Mine("operator", FALSE, "stored_by") IN
        /\ l = "workspace" /\ k \in delegated /\ ~c.operator /\ Operators("stored_by") # 1 =>
              flag # None /\ ~Before(flag.by, r.by)
        /\ l = "agent" /\ k = "effort" /\ fixed.value # None => ~Before(fixed.by, r.by)
        /\ l = "workspace" /\ catalog[k] = "ceiling" /\ Mine("operator", FALSE, k) # None =>
              \/ stricter(Operators(k), r.value) = r.value
              \/ ~Before(Mine("operator", FALSE, k).by, r.by)
        /\ m /\ ~valid_for(k, r.value, takes.set) => ~Before(takes.by, r.by)

\* A ceiling is never read looser than what the operator had set before it was asked for, whatever
\* a workspace wrote as the operator was tightening it (stricter).
CeilingHolds ==
    \A q \in Asked : ask[q].call.do = "read" /\ Done(q) /\ catalog[ask[q].call.key] = "ceiling" =>
        LET r == Mine("operator", FALSE, ask[q].call.key) IN
        r # None /\ Before(r.by, q) => ask[q].got <= r.value

\* A page says what clearing its row would give, and what the model is asked with, where the model
\* takes everything set for it (view, inherited; cascade).
Cleared(level, model, key) ==
    LET found == [Found(level, model, key) EXCEPT ![Len(Chain(level))] =
                    IF model THEN rows_at(level, FALSE, key) ELSE None]
    IN walk(found \o Fixed(level, key), key)
AllTaken ==
    /\ fixed.value # None => valid_for("effort", fixed.value, takes.set)
    /\ \A l \in Levels, m \in BOOLEAN : Mine(l, m, "effort") # None =>
           valid_for("effort", Mine(l, m, "effort").value, takes.set)
ViewTrue ==
    /\ \A l \in Levels, m \in BOOLEAN, k \in Keys : inherited(l, m, k) = Cleared(l, m, k)
    /\ AllTaken => view("agent", TRUE, "effort") =
           cascade(Ranked("effort"), fixed.value, "effort", takes.set)

\* A turn with nothing beside it is asked with what the agent's page shows, where the model takes
\* everything set; and never with a value the model refuses, but the catalog's own.
TurnAsShown ==
    \A q \in Asked : ask[q].call.do = "turn" /\ Done(q) =>
        /\ Latest(q) /\ AllTaken => ask[q].got = view("agent", TRUE, "effort")
        /\ Before(takes.by, q) =>
              ask[q].got = Default["effort"] \/ valid_for("effort", ask[q].got, takes.set)

SettingsSound == WritesAllowed /\ CeilingHolds /\ ViewTrue /\ TurnAsShown
==============================================================================
