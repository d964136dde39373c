----------------------------- MODULE MCApprovals -----------------------------
(*****************************************************************************)
(* EgressGate, and instances of PolicyRows, PolicyConvert and Conversation   *)
(* for one run: a behaviour is one component moving under one set of bounds, *)
(* named by `part`, and the variables of the others are None. Components     *)
(* that name a variable alike share it.                                      *)
(*****************************************************************************)
EXTENDS EgressGate, Sequences, TLC

CONSTANTS NoAmount, gate_a1, gate_r1, gate_r2, gate_r3, gate_t1, gate_t2, rows_a1,
          rows_a2, rows_o1, rows_o2, rows_w1, rows_w2, convert_a1, convert_a2, convert_o1

VARIABLES part, rows, ops, cap, clock, items, raised, req, word,
          banding, bands, ceiling, pubs, first, passes, fails, said, queue, parked,
          settledFor, held, stopped, wanted, turn, stale

all == <<part, policies, rows, granted, tokens, reqs, ledger, left, ops, cap, clock, items, raised, req, word,
         banding, bands, ceiling, pubs, first, passes, fails, said, queue, parked,
         settledFor, held, stopped, wanted, turn, stale>>
On(p) == part = p

(* -------------------- EgressGate -------------------- *)
GateThree == [charge |-> [binds |-> {"amount"}, auto |-> TRUE],
              ledger |-> [binds |-> {"amount"}, auto |-> TRUE], reach |-> [binds |-> {}, auto |-> FALSE]]
GateKind(gates, amount, file) == [gates |-> gates, amount |-> amount, file |-> file]
GateKinds == [small |-> GateKind({"charge"}, 1, FALSE), large |-> GateKind({"charge"}, 2, FALSE),
              double |-> GateKind({"charge", "ledger"}, 1, FALSE),
              hosted |-> GateKind({"charge", "reach"}, 1, FALSE),
              page |-> GateKind({"reach"}, 1, FALSE), upload |-> GateKind({"reach"}, 1, TRUE),
              open |-> GateKind({}, 1, FALSE)]
GateRow(id, op, lt, each, day, total) ==
    [id |-> id, eff |-> "include", sel |-> "op", op |-> op, act |-> None, agent |-> AllAgents, max |-> 0,
     tests |-> {}, cur |-> {}, mode |-> "on", rev |-> FALSE, exp |-> FALSE, setter |-> TRUE, acc |-> 0,
     ver |-> 1, lt |-> lt, perTurn |-> each, perDay |-> day, total |-> total]
\* A policy for each of two operations, or one broad policy over both.
GatePolicies == {{GateRow("p", "charge", 3, 2, 2, 3), GateRow("q", "ledger", 3, 1, 2, 3)},
                 {[GateRow("p", "act", 3, 2, 2, 3) EXCEPT !.sel = "risk", !.op = None, !.max = 3]}}
GateSome == [f \in {"unread", "reissue", "edit", "stop", "exclude", "database", "crash", "approve", "day"} |-> 1]
\* Turns, requests and kinds of trouble are four in all: a race for a cap among three requests
\* of a turn or two of each of two, one trouble beside two requests, or two beside one.
GateTrouble == {f \in DOMAIN left : left[f] = 0}
GateFew ==
    LET ready == Cardinality({t \in Turns : tokens[t].held})
        asked == Cardinality({r \in Requests : reqs[r].pc # "none"})
    IN  Cardinality(GateTrouble) + ready + asked <= 4 /\ Cardinality(GateTrouble) <= 2

(* -------------------- PolicyRows -------------------- *)
RowsZero == [create |-> 0, update |-> 0, mark |-> 0, put |-> 0, publish |-> 0,
         time |-> 0, member |-> 0, cap |-> 0, fail |-> 0]
RowsDecl(o, r) == [op |-> o, act |-> "pay", auto |-> TRUE, reach |-> r, binds |-> {"id"}, cur |-> None, pub |-> 0]
RowsTwoOps == [o \in {rows_o1, rows_o2} |-> RowsDecl(o, IF o = rows_o1 THEN 1 ELSE 2)]
RowsBoth == [a \in {rows_a1, rows_a2} |-> {rows_o1, rows_o2}]
RowsSame == [o \in {rows_o1, rows_o2} |-> {[RowsTwoOps[o] EXCEPT !.pub = 0]}]
RowsRebound == [o \in {rows_o1, rows_o2} |-> RowsSame[o] \cup {[RowsTwoOps[o] EXCEPT !.reach = 2, !.binds = {"ref"}]}]
RowsPolicy(eff, sel, op, agent, max, tests) ==
    [eff |-> eff, sel |-> sel, op |-> op, agent |-> agent, max |-> max, tests |-> tests,
     cur |-> {}, mode |-> "on"]
RowsBroad(agent, max) == RowsPolicy("include", "risk", None, agent, max, {})
RowsAsRow(c, i) == [id |-> i, eff |-> c.eff, sel |-> c.sel, op |-> c.op, act |-> None,
                agent |-> c.agent, max |-> c.max, tests |-> c.tests, cur |-> c.cur,
                mode |-> c.mode, rev |-> FALSE, exp |-> FALSE, setter |-> TRUE, acc |-> 0]
RowsTwoBroad == {<<RowsAsRow(RowsBroad(AllAgents, 2), 1)>>,
                 <<RowsAsRow(RowsBroad(AllAgents, 2), 1), RowsAsRow(RowsBroad(rows_a1, 2), 2)>>}
RowsOneBroad == {<<RowsAsRow(RowsBroad(AllAgents, 2), 1)>>}
RowsSomeBroad == {<<>>, <<RowsAsRow(RowsBroad(AllAgents, 1), 1)>>,
              <<RowsAsRow(RowsBroad(AllAgents, 2), 1), RowsAsRow(RowsBroad(rows_a1, 2), 2)>>,
              <<RowsAsRow([RowsBroad(AllAgents, 2) EXCEPT !.mode = "trial"], 1)>>}
RowsMenu == {RowsBroad(AllAgents, 2), RowsBroad(rows_a1, 1), RowsPolicy("exclude", "op", rows_o1, AllAgents, 0, {})}
RowsRefused == {RowsPolicy("include", "act", None, AllAgents, 0, {})}
RowsExcluding == RowsRefused \cup {RowsBroad(AllAgents, 2), RowsPolicy("exclude", "op", rows_o1, AllAgents, 0, {}),
                      RowsPolicy("exclude", "risk", None, AllAgents, 1, {}), RowsPolicy("include", "op", rows_o1, rows_a1, 0, {"id"})}
RowsRule(o, agent, auto) == [ops |-> o, agent |-> agent, automatic |-> auto, tests |-> {"id"}, mode |-> "on"]
RowsRuleMenu == {RowsRule({o}, a, auto) : o \in {rows_o1, rows_o2}, a \in {AllAgents, rows_a1}, auto \in BOOLEAN}
            \cup {RowsRule({rows_o1, rows_o2}, AllAgents, FALSE), RowsRule({rows_o1, rows_o2}, rows_a1, TRUE)}
RowsRuleFew == {RowsRule({rows_o1}, AllAgents, FALSE), RowsRule({rows_o1}, rows_a1, TRUE)}
RowsFirst == {<<>>, <<RowsAsRow(RowsBroad(AllAgents, 1), 1)>>}
RowsFewer == {RowsBroad(rows_a1, 1), RowsPolicy("exclude", "op", rows_o1, AllAgents, 0, {})}
RowsBroader == {RowsBroad(AllAgents, 2), RowsPolicy("include", "op", rows_o1, AllAgents, 0, {"id"})}
RowsPutting == [RowsZero EXCEPT !.put = 3]
RowsMixing == [f \in DOMAIN RowsZero |-> CASE f = "put" -> 2 [] f \in {"fail", "time", "publish"} -> 0 [] OTHER -> 1]
RowsWriting == [RowsZero EXCEPT !.create = 1, !.update = 1, !.mark = 1, !.publish = 2]
RowsChoosing == [RowsZero EXCEPT !.create = 2, !.publish = 1, !.member = 1, !.cap = 1]
RowsRacing == [f \in DOMAIN RowsZero |-> CASE f = "publish" -> 2 [] f \in {"put", "cap"} -> 0 [] OTHER -> 1]
\* What a mixed budget leaves is only ever spent so far.
RowsSpent(b, most) == MapThenSumSet(LAMBDA f : b[f] - left[f], DOMAIN b) <= most

Rows_rules == INSTANCE PolicyRows WITH
    Agents <- {rows_a1, rows_a2}, Writers <- {rows_w1}, Ops <- {rows_o1, rows_o2},
    Reaches <- RowsBoth, Published <- RowsSame, Policies <- {}, Rules <- RowsRuleMenu,
    FirstRows <- RowsSomeBroad, FirstOps <- RowsTwoOps, FirstCap <- 2, Caps <- {},
    MaxRows <- 10, Delegated <- TRUE, Budget <- RowsPutting
Rows_mixed == INSTANCE PolicyRows WITH
    Agents <- {rows_a1, rows_a2}, Writers <- {rows_w1, rows_w2}, Ops <- {rows_o1, rows_o2},
    Reaches <- RowsBoth, Published <- RowsSame, Policies <- RowsBroader, Rules <- RowsRuleFew,
    FirstRows <- RowsFirst, FirstOps <- RowsTwoOps, FirstCap <- 2, Caps <- {1},
    MaxRows <- 5, Delegated <- FALSE, Budget <- RowsMixing
Rows_waits == INSTANCE PolicyRows WITH
    Agents <- {rows_a1, rows_a2}, Writers <- {rows_w1}, Ops <- {rows_o1, rows_o2},
    Reaches <- RowsBoth, Published <- RowsRebound, Policies <- RowsMenu, Rules <- {},
    FirstRows <- RowsTwoBroad, FirstOps <- RowsTwoOps, FirstCap <- 2, Caps <- {}, MaxRows <- 5,
    Delegated <- TRUE, Budget <- RowsWriting
Rows_choice == INSTANCE PolicyRows WITH
    Agents <- {rows_a1, rows_a2}, Writers <- {rows_w1}, Ops <- {rows_o1, rows_o2},
    Reaches <- RowsBoth, Published <- RowsRebound, Policies <- RowsExcluding, Rules <- {},
    FirstRows <- RowsOneBroad, FirstOps <- RowsTwoOps, FirstCap <- 2, Caps <- {1}, MaxRows <- 5,
    Delegated <- TRUE, Budget <- RowsChoosing
Rows_notice == INSTANCE PolicyRows WITH
    Agents <- {rows_a1, rows_a2}, Writers <- {rows_w1, rows_w2}, Ops <- {rows_o1, rows_o2},
    Reaches <- RowsBoth, Published <- RowsSame, Policies <- RowsFewer, Rules <- {},
    FirstRows <- RowsOneBroad, FirstOps <- RowsTwoOps, FirstCap <- 2, Caps <- {}, MaxRows <- 3,
    Delegated <- TRUE, Budget <- RowsRacing

(* -------------------- PolicyConvert -------------------- *)
ConvertBound(S) == S \cup {NoAmount}
ConvertMoney(bases, at, units) == [base : bases, low : ConvertBound(at), medium : ConvertBound(at), fmedium : ConvertBound(at),
                            fhigh : ConvertBound(at), units : units]
ConvertEveryBanding == {b \in ConvertMoney({1, 3}, 1..3, {0}) : b.fhigh \in {NoAmount, 3}}
ConvertSomeBanding == {b \in ConvertMoney({3}, {2, 3}, {0}) : b.fmedium = NoAmount /\ b.low # 3 /\ b.medium # 2 /\ b.fhigh # 2}
ConvertPol(eff, sel, agent, max, lt) ==
    [id |-> 0, from |-> 0, eff |-> eff, sel |-> sel, op |-> IF sel = "op" THEN convert_o1 ELSE None,
     act |-> IF sel = "act" THEN "pay" ELSE None, agent |-> agent, max |-> max, tests |-> {},
     cur |-> {}, mode |-> "on", rev |-> FALSE, exp |-> FALSE, setter |-> TRUE, acc |-> 0, lt |-> lt]
ConvertIncludes == {ConvertPol("include", s, a, m, lt) : s \in {"risk", "act", "op"}, a \in {AllAgents, convert_a1},
             m \in {0, 2}, lt \in {NoAmount, 2}}
ConvertValid == {p \in ConvertIncludes : (p.sel = "risk" => p.max # 0) /\ (p.sel = "op" => p.agent = convert_a1 /\ p.max = 0)}
ConvertBands == {{}, {[op |-> None, low |-> 1, medium |-> NoAmount]}, {[op |-> convert_o1, low |-> 1, medium |-> 2]}}

Convert_shown == INSTANCE PolicyConvert WITH
    Agents <- {convert_a1}, Radix <- 2, MaxInt <- 8, Ops <- {convert_o1},
    Bandings <- ConvertEveryBanding, OwnBands <- {{}}, Starts <- ConvertValid, MaxFirst <- 1,
    Ceilings <- {0, 1, 2, 3}, Amount <- {0, 1, 2, 3, 4}, Pubs <- {0, 1}, Typed <- {1, 2, 3, 4},
    Fails <- 0
Convert_passes == INSTANCE PolicyConvert WITH
    Agents <- {convert_a1, convert_a2}, Radix <- 2, MaxInt <- 8, Ops <- {convert_o1},
    Bandings <- ConvertSomeBanding, OwnBands <- ConvertBands, Starts <- ConvertValid,
    MaxFirst <- 2, Ceilings <- {2}, Amount <- {0, 1, 2, 3}, Pubs <- {0}, Typed <- {}, Fails <- 1

(* -------------------- Conversation -------------------- *)
TalkZero == [crash |-> 0, stop |-> 0, compact |-> 0, lose |-> 0]
TalkWords == {<<"say">>, <<"call", "say">>, <<"say", "call", "call">>}
TalkAsks == {<<"say">>, <<"ask">>, <<"call">>}
TalkDropping == [TalkZero EXCEPT !.stop = 1, !.lose = 1]
TalkOnce == [TalkZero EXCEPT !.crash = 1]
TalkAsked == [TalkZero EXCEPT !.crash = 1, !.compact = 1]
TalkNothing == <<>>
TalkSaid(kind, to, parts) ==
    [kind |-> kind, to |-> to, through |-> 0, parts |-> parts, cut |-> FALSE, done |-> TRUE,
     read |-> {}]
\* A turn that waits for an approval, and a message sent since.
TalkWaiting ==
    <<TalkSaid("user", 0, <<"say">>), TalkSaid("reply", 1, <<"ask">>), TalkSaid("user", 0, <<"say">>)>>
TalkUnanswered == <<[prompt |-> 1, after |-> 2, state |-> "held", settled |-> 0]>>
\* Two requests the summary of their refusals hides, the later one settled already.
TalkBoth ==
    <<TalkSaid("user", 0, <<"say">>), TalkSaid("reply", 1, <<"ask">>),
      TalkSaid("user", 0, <<"say">>), TalkSaid("reply", 3, <<"ask">>),
      [TalkSaid("summary", 0, <<"say">>) EXCEPT !.through = 4,
                                                !.read = {<<i, 1>> : i \in 1..4}],
      TalkSaid("approval", 0, <<"say">>), TalkSaid("reply", 3, <<"call">>)>>
TalkLater == <<[prompt |-> 1, after |-> 2, state |-> "held", settled |-> 0],
               [prompt |-> 3, after |-> 4, state |-> "settled", settled |-> 6]>>

Talk_words == INSTANCE Conversation WITH
    Shapes <- TalkWords, Kept <- 2, Room <- 3, MaxRows <- 6, MaxHeld <- 0,
    BootRows <- TalkNothing, BootHeld <- TalkNothing, Budget <- TalkAsked
Talk_drops == INSTANCE Conversation WITH
    Shapes <- TalkWords, Kept <- 2, Room <- 3, MaxRows <- 6, MaxHeld <- 0,
    BootRows <- TalkNothing, BootHeld <- TalkNothing, Budget <- TalkDropping
Talk_asks == INSTANCE Conversation WITH
    Shapes <- TalkAsks, Kept <- 2, Room <- 4, MaxRows <- 8, MaxHeld <- 2,
    BootRows <- TalkWaiting, BootHeld <- TalkUnanswered, Budget <- TalkOnce
Talk_notes == INSTANCE Conversation WITH
    Shapes <- TalkAsks, Kept <- 3, Room <- 5, MaxRows <- 13, MaxHeld <- 2,
    BootRows <- TalkBoth, BootHeld <- TalkLater, Budget <- TalkZero

ASSUME InstancesAssumption ==
    /\ Rows_rules!PolicyRowsAssumption /\ Rows_mixed!PolicyRowsAssumption /\ Rows_waits!PolicyRowsAssumption
    /\ Rows_choice!PolicyRowsAssumption /\ Rows_notice!PolicyRowsAssumption
    /\ Talk_words!ConversationAssumption /\ Talk_drops!ConversationAssumption
    /\ Talk_asks!ConversationAssumption /\ Talk_notes!ConversationAssumption

(* The parts: one component moves, and the variables of the others are None, or as EgressGate
   has them before any policy, token and request. *)
GateStill ==
    /\ policies = {} /\ granted = {} /\ ledger = {}
    /\ tokens = [t \in Turns |-> NoToken] /\ reqs = [r \in Requests |-> NoReq]
GateAlone ==
    /\ rows = None /\ ops = None /\ cap = None /\ clock = None /\ items = None /\ raised = None /\ req = None
    /\ word = None /\ banding = None /\ bands = None /\ ceiling = None /\ pubs = None
    /\ first = None /\ passes = None /\ fails = None /\ said = None /\ queue = None
    /\ parked = None /\ settledFor = None /\ held = None /\ stopped = None /\ wanted = None
    /\ turn = None /\ stale = None
GateKept ==
    UNCHANGED <<part, rows, ops, cap, clock, items, raised, req, word, banding, bands, ceiling, pubs,
                first, passes, fails, said, queue, parked, settledFor, held, stopped, wanted,
                turn, stale>>
RowsAlone ==
    /\ GateStill /\ banding = None
    /\ bands = None /\ ceiling = None /\ pubs = None /\ first = None /\ passes = None
    /\ fails = None /\ said = None /\ queue = None /\ parked = None /\ settledFor = None
    /\ held = None /\ stopped = None /\ wanted = None /\ turn = None
RowsKept ==
    UNCHANGED <<part, policies, granted, tokens, reqs, ledger, banding, bands, ceiling, pubs, first,
                passes, fails, said, queue, parked, settledFor, held, stopped, wanted, turn>>
ConvertAlone ==
    /\ GateStill /\ left = None
    /\ ops = None /\ cap = None /\ clock = None /\ items = None /\ raised = None /\ req = None
    /\ word = None /\ queue = None /\ parked = None /\ settledFor = None /\ held = None
    /\ stopped = None /\ wanted = None /\ turn = None /\ stale = None
ConvertKept ==
    UNCHANGED <<part, policies, granted, tokens, reqs, ledger, left, ops, cap, clock, items, raised, req,
                word, queue, parked, settledFor, held, stopped, wanted, turn, stale>>
TalkAlone ==
    /\ GateStill /\ ops = None
    /\ cap = None /\ clock = None /\ items = None /\ raised = None /\ req = None /\ word = None
    /\ banding = None /\ bands = None /\ ceiling = None /\ pubs = None /\ first = None
    /\ passes = None /\ fails = None /\ said = None /\ stale = None
TalkKept ==
    UNCHANGED <<part, policies, granted, tokens, reqs, ledger, ops, cap, clock, items, raised, req, word,
                banding, bands, ceiling, pubs, first, passes, fails, said, stale>>

PartsInit ==
    \/ part = "gate" /\ Init /\ GateAlone
    \/ part = "rows_rules" /\ Rows_rules!Init /\ RowsAlone
    \/ part = "rows_mixed" /\ Rows_mixed!Init /\ RowsAlone
    \/ part = "rows_waits" /\ Rows_waits!Init /\ RowsAlone
    \/ part = "rows_choice" /\ Rows_choice!Init /\ RowsAlone
    \/ part = "rows_notice" /\ Rows_notice!Init /\ RowsAlone
    \/ part = "convert_shown" /\ Convert_shown!Init /\ ConvertAlone
    \/ part = "convert_passes" /\ Convert_passes!Init /\ ConvertAlone
    \/ part = "talk_words" /\ Talk_words!Init /\ TalkAlone
    \/ part = "talk_drops" /\ Talk_drops!Init /\ TalkAlone
    \/ part = "talk_asks" /\ Talk_asks!Init /\ TalkAlone
    \/ part = "talk_notes" /\ Talk_notes!Init /\ TalkAlone

PartsNext ==
    \/ On("gate") /\ Next /\ GateFew' /\ GateKept
    \/ On("rows_rules") /\ Rows_rules!Next /\ RowsKept
    \/ On("rows_mixed") /\ Rows_mixed!Next /\ RowsSpent(RowsMixing, 3)' /\ RowsKept
    \/ On("rows_waits") /\ Rows_waits!Next /\ RowsSpent(RowsWriting, 3)' /\ RowsKept
    \/ On("rows_choice") /\ Rows_choice!Next /\ RowsKept
    \/ On("rows_notice") /\ Rows_notice!Next /\ RowsSpent(RowsRacing, 3)' /\ RowsKept
    \/ On("convert_shown") /\ Convert_shown!Next /\ ConvertKept
    \/ On("convert_passes") /\ Convert_passes!Next /\ ConvertKept
    \/ On("talk_words") /\ Talk_words!Next /\ TalkKept
    \/ On("talk_drops") /\ Talk_drops!Next /\ TalkKept
    \/ On("talk_asks") /\ Talk_asks!Next /\ TalkKept
    \/ On("talk_notes") /\ Talk_notes!Next /\ TalkKept

PartsSpec == PartsInit /\ [][PartsNext]_all

Symmetric == Permutations({gate_r1, gate_r2, gate_r3}) \cup Permutations({gate_t1, gate_t2})

(* ------------------------------ properties ------------------------------ *)

\* What is written about an operation is what its requests meet: one put to "always asks"
\* asks, beside other writes, until the exclusion that keeps it is taken away or, where
\* nothing broader spoke and none was written, until a policy reaches it; an exclusion
\* overrides every inclusion, and nothing published after a broad policy was accepted is waved
\* through by it (rules.rs put, choose, accepted).
AsksStands ==
    /\ On("rows_rules") => Rows_rules!AsksStands
    /\ On("rows_mixed") => Rows_mixed!AsksStands /\ Rows_mixed!DenyOverrides
    /\ On("rows_choice") => Rows_choice!DenyOverrides /\ Rows_choice!NotWaved


\* The figure the page shows is the one the gateway holds a request to, risk only rises with
\* the amount (amount.rs most, under, risk), and what a policy lets out in a day adds up to no
\* more than it says (record).
UnderExact ==
    /\ On("gate") => WithinTotal
    /\ On("convert_shown") => Convert_shown!UnderExact /\ Convert_shown!RiskRises
    /\ On("convert_passes") => Convert_passes!TypeOK

\* Nothing is widened in passing: a running turn is never given more than it started with
\* (still_standing), a rule converted from a policy lets through no amount its policy did not,
\* and a second pass of the conversion finds nothing to do (convert.rs).
NeverWidened ==
    [][/\ On("gate") => NeverRegained
       /\ On("convert_passes") => Convert_passes!AmountHeld /\ Convert_passes!Harmless]_all

\* What a turn is sent of its conversation pairs every call with its result, tells what became
\* of an approved request once, and the mark of a summary hides nothing of the tail it left but
\* the rest of a reply it cut, or a message whose note it took; what is told in two notes at once
\* was settled in the order it was held in, or a note may part a call from its result
\* (projection.rs, summarize.rs boundary, trim.rs to_fit, compaction.rs summarized).
ConversationSound ==
    /\ On("talk_words") => Talk_words!ConversationSound
    /\ On("talk_drops") => Talk_drops!ConversationSound
    /\ On("talk_asks") => Talk_asks!ConversationSound
    /\ On("talk_notes") => Talk_notes!ConversationSound
=============================================================================
