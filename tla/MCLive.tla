------------------------------- MODULE MCLive --------------------------------
(*****************************************************************************)
(* What must happen at last: instances of the components whose progress the  *)
(* code's scheduling carries, for one run under fairness. A behaviour is one *)
(* component moving under one set of bounds, named by `part`, and the        *)
(* variables of the others are None.                                         *)
(*****************************************************************************)
EXTENDS Integers, Sequences, FiniteSets, TLC

CONSTANTS None, Never, Nobody, Nowhere, Reaper, turns_w1, wake_ann, wake_bob, wake_t1, wake_w1,
          breaker_a, breaker_c1, failover_e1, failover_e2, failover_m1, failover_m2,
          failover_q1, failover_r1, failover_r2, failover_r3, tokens_k1, tokens_r1,
          tokens_r2, conn_c1, conn_p1, conn_r1, conn_t1, feed_reader, feed_s1, feed_s2,
          feed_w1, docs_d1, docs_r1, docs_w1

VARIABLES part, sent, absorbed, job, rows, told, pod, left, ts, running, opened, notes, waits, ticks,
          waking, answers, pc, g, messages, reply, h, streamed, waiting, stopped, log, row,
          sightings, call, up, crashes, voices, grounds, lease, endpoint, model, fares,
          gone, shut, stop, changes, req, fallback, clock, slots, held, locked, reqs, print,
          revoked, refused, failed, rule, keys, members, machine, calls, turns, lis, heard,
          cache, about, writers, committed, channel, listening, missed, drops, readers, obj,
          text, made, jobs, work, count, conv, sweep, lost, raced, behind

all == <<part, sent, absorbed, job, rows, told, pod, left, ts, running, opened, notes, waits, ticks,
         waking, answers, pc, g, messages, reply, h, streamed, waiting, stopped, log, row,
         sightings, call, up, crashes, voices, grounds, lease, endpoint, model, fares, gone,
         shut, stop, changes, req, fallback, clock, slots, held, locked, reqs, print,
         revoked, refused, failed, rule, keys, members, machine, calls, turns, lis, heard,
         cache, about, writers, committed, channel, listening, missed, drops, readers, obj,
         text, made, jobs, work, count, conv, sweep, lost, raced, behind>>
On(p) == part = p

(* -------------------- TurnReplies -------------------- *)
TurnsTwoPrompts == {1, 2}

Turns_settles == INSTANCE TurnReplies WITH
    Prompts <- TurnsTwoPrompts, Pods <- {turns_w1}, MaxAttempts <- 2, MaxReleases <- 1,
    Crashes <- 1, Stalls <- 0, Retries <- 0, Parks <- 0, Backs <- 0

(* -------------------- Wake -------------------- *)
WakeSenderOf == [m \in {1, 2} |-> IF m = 2 THEN wake_bob ELSE wake_ann]
WakeZero == [lapse |-> 0, item |-> 0, enqueue |-> 0, reap |-> 0, fail |-> 0]
WakeWoken == [WakeZero EXCEPT !.reap = 1, !.item = 1]
WakeMessages == {1, 2}
WakeWaits == {wake_w1}

Wake_wakes == INSTANCE Wake WITH
    Messages <- WakeMessages , Sender <- WakeSenderOf, Waits <- WakeWaits , Ticks <- {wake_t1},
    Budget <- WakeWoken

(* -------------------- GuestTurn -------------------- *)
GuestC(name, args) == [name |-> name, args |-> args]
GuestR(words, called, finish) == [text |-> words, calls |-> called, finish |-> finish]
GuestOwn == {"describe_image", "fetch_url", "read_object"}
GuestFileOf(O) == [o \in O |-> IF o = "rooms_get" THEN "get" ELSE "book"]
\* Talking: text and none, a look at an image, a file read.
GuestTalking ==
    {GuestR("t", <<>>, "stop"), GuestR("none", <<>>, "none"), GuestR("t", <<GuestC("describe_image", "p")>>, "stop"),
     GuestR("none", <<GuestC("describe_image", "p"), GuestC("read_object", "x")>>, "stop"),
     GuestR("none", <<GuestC("fetch_url", "x"), GuestC("describe_image", "p")>>, "stop"),
     GuestR("t", <<GuestC("read_object", "x")>>, "length")}
GuestZero == [fail |-> 0, decline |-> 0, trap |-> 0, gate |-> 0, say |-> 0, stop |-> 0]
GuestRefusing == [GuestZero EXCEPT !.fail = 1, !.decline = 1, !.say = 1, !.stop = 1]

Guest_ends == INSTANCE GuestTurn WITH
    MaxRounds <- 3, Builtin <- GuestOwn,
    Ops <- {"rooms_get", "rooms_book", "halls_book", "read_object"},
    FileName <- GuestFileOf({"rooms_get", "rooms_book", "halls_book", "read_object"}),
    Documented <- {"halls_book", "gone"},
    Eager <- {"fetch_url", "describe_image", "read_object"}, Loaded <- {"get"},
    Replies <- GuestTalking, Arrivals <- {"m1", "m2"}, Budget <- GuestRefusing

(* -------------------- Breaker -------------------- *)
BreakerOneCall == {breaker_c1}

Breaker_recovers == INSTANCE Breaker WITH
    Calls <- BreakerOneCall, Callers <- {breaker_a}, FailureThreshold <- 2,
    BreadthThreshold <- 1, BreadthWindow <- 1, BaseBackoff <- 1, MaxBackoff <- 1,
    ProbeLease <- 1, RetiredFor <- 1, MaxLag <- 1, MaxCrashes <- 1

(* -------------------- Failover -------------------- *)
FailoverRequests1 == {failover_q1}
FailoverThreeRoutes == <<failover_r1, failover_r2, failover_r3>>
FailoverThreeEndpoints == failover_r1 :> failover_e1 @@ failover_r2 :> failover_e2 @@ failover_r3 :> failover_e1
FailoverThreeModels == failover_r1 :> failover_m1 @@ failover_r2 :> failover_m1 @@ failover_r3 :> failover_m2

Failover_walk == INSTANCE Failover WITH
    Requests <- FailoverRequests1, Chain <- FailoverThreeRoutes,
    Endpoint <- FailoverThreeEndpoints, Model <- FailoverThreeModels, MaxChanges <- 1

(* -------------------- ClientTokens -------------------- *)
TokensZero == [drop |-> 0, revoke |-> 0, rotate |-> 0]
TokensDropping == [TokensZero EXCEPT !.drop = 1]
TokensPair == [sealed |-> FALSE, variable |-> "set", key |-> "none", url |-> "https",
         opened |-> FALSE, address |-> "public"]
TokensOnePair == {TokensPair}
TokensGiven(life) == [transport |-> "ok", truncated |-> FALSE, status |-> 200, bearer |-> TRUE,
                expires_in |-> life]
TokensUnstated == TokensGiven(None)
TokensUnsure == {TokensUnstated, [TokensUnstated EXCEPT !.status = 500], [TokensUnstated EXCEPT !.status = 400]}
TokensRequests == {tokens_r1, tokens_r2}

Tokens_ends == INSTANCE ClientTokens WITH
    Requests <- TokensRequests , Prints <- {tokens_k1}, Configs <- TokensOnePair,
    Answers <- TokensUnsure, RefreshMargin <- 2, Share <- 2, UnstatedLifetime <- 5,
    FailureMemory <- 2, ExchangeTimeout <- 1, Trip <- 1, MaxTime <- 3, Budget <- TokensDropping

(* -------------------- Connections -------------------- *)
ConnZero == [calls |-> 0, seals |-> 0, revokes |-> 0, leave |-> 0, move |-> 0, lose |-> 0]
ConnR(owner, header, cred, env) == [there |-> TRUE, owner |-> owner, header |-> header, cred |-> cred,
                                env |-> env, obo |-> FALSE]
ConnAskers == {ConnR("asker", "h1", None, FALSE)}
ConnCaching == [ConnZero EXCEPT !.calls = 2, !.seals = 2, !.revokes = 1, !.lose = 2]

Conn_forgets == INSTANCE Connections WITH
    People <- {conn_p1}, Machines <- {}, Keys <- {1}, Headers <- {"h1"}, Turns <- {conn_t1},
    Requests <- {conn_r1}, Calls <- {conn_c1}, Creates <- ConnAskers,
    Budget <- ConnCaching

(* -------------------- EventFeed -------------------- *)
FeedReaders == {feed_reader}
FeedReachOf == [r \in FeedReaders |-> {feed_s1, feed_s2}]

Feed_delivered == INSTANCE EventFeed WITH
    Writers <- {feed_w1}, Readers <- FeedReaders , Sessions <- {feed_s1, feed_s2},
    Reach <- FeedReachOf, Narrowed <- {}, MaxEvents <- 2, Limit <- 1, Cap <- 1, Drops <- 1

(* -------------------- Documents -------------------- *)
DocsVersions == 1..2
DocsGrowing == [v \in DocsVersions |-> v]
DocsZero == [photo |-> 0, pod |-> 0, store |-> 0, enqueue |-> 0, listing |-> 0, tika |-> 0,
         lapse |-> 0, recount |-> 0, turn |-> 0]
DocsSettling == [DocsZero EXCEPT !.tika = 2, !.turn = 1]
DocsIdling == [DocsZero EXCEPT !.lapse = 1, !.turn = 1]
DocsDocs == {docs_d1}

Docs_settles == INSTANCE Documents WITH
    Docs <- DocsDocs , MaxVersion <- 2, Size <- DocsGrowing, Quota <- 0, Tika <- TRUE,
    Requests <- {docs_r1}, Workers <- {docs_w1}, JobIds <- {1, 2}, MaxAttempts <- 2,
    Kinds <- {"upload", "delete", "guest"}, Overlap <- {}, Budget <- DocsSettling
Docs_swept == INSTANCE Documents WITH
    Docs <- DocsDocs , MaxVersion <- 2, Size <- DocsGrowing, Quota <- 0, Tika <- TRUE,
    Requests <- {docs_r1}, Workers <- {docs_w1}, JobIds <- {1, 2}, MaxAttempts <- 2,
    Kinds <- {"upload", "sweep"}, Overlap <- {}, Budget <- DocsIdling

ASSUME InstancesAssumption ==
    /\ Turns_settles!PromptsAssumption /\ Wake_wakes!WakeAssumption
    /\ Guest_ends!GuestTurnAssumption /\ Failover_walk!ChainAssumption
    /\ Tokens_ends!TimesAssumption /\ Docs_settles!DocumentsAssumption
    /\ Docs_swept!DocumentsAssumption

(* The parts: one component moves, and the variables of the others are None. *)
TurnsAlone ==
    /\ ts = None /\ running = None /\ opened = None /\ notes = None /\ waits = None
    /\ ticks = None /\ waking = None /\ answers = None /\ pc = None /\ g = None
    /\ messages = None /\ reply = None /\ h = None /\ streamed = None /\ waiting = None
    /\ stopped = None /\ log = None /\ row = None /\ sightings = None /\ call = None
    /\ up = None /\ crashes = None /\ voices = None /\ grounds = None /\ lease = None
    /\ endpoint = None /\ model = None /\ fares = None /\ gone = None /\ shut = None
    /\ stop = None /\ changes = None /\ req = None /\ fallback = None /\ clock = None
    /\ slots = None /\ held = None /\ locked = None /\ reqs = None /\ print = None
    /\ revoked = None /\ refused = None /\ failed = None /\ rule = None /\ keys = None
    /\ members = None /\ machine = None /\ calls = None /\ turns = None /\ lis = None
    /\ heard = None /\ cache = None /\ about = None /\ writers = None /\ committed = None
    /\ channel = None /\ listening = None /\ missed = None /\ drops = None /\ readers = None
    /\ obj = None /\ text = None /\ made = None /\ jobs = None /\ work = None /\ count = None
    /\ conv = None /\ sweep = None /\ lost = None /\ raced = None /\ behind = None
TurnsKept ==
    UNCHANGED <<part, ts, running, opened, notes, waits, ticks, waking, answers, pc, g, messages,
                reply, h, streamed, waiting, stopped, log, row, sightings, call, up, crashes,
                voices, grounds, lease, endpoint, model, fares, gone, shut, stop, changes, req,
                fallback, clock, slots, held, locked, reqs, print, revoked, refused, failed,
                rule, keys, members, machine, calls, turns, lis, heard, cache, about, writers,
                committed, channel, listening, missed, drops, readers, obj, text, made, jobs,
                work, count, conv, sweep, lost, raced, behind>>
WakeAlone ==
    /\ sent = None /\ job = None /\ rows = None /\ told = None /\ pod = None /\ pc = None
    /\ g = None /\ messages = None /\ reply = None /\ h = None /\ streamed = None
    /\ waiting = None /\ stopped = None /\ log = None /\ row = None /\ sightings = None
    /\ call = None /\ up = None /\ crashes = None /\ voices = None /\ grounds = None
    /\ lease = None /\ endpoint = None /\ model = None /\ fares = None /\ gone = None
    /\ shut = None /\ stop = None /\ changes = None /\ req = None /\ fallback = None
    /\ clock = None /\ slots = None /\ held = None /\ locked = None /\ reqs = None
    /\ print = None /\ revoked = None /\ refused = None /\ failed = None /\ rule = None
    /\ keys = None /\ members = None /\ machine = None /\ calls = None /\ turns = None
    /\ lis = None /\ heard = None /\ cache = None /\ about = None /\ writers = None
    /\ committed = None /\ channel = None /\ listening = None /\ missed = None /\ drops = None
    /\ readers = None /\ obj = None /\ text = None /\ made = None /\ jobs = None /\ work = None
    /\ count = None /\ conv = None /\ sweep = None /\ lost = None /\ raced = None /\ behind = None
WakeKept ==
    UNCHANGED <<part, sent, job, rows, told, pod, pc, g, messages, reply, h, streamed, waiting,
                stopped, log, row, sightings, call, up, crashes, voices, grounds, lease,
                endpoint, model, fares, gone, shut, stop, changes, req, fallback, clock, slots,
                held, locked, reqs, print, revoked, refused, failed, rule, keys, members,
                machine, calls, turns, lis, heard, cache, about, writers, committed, channel,
                listening, missed, drops, readers, obj, text, made, jobs, work, count, conv,
                sweep, lost, raced, behind>>
GuestAlone ==
    /\ sent = None /\ absorbed = None /\ job = None /\ rows = None /\ told = None /\ pod = None
    /\ ts = None /\ running = None /\ opened = None /\ notes = None /\ waits = None
    /\ ticks = None /\ waking = None /\ answers = None /\ row = None /\ sightings = None
    /\ call = None /\ up = None /\ crashes = None /\ voices = None /\ grounds = None
    /\ lease = None /\ endpoint = None /\ model = None /\ fares = None /\ gone = None
    /\ shut = None /\ stop = None /\ changes = None /\ req = None /\ fallback = None
    /\ clock = None /\ slots = None /\ held = None /\ locked = None /\ reqs = None
    /\ print = None /\ revoked = None /\ refused = None /\ failed = None /\ rule = None
    /\ keys = None /\ members = None /\ machine = None /\ calls = None /\ turns = None
    /\ lis = None /\ heard = None /\ cache = None /\ about = None /\ writers = None
    /\ committed = None /\ channel = None /\ listening = None /\ missed = None /\ drops = None
    /\ readers = None /\ obj = None /\ text = None /\ made = None /\ jobs = None /\ work = None
    /\ count = None /\ conv = None /\ sweep = None /\ lost = None /\ raced = None /\ behind = None
GuestKept ==
    UNCHANGED <<part, sent, absorbed, job, rows, told, pod, ts, running, opened, notes, waits,
                ticks, waking, answers, row, sightings, call, up, crashes, voices, grounds,
                lease, endpoint, model, fares, gone, shut, stop, changes, req, fallback, clock,
                slots, held, locked, reqs, print, revoked, refused, failed, rule, keys, members,
                machine, calls, turns, lis, heard, cache, about, writers, committed, channel,
                listening, missed, drops, readers, obj, text, made, jobs, work, count, conv,
                sweep, lost, raced, behind>>
BreakerAlone ==
    /\ sent = None /\ absorbed = None /\ job = None /\ rows = None /\ told = None /\ pod = None
    /\ left = None /\ ts = None /\ running = None /\ opened = None /\ notes = None
    /\ waits = None /\ ticks = None /\ waking = None /\ answers = None /\ pc = None /\ g = None
    /\ messages = None /\ reply = None /\ h = None /\ streamed = None /\ waiting = None
    /\ stopped = None /\ log = None /\ endpoint = None /\ model = None /\ fares = None
    /\ gone = None /\ shut = None /\ stop = None /\ changes = None /\ req = None
    /\ fallback = None /\ clock = None /\ slots = None /\ held = None /\ locked = None
    /\ reqs = None /\ print = None /\ revoked = None /\ refused = None /\ failed = None
    /\ rule = None /\ keys = None /\ members = None /\ machine = None /\ calls = None
    /\ turns = None /\ lis = None /\ heard = None /\ cache = None /\ about = None
    /\ writers = None /\ committed = None /\ channel = None /\ listening = None /\ missed = None
    /\ drops = None /\ readers = None /\ obj = None /\ text = None /\ made = None /\ jobs = None
    /\ work = None /\ count = None /\ conv = None /\ sweep = None /\ lost = None /\ raced = None /\ behind = None
BreakerKept ==
    UNCHANGED <<part, sent, absorbed, job, rows, told, pod, left, ts, running, opened, notes,
                waits, ticks, waking, answers, pc, g, messages, reply, h, streamed, waiting,
                stopped, log, endpoint, model, fares, gone, shut, stop, changes, req, fallback,
                clock, slots, held, locked, reqs, print, revoked, refused, failed, rule, keys,
                members, machine, calls, turns, lis, heard, cache, about, writers, committed,
                channel, listening, missed, drops, readers, obj, text, made, jobs, work, count,
                conv, sweep, lost, raced, behind>>
FailoverAlone ==
    /\ sent = None /\ absorbed = None /\ job = None /\ rows = None /\ told = None /\ pod = None
    /\ left = None /\ ts = None /\ running = None /\ opened = None /\ notes = None
    /\ waits = None /\ ticks = None /\ waking = None /\ answers = None /\ pc = None /\ g = None
    /\ messages = None /\ reply = None /\ h = None /\ streamed = None /\ waiting = None
    /\ stopped = None /\ log = None /\ row = None /\ sightings = None /\ call = None
    /\ up = None /\ crashes = None /\ voices = None /\ grounds = None /\ lease = None
    /\ clock = None /\ slots = None /\ held = None /\ locked = None /\ reqs = None
    /\ print = None /\ revoked = None /\ refused = None /\ failed = None /\ rule = None
    /\ keys = None /\ members = None /\ machine = None /\ calls = None /\ turns = None
    /\ lis = None /\ heard = None /\ cache = None /\ about = None /\ writers = None
    /\ committed = None /\ channel = None /\ listening = None /\ missed = None /\ drops = None
    /\ readers = None /\ obj = None /\ text = None /\ made = None /\ jobs = None /\ work = None
    /\ count = None /\ conv = None /\ sweep = None /\ lost = None /\ raced = None /\ behind = None
FailoverKept ==
    UNCHANGED <<part, sent, absorbed, job, rows, told, pod, left, ts, running, opened, notes,
                waits, ticks, waking, answers, pc, g, messages, reply, h, streamed, waiting,
                stopped, log, row, sightings, call, up, crashes, voices, grounds, lease, clock,
                slots, held, locked, reqs, print, revoked, refused, failed, rule, keys, members,
                machine, calls, turns, lis, heard, cache, about, writers, committed, channel,
                listening, missed, drops, readers, obj, text, made, jobs, work, count, conv,
                sweep, lost, raced, behind>>
TokensAlone ==
    /\ sent = None /\ absorbed = None /\ job = None /\ rows = None /\ told = None /\ pod = None
    /\ ts = None /\ running = None /\ opened = None /\ notes = None /\ waits = None
    /\ ticks = None /\ waking = None /\ answers = None /\ pc = None /\ g = None
    /\ messages = None /\ reply = None /\ h = None /\ streamed = None /\ waiting = None
    /\ stopped = None /\ log = None /\ row = None /\ sightings = None /\ call = None
    /\ up = None /\ crashes = None /\ voices = None /\ grounds = None /\ lease = None
    /\ endpoint = None /\ model = None /\ fares = None /\ gone = None /\ shut = None
    /\ stop = None /\ changes = None /\ req = None /\ fallback = None /\ rule = None
    /\ keys = None /\ members = None /\ machine = None /\ calls = None /\ turns = None
    /\ lis = None /\ heard = None /\ cache = None /\ about = None /\ writers = None
    /\ committed = None /\ channel = None /\ listening = None /\ missed = None /\ drops = None
    /\ readers = None /\ obj = None /\ text = None /\ made = None /\ jobs = None /\ work = None
    /\ count = None /\ conv = None /\ sweep = None /\ lost = None /\ raced = None /\ behind = None
TokensKept ==
    UNCHANGED <<part, sent, absorbed, job, rows, told, pod, ts, running, opened, notes, waits,
                ticks, waking, answers, pc, g, messages, reply, h, streamed, waiting, stopped,
                log, row, sightings, call, up, crashes, voices, grounds, lease, endpoint, model,
                fares, gone, shut, stop, changes, req, fallback, rule, keys, members, machine,
                calls, turns, lis, heard, cache, about, writers, committed, channel, listening,
                missed, drops, readers, obj, text, made, jobs, work, count, conv, sweep, lost, raced, behind>>
ConnAlone ==
    /\ sent = None /\ absorbed = None /\ job = None /\ rows = None /\ told = None /\ pod = None
    /\ ts = None /\ running = None /\ opened = None /\ waits = None /\ ticks = None
    /\ waking = None /\ answers = None /\ pc = None /\ g = None /\ messages = None
    /\ reply = None /\ h = None /\ streamed = None /\ waiting = None /\ stopped = None
    /\ log = None /\ row = None /\ sightings = None /\ call = None /\ up = None
    /\ crashes = None /\ voices = None /\ grounds = None /\ lease = None /\ endpoint = None
    /\ model = None /\ fares = None /\ gone = None /\ shut = None /\ stop = None
    /\ changes = None /\ req = None /\ fallback = None /\ clock = None /\ slots = None
    /\ held = None /\ locked = None /\ print = None /\ revoked = None /\ refused = None
    /\ failed = None /\ about = None /\ writers = None /\ committed = None /\ channel = None
    /\ listening = None /\ missed = None /\ drops = None /\ readers = None /\ obj = None
    /\ text = None /\ made = None /\ jobs = None /\ work = None /\ count = None /\ conv = None
    /\ sweep = None /\ lost = None /\ behind = None
ConnKept ==
    UNCHANGED <<part, sent, absorbed, job, rows, told, pod, ts, running, opened, waits, ticks,
                waking, answers, pc, g, messages, reply, h, streamed, waiting, stopped, log, row,
                sightings, call, up, crashes, voices, grounds, lease, endpoint, model, fares,
                gone, shut, stop, changes, req, fallback, clock, slots, held, locked, print,
                revoked, refused, failed, about, writers, committed, channel, listening, missed,
                drops, readers, obj, text, made, jobs, work, count, conv, sweep, lost, behind>>
FeedAlone ==
    /\ sent = None /\ absorbed = None /\ job = None /\ rows = None /\ told = None /\ pod = None
    /\ left = None /\ ts = None /\ running = None /\ opened = None /\ notes = None
    /\ waits = None /\ ticks = None /\ waking = None /\ answers = None /\ pc = None /\ g = None
    /\ messages = None /\ reply = None /\ h = None /\ streamed = None /\ waiting = None
    /\ stopped = None /\ log = None /\ row = None /\ sightings = None /\ call = None
    /\ up = None /\ crashes = None /\ voices = None /\ grounds = None /\ lease = None
    /\ endpoint = None /\ model = None /\ fares = None /\ gone = None /\ shut = None
    /\ stop = None /\ changes = None /\ req = None /\ fallback = None /\ slots = None
    /\ held = None /\ locked = None /\ reqs = None /\ print = None /\ revoked = None
    /\ refused = None /\ failed = None /\ rule = None /\ keys = None /\ members = None
    /\ machine = None /\ calls = None /\ turns = None /\ lis = None /\ heard = None
    /\ cache = None /\ obj = None /\ text = None /\ made = None /\ jobs = None /\ work = None
    /\ count = None /\ conv = None /\ sweep = None /\ lost = None /\ raced = None /\ behind = None
FeedKept ==
    UNCHANGED <<part, sent, absorbed, job, rows, told, pod, left, ts, running, opened, notes,
                waits, ticks, waking, answers, pc, g, messages, reply, h, streamed, waiting,
                stopped, log, row, sightings, call, up, crashes, voices, grounds, lease,
                endpoint, model, fares, gone, shut, stop, changes, req, fallback, slots, held,
                locked, reqs, print, revoked, refused, failed, rule, keys, members, machine,
                calls, turns, lis, heard, cache, obj, text, made, jobs, work, count, conv, sweep,
                lost, raced, behind>>
DocsAlone ==
    /\ sent = None /\ absorbed = None /\ job = None /\ told = None /\ pod = None /\ ts = None
    /\ running = None /\ opened = None /\ notes = None /\ waits = None /\ ticks = None
    /\ waking = None /\ answers = None /\ pc = None /\ g = None /\ messages = None
    /\ reply = None /\ h = None /\ streamed = None /\ waiting = None /\ stopped = None
    /\ log = None /\ row = None /\ sightings = None /\ call = None /\ up = None
    /\ crashes = None /\ voices = None /\ grounds = None /\ lease = None /\ endpoint = None
    /\ model = None /\ fares = None /\ gone = None /\ shut = None /\ stop = None
    /\ changes = None /\ req = None /\ fallback = None /\ clock = None /\ slots = None
    /\ held = None /\ locked = None /\ print = None /\ revoked = None /\ refused = None
    /\ rule = None /\ keys = None /\ members = None /\ machine = None /\ calls = None
    /\ turns = None /\ lis = None /\ heard = None /\ cache = None /\ about = None
    /\ writers = None /\ committed = None /\ channel = None /\ listening = None /\ missed = None
    /\ drops = None /\ readers = None /\ raced = None
DocsKept ==
    UNCHANGED <<part, sent, absorbed, job, told, pod, ts, running, opened, notes, waits, ticks,
                waking, answers, pc, g, messages, reply, h, streamed, waiting, stopped, log, row,
                sightings, call, up, crashes, voices, grounds, lease, endpoint, model, fares,
                gone, shut, stop, changes, req, fallback, clock, slots, held, locked, print,
                revoked, refused, rule, keys, members, machine, calls, turns, lis, heard, cache,
                about, writers, committed, channel, listening, missed, drops, readers, raced>>

Init ==
    \/ part = "turns_settles" /\ Turns_settles!Init /\ TurnsAlone
    \/ part = "wake_wakes" /\ Wake_wakes!Init /\ WakeAlone
    \/ part = "guest_ends" /\ Guest_ends!Init /\ GuestAlone
    \/ part = "breaker_recovers" /\ Breaker_recovers!Init /\ BreakerAlone
    \/ part = "failover_walk" /\ Failover_walk!Init /\ FailoverAlone
    \/ part = "tokens_ends" /\ Tokens_ends!Init /\ TokensAlone
    \/ part = "conn_forgets" /\ Conn_forgets!Init /\ ConnAlone
    \/ part = "feed_delivered" /\ Feed_delivered!Init /\ FeedAlone
    \/ part = "docs_settles" /\ Docs_settles!Init /\ DocsAlone
    \/ part = "docs_swept" /\ Docs_swept!Init /\ DocsAlone

Next ==
    \/ On("turns_settles") /\ Turns_settles!Next /\ TurnsKept
    \/ On("wake_wakes") /\ Wake_wakes!Next /\ WakeKept
    \/ On("guest_ends") /\ Guest_ends!Next /\ GuestKept
    \/ On("breaker_recovers") /\ Breaker_recovers!Next /\ BreakerKept
    \/ On("failover_walk") /\ Failover_walk!Next /\ FailoverKept
    \/ On("tokens_ends") /\ Tokens_ends!Next /\ TokensKept
    \/ On("conn_forgets") /\ Conn_forgets!Next /\ ConnKept
    \/ On("feed_delivered") /\ Feed_delivered!Next /\ FeedKept
    \/ On("docs_settles") /\ Docs_settles!Next /\ DocsKept
    \/ On("docs_swept") /\ Docs_swept!Next /\ DocsKept

Spec == Init /\ [][Next]_all

(* What the code's scheduling gives: a step that stays possible is taken.  A behaviour keeps its
   part, so each of these is one condition on each part: pods and the sweep go on with what they
   took, handlers run to their end, loops and listeners come round, and time passes.  Nobody has
   to write, answer or edit anything, and nothing is asked of a provider. *)
FirstActor ==
    \/ On("turns_settles") /\ Turns_settles!Turn(turns_w1) /\ TurnsKept
    \/ On("wake_wakes") /\ Wake_wakes!Arrange(wake_w1) /\ WakeKept
    \/ On("guest_ends") /\ Guest_ends!Turn /\ GuestKept
    \/ On("breaker_recovers") /\ Breaker_recovers!Step(breaker_c1) /\ BreakerKept
    \/ On("tokens_ends") /\ Tokens_ends!Step(tokens_r1) /\ TokensKept
    \/ On("failover_walk") /\ Failover_walk!Cut(failover_q1) /\ FailoverKept
    \/ On("conn_forgets") /\ Conn_forgets!Listen /\ ConnKept
    \/ On("feed_delivered") /\ (\/ Feed_delivered!Commit(feed_w1) \/ Feed_delivered!append(feed_w1)
         \/ Feed_delivered!PgNotify(feed_w1) \/ Feed_delivered!Rollback(feed_w1)) /\ FeedKept
    \/ On("docs_settles") /\ Docs_settles!Handle /\ DocsKept
    \/ On("docs_swept") /\ Docs_swept!Handle /\ DocsKept
SecondActor ==
    \/ On("turns_settles") /\ Turns_settles!Abandon(Reaper) /\ TurnsKept
    \/ On("wake_wakes") /\ Wake_wakes!Turn /\ WakeKept
    \/ On("breaker_recovers") /\ Breaker_recovers!Tick /\ BreakerKept
    \/ On("tokens_ends") /\ Tokens_ends!Step(tokens_r2) /\ TokensKept
    \/ On("failover_walk") /\ Failover_walk!Poll(failover_q1) /\ FailoverKept
    \/ On("conn_forgets") /\ Conn_forgets!Trust /\ ConnKept
    \/ On("feed_delivered") /\ Feed_delivered!Listen /\ FeedKept
    \/ On("docs_settles") /\ Docs_settles!Extract /\ DocsKept
    \/ On("docs_swept") /\ Docs_swept!GrowOld /\ DocsKept
ThirdActor ==
    \/ On("turns_settles") /\ Turns_settles!Reap(1) /\ TurnsKept
    \/ On("wake_wakes") /\ Wake_wakes!Fire(wake_t1) /\ WakeKept
    \/ On("failover_walk") /\ Failover_walk!ComeDue /\ FailoverKept
    \/ On("conn_forgets") /\ Conn_forgets!Invalidate /\ ConnKept
    \/ On("feed_delivered") /\ Feed_delivered!listen_loop /\ FeedKept
    \/ On("docs_settles") /\ Docs_settles!Sweep /\ DocsKept
    \/ On("docs_swept") /\ Docs_swept!Sweep /\ DocsKept
FourthActor ==
    \/ On("turns_settles") /\ Turns_settles!Reap(2) /\ TurnsKept
    \/ On("failover_walk") /\ Failover_walk!AdmitEndpoint(failover_q1) /\ FailoverKept
    \/ On("conn_forgets") /\ Conn_forgets!Distrust /\ ConnKept
    \/ On("feed_delivered") /\ Feed_delivered!Poll(feed_reader) /\ FeedKept
    \/ On("docs_settles") /\ Docs_settles!EndTurn /\ DocsKept
    \/ On("docs_swept") /\ Docs_swept!EndTurn /\ DocsKept
FifthActor ==
    \/ On("failover_walk") /\ Failover_walk!AdmitModel(failover_q1) /\ FailoverKept
    \/ On("feed_delivered") /\ Feed_delivered!Timeout(feed_reader) /\ FeedKept

FairSpec ==
    /\ Spec /\ WF_all(FirstActor) /\ WF_all(SecondActor) /\ WF_all(ThirdActor)
    /\ WF_all(FourthActor) /\ WF_all(FifthActor)

(* ------------------------------ properties ------------------------------ *)

(* What is waiting in a part, and what it waits for.  A part with several things to wait for
   has one under each number, and a behaviour keeps its part, so Asked(i) ~> Served(i) speaks of
   the i-th thing of every part. *)
Asked(i) ==
    \/ On("turns_settles") /\ i \in {1, 2} /\ job[i].st = "pending"
    \/ On("wake_wakes") /\ i \in 1..3 /\ (IF i = 3 THEN waits[wake_w1].hold ELSE ts[i] # "none")
    \/ On("guest_ends") /\ i = 1
    \/ On("breaker_recovers") /\ i = 1 /\ row.state # "closed"
    \/ On("failover_walk") /\ i = 1 /\ stop # "none" /\ req[failover_q1].pc \in {"calling", "streaming"}
    \/ On("tokens_ends") /\ i \in {1, 2} /\ Tokens_ends!At(<<tokens_r1, tokens_r2>>[i], "waiting")
    \/ On("conn_forgets") /\ i = 1 /\ cache.entries[1] # None /\ ~Conn_forgets!Live(1)
    \/ On("feed_delivered") /\ i \in 1..2 /\ i \in committed /\ Feed_delivered!Shown(feed_reader, i)
    \/ On("docs_settles") /\ i \in {1, 2} /\ obj[docs_d1] = i
    \/ On("docs_swept") /\ i = 1 /\ conv.old /\ ~conv.turn /\ obj[docs_d1] # 0
Served(i) ==
    \/ On("turns_settles") /\ i \in {1, 2} /\ job[i].st \in Turns_settles!Over
    \/ On("wake_wakes") /\ i \in 1..3 /\ (IF i = 3 THEN ~waits[wake_w1].hold ELSE answers[i] > 0)
    \/ On("guest_ends") /\ pc = "done"
    \/ On("breaker_recovers") /\ (row.state = "closed" \/ ~up)
    \/ On("failover_walk") /\ (stop = "none" \/ req[failover_q1].pc \in Failover_walk!Ended)
    \/ On("tokens_ends") /\ i \in {1, 2} /\ Tokens_ends!At(<<tokens_r1, tokens_r2>>[i], "done")
    \/ On("conn_forgets") /\ (cache.entries[1] = None \/ Conn_forgets!Live(1))
    \/ On("feed_delivered") /\ i \in readers[feed_reader].seen
    \/ On("docs_settles") /\ (text[docs_d1] = i \/ failed[docs_d1] \/ obj[docs_d1] # i)
    \/ On("docs_swept") /\ (~conv.old \/ conv.turn \/ obj[docs_d1] = 0)

\* What is waiting is served at last: a turn that was asked for is answered or failed, whoever
\* died with it (worker/turn.rs, the reaper); a wait ends and what was said to a sleeping agent
\* is answered (wake.rs); a guest's turn ends (agents/default lib.rs); a circuit closes while its
\* endpoint stays up (breaker); a stop ends a request whose provider is silent (gateway
\* router.rs); a request that waits for a token has its answer (client.rs) and a revoked key
\* leaves the cache (egress credentials); a committed event reaches its reader (events/store.rs);
\* a document is read or marked (documents.rs), and one left alone is swept.
WorkEnds == \A i \in 1..3 : Asked(i) ~> Served(i)
=============================================================================
