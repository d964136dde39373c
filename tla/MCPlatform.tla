----------------------------- MODULE MCPlatform ------------------------------
(*****************************************************************************)
(* EventFeed, and instances of GuestTurn, Puller, CompiledCache, Triggers    *)
(* and Cron, for one run: a behaviour is one component moving under one set  *)
(* of bounds, named by `part`, and the variables of the others are None, or  *)
(* as EventFeed begins. Components that name a variable alike share it.      *)
(*****************************************************************************)
EXTENDS EventFeed, TLC

CONSTANTS None, feed_all, feed_narrow, feed_s1, feed_s2, x1, x2, pull_j1, pull_j2, pull_j3, cache_k1,
          cache_k2, x3, triggers_a1, triggers_h1, triggers_m1, triggers_s1, triggers_s2

VARIABLES part, pc, g, messages, reply, h, streamed, waiting, stopped, log, left, jobs, pods,
          reserved, turns, entries, locks, gates, handles, askers, built, now, sched, hook,
          window, running, firings, deliveries, starts, told, work, edit, cron, zone, start,
          next, ran, skipped

all == <<part, clock, about, writers, committed, channel, listening, missed, drops, readers, pc, g,
         messages, reply, h, streamed, waiting, stopped, log, left, jobs, pods, reserved,
         turns, entries, locks, gates, handles, askers, built, now, sched, hook, window,
         running, firings, deliveries, starts, told, work, edit, cron, zone, start, next,
         ran, skipped>>
On(p) == part = p

(* -------------------- EventFeed -------------------- *)
FeedReachOf == [r \in {feed_all, feed_narrow} |-> IF r = feed_narrow THEN {feed_s1} ELSE {feed_s1, feed_s2}]

(* -------------------- GuestTurn -------------------- *)
GuestC(name, args) == [name |-> name, args |-> args]
GuestR(text, calls, finish) == [text |-> text, calls |-> calls, finish |-> finish]
GuestOwn == {"describe_image", "fetch_url", "read_object"}
GuestFileOf(O) == [o \in O |-> IF o = "rooms_get" THEN "get" ELSE "book"]
\* Loading, guessing and running: a load by a tool's name and by a file's,
\* a call never loaded, a name that is no tool, a reply cut short.
GuestCalling ==
    {GuestR("t", <<>>, "stop"), GuestR("none", <<GuestC("load_tools", "get"), GuestC("rooms_get", "bad")>>, "stop"),
     GuestR("t", <<GuestC("rooms_book", "x"), GuestC("fetch_url", "x")>>, "stop"),
     GuestR("none", <<GuestC("load_tools", "book"), GuestC("fetch_url", "x")>>, "stop"),
     GuestR("t", <<GuestC("load_tools", "rooms_book"), GuestC("gone", "x")>>, "length"),
     GuestR("none", <<GuestC("gone", "x")>>, "none")}
\* Talking: text and none, a look at an image, a file read.
GuestTalking ==
    {GuestR("t", <<>>, "stop"), GuestR("none", <<>>, "none"), GuestR("t", <<GuestC("describe_image", "p")>>, "stop"),
     GuestR("none", <<GuestC("describe_image", "p"), GuestC("read_object", "x")>>, "stop"),
     GuestR("none", <<GuestC("fetch_url", "x"), GuestC("describe_image", "p")>>, "stop"),
     GuestR("t", <<GuestC("read_object", "x")>>, "length")}
GuestZero == [fail |-> 0, decline |-> 0, trap |-> 0, gate |-> 0, say |-> 0, stop |-> 0]
GuestFailing == [GuestZero EXCEPT !.fail = 2, !.gate = 1, !.trap = 1, !.say = 1]
GuestSteering == [GuestZero EXCEPT !.say = 2, !.stop = 1, !.gate = 1]

Guest_calls == INSTANCE GuestTurn WITH
    MaxRounds <- 3, Builtin <- GuestOwn,
    Ops <- {"rooms_get", "rooms_book", "halls_book", "read_object"},
    FileName <- GuestFileOf({"rooms_get", "rooms_book", "halls_book", "read_object"}),
    Documented <- {"halls_book", "gone"}, Eager <- {"fetch_url", "gone"}, Loaded <- {"get"},
    Replies <- GuestCalling, Arrivals <- {"m1", "m2"}, Budget <- GuestFailing
Guest_input == INSTANCE GuestTurn WITH
    MaxRounds <- 3, Builtin <- GuestOwn,
    Ops <- {"rooms_get", "rooms_book", "halls_book", "read_object"},
    FileName <- GuestFileOf({"rooms_get", "rooms_book", "halls_book", "read_object"}),
    Documented <- {"halls_book", "gone"},
    Eager <- {"fetch_url", "describe_image", "read_object"}, Loaded <- {"get"},
    Replies <- GuestTalking, Arrivals <- {"m1", "m2"}, Budget <- GuestSteering

(* -------------------- Puller -------------------- *)
PullZero == [api |-> 0, stop |-> 0, report |-> 0, lost |-> 0, lapse |-> 0]
PullCalm == [PullZero EXCEPT !.api = 1]
PullGiven == [PullZero EXCEPT !.report = 1]
PullLosing == [PullZero EXCEPT !.report = 1, !.lost = 1, !.lapse = 1, !.stop = 1]

Pull_fits == INSTANCE Puller WITH
    Pods <- {x1}, Jobs <- {pull_j1, pull_j2, pull_j3}, Limit <- 3, Mem <- 6, Reserve <- 1,
    Assumed <- 2, Extra <- 2, MaxLeases <- 1, Budget <- PullCalm
Pull_given == INSTANCE Puller WITH
    Pods <- {x1}, Jobs <- {pull_j1, pull_j2}, Limit <- 2, Mem <- 5, Reserve <- 1,
    Assumed <- 2, Extra <- 2, MaxLeases <- 1, Budget <- PullGiven
Pull_stops == INSTANCE Puller WITH
    Pods <- {x1, x2}, Jobs <- {pull_j1}, Limit <- 1, Mem <- 9, Reserve <- 1, Assumed <- 2,
    Extra <- 0, MaxLeases <- 2, Budget <- PullLosing

(* -------------------- CompiledCache -------------------- *)
CacheAgeing == [fail |-> 1, idle |-> 1]

Cache_once == INSTANCE CompiledCache WITH
    Keys <- {cache_k1, cache_k2}, Askers <- {x1, x2, x3}, Entries <- 2, Budget <- CacheAgeing

(* -------------------- Triggers -------------------- *)
TriggersNoSenders == [m \in {} |-> {}]
TriggersSigned(bodies, stamps) ==
    {p \in [t : {triggers_h1}, body : bodies, named : BOOLEAN, sent : stamps] : p.named = (p.body # "b")}
TriggersTwoEvents == TriggersSigned({"a", "b"}, {0, 1})
TriggersOneNamed == TriggersSigned({"a"}, {0, 1, 2})
\* Mail from a domain, its parent, its neighbour and its suffix.
TriggersOrg == <<"com", "org">>
TriggersLetter(id, user, domain, origin, written) ==
    [t |-> triggers_m1, id |-> id, user |-> user, domain |-> domain, origin |-> origin, written |-> written]
TriggersForged(domain) == {[method |-> "dmarc", pass |-> TRUE, domain |-> domain]}
TriggersPosted ==
    {TriggersLetter("i1", "ann", TriggersOrg, o, TriggersForged(TriggersOrg)) : o \in {TriggersOrg, <<"com">>, <<"com", "else">>}}
        \cup {TriggersLetter("i2", u, Append(TriggersOrg, "eu"), TriggersOrg, {}) : u \in {"ann", "bob"}}
        \cup {TriggersLetter("i3", "ann", <<"com", "else">>, <<"com", "else">>, {})}
TriggersAllowed == [m \in {triggers_m1} |-> {<<"@", TriggersOrg>>, <<"ann", Append(TriggersOrg, "eu")>>}]
TriggersZero == [fail |-> 0, release |-> 0, crash |-> 0, record |-> 0, edit |-> 0, create |-> 0, send |-> 0]
TriggersRefusing == [TriggersZero EXCEPT !.send = 3, !.fail = 1]
TriggersCrashing == [TriggersZero EXCEPT !.send = 3, !.crash = 1, !.release = 1]
TriggersEditing == [TriggersZero EXCEPT !.edit = 1, !.create = 1, !.fail = 1, !.crash = 1, !.record = 1]
TriggersMailing == [TriggersZero EXCEPT !.edit = 2, !.send = 3]

Triggers_hooks == INSTANCE Triggers WITH
    Scheds <- {}, Hooks <- {triggers_h1}, Mails <- {}, Workers <- {x1, x2}, Admins <- {},
    Packets <- TriggersTwoEvents, Letters <- {}, Senders <- TriggersNoSenders,
    Periods <- {2, 3}, Sub <- 1, Tolerance <- 1, Hour <- 2, Keep <- 4, MaxPerHour <- 1,
    MaxConcurrent <- 1, Budget <- TriggersRefusing, MaxTime <- 3
Triggers_events == INSTANCE Triggers WITH
    Scheds <- {}, Hooks <- {triggers_h1}, Mails <- {}, Workers <- {x1, x2}, Admins <- {},
    Packets <- TriggersOneNamed, Letters <- {}, Senders <- TriggersNoSenders, Periods <- {2, 3},
    Sub <- 1, Tolerance <- 1, Hour <- 2, Keep <- 2, MaxPerHour <- 2, MaxConcurrent <- 2,
    Budget <- TriggersCrashing, MaxTime <- 4
Triggers_scheds == INSTANCE Triggers WITH
    Scheds <- {triggers_s1, triggers_s2}, Hooks <- {}, Mails <- {}, Workers <- {x1, x2},
    Admins <- {}, Packets <- {}, Letters <- {}, Senders <- TriggersNoSenders, Periods <- {2, 3},
    Sub <- 1, Tolerance <- 1, Hour <- 2, Keep <- 4, MaxPerHour <- 2, MaxConcurrent <- 2,
    Budget <- TriggersEditing, MaxTime <- 4
Triggers_mail == INSTANCE Triggers WITH
    Scheds <- {}, Hooks <- {}, Mails <- {triggers_m1}, Workers <- {x1, x2},
    Admins <- {triggers_a1}, Packets <- {}, Letters <- TriggersPosted,
    Senders <- TriggersAllowed, Periods <- {2, 3}, Sub <- 1, Tolerance <- 1, Hour <- 2,
    Keep <- 4, MaxPerHour <- 2, MaxConcurrent <- 2, Budget <- TriggersMailing, MaxTime <- 1

(* -------------------- Cron -------------------- *)
Cronstar == [kind |-> "star", lo |-> 0, hi |-> 0, step |-> 1]
Croneach(n) == [Cronstar EXCEPT !.step = n]
Cronnum(n) == [Cronstar EXCEPT !.kind = "num", !.lo = n]
Crononwards(n, s) == [Cronstar EXCEPT !.kind = "num", !.lo = n, !.step = s]
Cronrange(a, b) == [Cronstar EXCEPT !.kind = "range", !.lo = a, !.hi = b]
CronHourSpecs == {<<Cronstar>>, <<Cronrange(1, 2)>>, <<Crononwards(1, 2)>>, <<Croneach(9)>>}
CronDaySpecs == {<<Cronstar>>, <<Cronrange(2, 3)>>}
CronWeekSpecs == {<<Croneach(1)>>, <<Cronnum(1)>>, <<Cronnum(9)>>}
CronWritten(minutes) ==
    [minutes : minutes, hours : CronHourSpecs, days : CronDaySpecs, months : {<<Cronstar>>}, weekdays : CronWeekSpecs]
CronOncePerHour == CronWritten({<<Cronnum(2 - 1)>>})
CronSubHourly == CronWritten({<<Cronnum(0), Cronnum(2 - 1)>>})
CronSteady == [at |-> 3 * 8, before |-> 0, after |-> 0]
CronSpring(i) == [at |-> i, before |-> 0, after |-> 2]
CronAutumn(i) == [at |-> i, before |-> 2, after |-> 0]
CronAllZones == {CronSpring(2 * 8)} \cup {CronAutumn(i) : i \in {2 * 8 + 2, 2 * 8}}
CronOftenZones == {CronSteady, CronSpring(2 * 8 + 2), CronAutumn(2 * 8 + 2), CronAutumn(2 * 8)}

Cron_once == INSTANCE Cron WITH
    M <- 2, H <- 4, MonthDays <- 3, WeekDays <- 2, Months <- 2, HorizonDays <- 5, CatchUp <- 8,
    LastDay <- 3, Expressions <- CronOncePerHour, Zones <- CronAllZones
Cron_often == INSTANCE Cron WITH
    M <- 2, H <- 4, MonthDays <- 3, WeekDays <- 2, Months <- 2, HorizonDays <- 5, CatchUp <- 3,
    LastDay <- 3, Expressions <- CronSubHourly, Zones <- CronOftenZones

ASSUME InstancesAssumption ==
    /\ Guest_calls!GuestTurnAssumption /\ Guest_input!GuestTurnAssumption
    /\ Pull_fits!PullerAssumption /\ Pull_given!PullerAssumption /\ Pull_stops!PullerAssumption /\ Cache_once!CacheAssumption
    /\ Triggers_hooks!TriggersAssumption /\ Triggers_events!TriggersAssumption
    /\ Triggers_scheds!TriggersAssumption /\ Triggers_mail!TriggersAssumption
    /\ Cron_once!CronAssumption /\ Cron_often!CronAssumption

(* The parts: one component moves, and the variables of the others are None, or as EventFeed begins. *)
FeedAlone ==
    /\ pc = None /\ g = None /\ messages = None /\ reply = None /\ h = None /\ streamed = None
    /\ waiting = None /\ stopped = None /\ log = None /\ left = None /\ jobs = None
    /\ pods = None /\ reserved = None /\ turns = None /\ entries = None /\ locks = None
    /\ gates = None /\ handles = None /\ askers = None /\ built = None /\ now = None
    /\ sched = None /\ hook = None /\ window = None /\ running = None /\ firings = None
    /\ deliveries = None /\ starts = None /\ told = None /\ work = None /\ edit = None
    /\ cron = None /\ zone = None /\ start = None /\ next = None /\ ran = None /\ skipped = None
FeedKept ==
    UNCHANGED <<part, pc, g, messages, reply, h, streamed, waiting, stopped, log, left, jobs,
                pods, reserved, turns, entries, locks, gates, handles, askers, built, now, sched,
                hook, window, running, firings, deliveries, starts, told, work, edit, cron, zone,
                start, next, ran, skipped>>
GuestAlone ==
    /\ Init /\ jobs = None /\ pods = None /\ reserved = None /\ turns = None /\ entries = None
    /\ locks = None /\ gates = None /\ handles = None /\ askers = None /\ built = None
    /\ now = None /\ sched = None /\ hook = None /\ window = None /\ running = None
    /\ firings = None /\ deliveries = None /\ starts = None /\ told = None /\ work = None
    /\ edit = None /\ cron = None /\ zone = None /\ start = None /\ next = None /\ ran = None
    /\ skipped = None
GuestKept ==
    UNCHANGED <<part, clock, about, writers, committed, channel, listening, missed, drops,
                readers, jobs, pods, reserved, turns, entries, locks, gates, handles, askers,
                built, now, sched, hook, window, running, firings, deliveries, starts, told,
                work, edit, cron, zone, start, next, ran, skipped>>
PullAlone ==
    /\ Init /\ pc = None /\ g = None /\ messages = None /\ reply = None /\ h = None
    /\ streamed = None /\ waiting = None /\ stopped = None /\ log = None /\ entries = None
    /\ locks = None /\ gates = None /\ handles = None /\ askers = None /\ built = None
    /\ now = None /\ sched = None /\ hook = None /\ window = None /\ running = None
    /\ firings = None /\ deliveries = None /\ starts = None /\ told = None /\ work = None
    /\ edit = None /\ cron = None /\ zone = None /\ start = None /\ next = None /\ ran = None
    /\ skipped = None
PullKept ==
    UNCHANGED <<part, clock, about, writers, committed, channel, listening, missed, drops,
                readers, pc, g, messages, reply, h, streamed, waiting, stopped, log, entries,
                locks, gates, handles, askers, built, now, sched, hook, window, running, firings,
                deliveries, starts, told, work, edit, cron, zone, start, next, ran, skipped>>
CacheAlone ==
    /\ Init /\ pc = None /\ g = None /\ messages = None /\ reply = None /\ h = None
    /\ streamed = None /\ waiting = None /\ stopped = None /\ log = None /\ jobs = None
    /\ pods = None /\ reserved = None /\ turns = None /\ now = None /\ sched = None
    /\ hook = None /\ window = None /\ running = None /\ firings = None /\ deliveries = None
    /\ starts = None /\ told = None /\ work = None /\ edit = None /\ cron = None /\ zone = None
    /\ start = None /\ next = None /\ ran = None /\ skipped = None
CacheKept ==
    UNCHANGED <<part, clock, about, writers, committed, channel, listening, missed, drops,
                readers, pc, g, messages, reply, h, streamed, waiting, stopped, log, jobs, pods,
                reserved, turns, now, sched, hook, window, running, firings, deliveries, starts,
                told, work, edit, cron, zone, start, next, ran, skipped>>
TriggersAlone ==
    /\ Init /\ pc = None /\ g = None /\ messages = None /\ reply = None /\ h = None
    /\ streamed = None /\ waiting = None /\ stopped = None /\ log = None /\ jobs = None
    /\ pods = None /\ reserved = None /\ turns = None /\ entries = None /\ locks = None
    /\ gates = None /\ handles = None /\ askers = None /\ built = None /\ cron = None
    /\ zone = None /\ start = None /\ next = None /\ ran = None /\ skipped = None
TriggersKept ==
    UNCHANGED <<part, clock, about, writers, committed, channel, listening, missed, drops,
                readers, pc, g, messages, reply, h, streamed, waiting, stopped, log, jobs, pods,
                reserved, turns, entries, locks, gates, handles, askers, built, cron, zone,
                start, next, ran, skipped>>
CronAlone ==
    /\ Init /\ pc = None /\ g = None /\ messages = None /\ reply = None /\ h = None
    /\ streamed = None /\ waiting = None /\ stopped = None /\ log = None /\ left = None
    /\ jobs = None /\ pods = None /\ reserved = None /\ turns = None /\ entries = None
    /\ locks = None /\ gates = None /\ handles = None /\ askers = None /\ built = None
    /\ now = None /\ sched = None /\ hook = None /\ window = None /\ running = None
    /\ firings = None /\ deliveries = None /\ starts = None /\ told = None /\ work = None
    /\ edit = None
CronKept ==
    UNCHANGED <<part, clock, about, writers, committed, channel, listening, missed, drops,
                readers, pc, g, messages, reply, h, streamed, waiting, stopped, log, left, jobs,
                pods, reserved, turns, entries, locks, gates, handles, askers, built, now, sched,
                hook, window, running, firings, deliveries, starts, told, work, edit>>

PartsInit ==
    \/ part = "feed" /\ Init /\ FeedAlone
    \/ part = "guest_calls" /\ Guest_calls!Init /\ GuestAlone
    \/ part = "guest_input" /\ Guest_input!Init /\ GuestAlone
    \/ part = "pull_fits" /\ Pull_fits!Init /\ PullAlone
    \/ part = "pull_given" /\ Pull_given!Init /\ PullAlone
    \/ part = "pull_stops" /\ Pull_stops!Init /\ PullAlone
    \/ part = "cache_once" /\ Cache_once!Init /\ CacheAlone
    \/ part = "triggers_hooks" /\ Triggers_hooks!Init /\ TriggersAlone
    \/ part = "triggers_events" /\ Triggers_events!Init /\ TriggersAlone
    \/ part = "triggers_scheds" /\ Triggers_scheds!Init /\ TriggersAlone
    \/ part = "triggers_mail" /\ Triggers_mail!Init /\ TriggersAlone
    \/ part = "cron_once" /\ Cron_once!Init /\ CronAlone
    \/ part = "cron_often" /\ Cron_often!Init /\ CronAlone

PartsNext ==
    \/ On("feed") /\ Next /\ FeedKept
    \/ On("guest_calls") /\ Guest_calls!Next /\ GuestKept
    \/ On("guest_input") /\ Guest_input!Next /\ GuestKept
    \/ On("pull_fits") /\ Pull_fits!Next /\ PullKept
    \/ On("pull_given") /\ Pull_given!Next /\ PullKept
    \/ On("pull_stops") /\ Pull_stops!Next /\ PullKept
    \/ On("cache_once") /\ Cache_once!Next /\ CacheKept
    \/ On("triggers_hooks") /\ Triggers_hooks!Next /\ TriggersKept
    \/ On("triggers_events") /\ Triggers_events!Next /\ TriggersKept
    \/ On("triggers_scheds") /\ Triggers_scheds!Next /\ TriggersKept
    \/ On("triggers_mail") /\ Triggers_mail!Next /\ TriggersKept
    \/ On("cron_once") /\ Cron_once!Next /\ CronKept
    \/ On("cron_often") /\ Cron_often!Next /\ CronKept

PartsSpec == PartsInit /\ [][PartsNext]_all

Symmetric == Permutations({x1, x2}) \cup Permutations({x1, x2, x3})

(* ------------------------------ properties ------------------------------ *)

\* A turn's transcript is well formed at every call to the model, an action runs only when its
\* arguments came whole, what is kept is what was streamed, and what a person says while it
\* runs is heard once and ends it where they said so (agents/default lib.rs, the guest host).
TranscriptWhole ==
    /\ On("guest_calls") => /\ Guest_calls!TypeOK /\ Guest_calls!WellFormed /\ Guest_calls!RunsWhole
                            /\ Guest_calls!AsStreamed /\ Guest_calls!RepeatsReal
    /\ On("guest_input") => Guest_input!SaidOnce /\ Guest_input!StopsThere

\* A pod's free memory is what its guests leave, and no guest is let in that does not fit, but
\* for what is charged while another thread is between its check and its charge, and for guests
\* that go on after their report was given up (Puller, Unseen); what one asker compiles nobody compiles again while it is kept (puller, memory, compiled cache).
GuestsFit ==
    /\ On("pull_fits") => Pull_fits!TypeOK /\ Pull_fits!Balanced /\ Pull_fits!Fits
    /\ On("pull_given") => Pull_given!Balanced /\ Pull_given!Fits
    /\ On("pull_stops") => Pull_stops!Balanced
    /\ On("cache_once") => Cache_once!TypeOK /\ Cache_once!CompiledOnce /\ Cache_once!Forgotten

\* A runtime that was told to stop takes no further turn (take_one).
StopsTaking == [][On("pull_stops") => Pull_stops!StopsTaking]_all

\* An event that was sent again starts no second turn, no hour has more turns than its ceiling,
\* a claim that stands has its turn, mail is answered only where its domain vouches for it, an
\* edit keeps no secret it replaced (triggers); a schedule fires no moment twice, and points on
\* unless its process died or could not write as it fired; and every moment a schedule names is
\* run once, or counted as caught up with, over the two days of the year a clock moves as well,
\* but for those of the repeated hour that several minutes jump over (cron.rs, schedule.rs).
FiredOnce ==
    /\ On("triggers_hooks") =>
          Triggers_hooks!TypeOK /\ Triggers_hooks!HourCeiling /\ Triggers_hooks!ClaimMeansTurn
    /\ On("triggers_events") => Triggers_events!EventOnce
    /\ On("triggers_scheds") => Triggers_scheds!Pointing /\ Triggers_scheds!EventOnce
    /\ On("triggers_mail") => Triggers_mail!MailVouched /\ Triggers_mail!SecretKept
    /\ On("cron_once") => Cron_once!NextOwed /\ Cron_once!Accounted
    /\ On("cron_often") => Cron_often!NextOwed /\ Cron_often!Accounted
=============================================================================
