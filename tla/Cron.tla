-------------------------------- MODULE Cron --------------------------------
(***************************************************************************)
(* Cron expressions stepped in a zone whose clock changes (schedule/       *)
(* cron.rs, schedule/mod.rs): what an expression expands to, the first     *)
(* firing strictly after an instant, and how a schedule that fired late    *)
(* moves on, counting what it passed over.  A small calendar stands for    *)
(* the real one: M minutes to the hour, H hours to the day.  An instant is *)
(* a minute of UTC; a wall-clock time is a minute since local day zero.    *)
(***************************************************************************)
EXTENDS Integers, FiniteSets, FiniteSetsExt, Sequences

CONSTANTS M, H,        \* minutes to the hour, hours to the day
          MonthDays, WeekDays, Months,
          HorizonDays, \* HORIZON_DAYS: how many days a search looks at
          CatchUp,     \* the firings one advance may pass over (1440)
          LastDay,     \* bound: the days a behaviour is followed for
          Expressions, \* bound: the expressions written
          Zones,       \* [at, before, after]: the offset changes at an instant
          None

CronAssumption == {M, H, MonthDays, WeekDays, Months, HorizonDays, CatchUp} \subseteq Nat \ {0}

VARIABLES cron,   \* the parsed expression
          zone,
          start,  \* when it was saved
          next,   \* next_run_at
          ran,    \* firings run
          skipped \* firings passed over, as the row counts them

vars == <<cron, zone, start, next, ran, skipped>>

Day == M * H
Instants == 0 .. LastDay * Day - 1

-----------------------------------------------------------------------------
(* Parsing.                                                                *)

\* One part of a field, `*`, a number or a range, perhaps stepped: what it
\* covers, or nothing where it is refused.  A step wider than the field is
\* refused, and a stepped number runs to the field's end.
part(p, min, max) ==
    LET lo == IF p.kind = "star" THEN min ELSE p.lo
        hi == CASE p.kind = "star" -> max
                [] p.kind = "range" -> p.hi
                [] OTHER -> IF p.step > 1 THEN max ELSE p.lo
    IN IF \/ p.step = 0 \/ p.step > max - min
          \/ lo < min \/ hi > max \/ lo > hi
       THEN {} ELSE {n \in lo .. hi : (n - lo) % p.step = 0}

\* A list of parts; refused where any part is.
field(spec, min, max) ==
    LET parts == {part(spec[i], min, max) : i \in DOMAIN spec}
    IN IF {} \in parts THEN {} ELSE UNION parts

\* Whether the two day fields are joined or met is judged by what they
\* expanded to: only where both narrow anything is it their union.
parse(e) ==
    LET f == [minutes |-> field(e.minutes, 0, M - 1), hours |-> field(e.hours, 0, H - 1),
              days |-> field(e.days, 1, MonthDays), months |-> field(e.months, 1, Months),
              weekdays |-> field(e.weekdays, 0, WeekDays - 1)]
        narrow == Cardinality(f.days) < MonthDays /\ Cardinality(f.weekdays) < WeekDays
    IN IF \E k \in DOMAIN f : f[k] = {} THEN None
       ELSE [k \in DOMAIN f \cup {"both_days"} |-> IF k = "both_days" THEN narrow ELSE f[k]]

-----------------------------------------------------------------------------
(* The clock on the wall, and the instants it names.                       *)

Local(z, i) == i + IF i < z.at THEN z.before ELSE z.after
At(z, l) == {i \in {l - z.before, l - z.after} : Local(z, i) = l}

\* Every instant a wall-clock time maps to: two in the hour that repeats,
\* and for one the clocks skip the first minute that exists after it.
resolve(z, l) ==
    IF At(z, l) # {} THEN At(z, l)
    ELSE LET there == {e \in 1 .. 2 * M : Cardinality(At(z, l + e)) = 1}
         IN IF there = {} THEN {} ELSE At(z, l + Min(there))

matches_date(c, d) ==
    LET dom == ((d % MonthDays) + 1) \in c.days
        dow == (d % WeekDays) \in c.weekdays
    IN /\ (((d \div MonthDays) % Months) + 1) \in c.months
       /\ IF c.both_days THEN dom \/ dow ELSE dom /\ dow

\* Whether the expression names more than one time an hour, and so owes
\* work in both halves of an hour that repeats.
fires_within_an_hour(c) == Cardinality(c.hours) = H \/ Cardinality(c.minutes) > 1

Matching(c, l) ==
    matches_date(c, l \div Day) /\ ((l % Day) \div M) \in c.hours /\ (l % M) \in c.minutes

\* The first firing strictly after an instant.  The scan is by wall-clock
\* time, from the minute after the instant's own, an hour earlier where the
\* expression fires within an hour; of the first time with an instant still
\* ahead, that instant.
next_after(c, z, after) ==
    LET here == Local(z, after)
        today == here \div Day
        from == LET m == (here % Day) + 1 - (IF fires_within_an_hour(c) THEN M ELSE 0)
                IN today * Day + IF m < 0 THEN 0 ELSE m
        ahead(l) == {i \in resolve(z, l) : i > after}
        times == {l \in from .. (today + HorizonDays) * Day - 1 : Matching(c, l) /\ ahead(l) # {}}
    IN IF times = {} THEN None ELSE Min(ahead(Min(times)))

\* Where the next firing goes, given the one just run was owed at an instant:
\* those after it already past are passed over and counted, up to a bound.
advance(c, z, owed, now) ==
    LET past[n \in 0 .. CatchUp] ==
            IF n = 0 THEN [at |-> owed, skipped |-> 0]
            ELSE LET was == past[n - 1]
                     x == next_after(c, z, was.at)
                 IN IF x # None /\ x <= now THEN [at |-> x, skipped |-> was.skipped + 1] ELSE was
        p == past[CatchUp]
    IN [next |-> next_after(c, z, p.at), skipped |-> p.skipped]

-----------------------------------------------------------------------------
(* A schedule's life.                                                      *)

\* Saved at some instant of the first hour, once it parses.
Init ==
    /\ cron \in {parse(e) : e \in Expressions} \ {None}
    /\ zone \in Zones
    /\ start \in 0 .. M - 1
    /\ next = next_after(cron, zone, start)
    /\ ran = 0 /\ skipped = 0

\* The loop takes it at or after the instant it was due.
fire(now) ==
    /\ next # None /\ next <= now
    /\ LET a == advance(cron, zone, next, now)
       IN next' = a.next /\ skipped' = skipped + a.skipped
    /\ ran' = ran + 1
    /\ UNCHANGED <<cron, zone, start>>

Next == \E now \in Instants : fire(now)
Spec == Init /\ [][Next]_vars

-----------------------------------------------------------------------------
(* What a schedule owes, said of instants rather than of a search.         *)

Often == Cardinality(cron.hours) = H \/ Cardinality(cron.minutes) > 1
Owes(i) ==
    \/ /\ Matching(cron, Local(zone, i))
       /\ Often \/ i = Min(At(zone, Local(zone, i)))
    \/ /\ i = zone.at
       /\ \E l \in zone.at + zone.before .. zone.at + zone.after - 1 : Matching(cron, l)

\* The first run of the hour that repeats, but for its first firing: the search
\* goes by wall-clock time, finds the second instant of an earlier time of that
\* hour still ahead, and takes it (cron.rs:119-131), though the expression
\* "owes work in both halves" (cron.rs:98-100).
PassedBy(i) ==
    /\ Often /\ Cardinality(At(zone, Local(zone, i))) = 2 /\ i < zone.at
    /\ \E l \in zone.at + zone.after .. Local(zone, i) - 1 : Matching(cron, l)

\* Every instant a schedule owed since it was saved was run or counted as
\* passed over, once, whatever the clocks did and however late each firing
\* was (the skip count exists because "a schedule that quietly missed a week
\* looks exactly like one that never worked"); but for those of the hour that
\* repeats which an expression of several minutes jumps over, neither run nor
\* counted.
Accounted ==
    LET until == IF next = None THEN LastDay * Day - 1 ELSE next - 1
    IN ran + skipped = Cardinality({i \in start + 1 .. until : Owes(i) /\ ~PassedBy(i)})

\* A schedule never waits for an instant it does not owe: a daily one is not
\* run twice on the morning an hour repeats.
NextOwed == next # None => Owes(next)
=============================================================================
