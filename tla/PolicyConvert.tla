--------------------------- MODULE PolicyConvert ----------------------------
(***************************************************************************)
(* Moving a workspace's policies onto approval rules at startup            *)
(* (api/auto_approval/convert.rs), and a rule's figure as a person types   *)
(* it (rules.rs).  An act policy becomes a rule on each operation it       *)
(* decided, and the workspace's own bands are folded into the amount each  *)
(* rule goes through under.  The pass is one transaction under a lock.     *)
(* What an amount says of its risk is core/egress/amount.rs and money.rs:  *)
(* a banding is base (risk 1..3), low and medium (bands), fmedium and      *)
(* fhigh (floors), units (digits past the currency's standard, negative    *)
(* where fewer).  NoAmount is no bound.                                    *)
(***************************************************************************)
EXTENDS PolicyChoice, FiniteSetsExt

CONSTANTS NoAmount,  \* no bound, or no amount to trust
          Radix,     \* a digit: ten
          MaxInt     \* the largest amount the width holds

AmountsAssumption == Radix \in Nat \ {0, 1} /\ MaxInt \in Nat \ {0}

Set(x) == x # NoAmount

\* Floor::check: above zero and rising.
floor_check(b) ==
    /\ (Set(b.fmedium) => b.fmedium > 0) /\ (Set(b.fhigh) => b.fhigh > 0)
    /\ Set(b.fmedium) /\ Set(b.fhigh) => b.fmedium < b.fhigh

\* Bands::check: above zero, below the base, rising, none past a floor above it.
bands_check(b) ==
    /\ Set(b.low) => b.low > 0 /\ b.base > 1
    /\ Set(b.medium) => b.medium > 0 /\ b.base > 2
    /\ Set(b.low) /\ Set(b.medium) => b.low < b.medium
    /\ Set(b.fmedium) /\ Set(b.low) => b.low <= b.fmedium
    /\ Set(b.fhigh) => (Set(b.low) => b.low <= b.fhigh) /\ (Set(b.medium) => b.medium <= b.fhigh)

\* The lowest level below the base whose band the amount is below, and at
\* least the level of any floor it is at.
risk(b, amount) ==
    IF ~Set(amount) THEN b.base
    ELSE LET banded == CASE b.base > 1 /\ Set(b.low) /\ amount < b.low -> 1
                         [] OTHER -> IF b.base > 2 /\ Set(b.medium) /\ amount < b.medium THEN 2 ELSE b.base
             floors == {r \in {2, 3} : LET at == IF r = 2 THEN b.fmedium ELSE b.fhigh
                                       IN  Set(at) /\ amount >= at}
         IN  Max({banded} \cup floors)

\* Banding::lowest: what a selector and the cap are compared with.
lowest(b) == risk(b, 0)

\* assess: an amount in another currency than the declared is no amount.
assess(b, amount, inCurrency) == risk(b, IF inCurrency THEN amount ELSE NoAmount)

Fit(n) == IF n <= MaxInt THEN n ELSE NoAmount

\* To the currency's standard units, rounding up.
to_standard(b, amount) ==
    IF b.units >= 0 THEN LET scale == Radix ^ b.units
                         IN  (amount \div scale) + (IF (amount % scale) # 0 THEN 1 ELSE 0)
    ELSE Fit(amount * (Radix ^ (-b.units)))

\* From them, rounding down; what rounds to nothing is no bound.
from_standard(b, n) ==
    LET own == IF b.units >= 0 THEN Fit(n * (Radix ^ b.units)) ELSE n \div (Radix ^ (-b.units))
    IN  IF Set(own) /\ own > 0 THEN own ELSE NoAmount

\* Bands written for a whole currency, as they apply to one operation.
bands_from_standard(b, low, medium) ==
    [b EXCEPT !.low = IF Set(low) THEN from_standard(b, low) ELSE NoAmount,
              !.medium = IF Set(medium) THEN from_standard(b, medium) ELSE NoAmount]

\* The tighter of two bounds.
Tighter(x, y) == CASE Set(x) /\ Set(y) -> Min({x, y}) [] Set(x) /\ ~Set(y) -> x [] OTHER -> y

\* Mutant: the figure is looked for among the bands alone.
most_banded(b, ceiling) ==
    LET at == {x \in {0, b.low, b.medium} : Set(x) /\ risk(b, x) > ceiling}
    IN  IF at = {} THEN NoAmount ELSE Min(at)

\* The amount from which a person is always asked: the first of the bands and
\* floors where the risk passes the cap, or the high floor.
most(b, ceiling) ==
    LET at == {x \in {0, b.low, b.medium, b.fmedium, b.fhigh} : Set(x) /\ risk(b, x) > ceiling}
    IN  Tighter(IF at = {} THEN NoAmount ELSE Min(at), b.fhigh)

\* The amount a policy lets through under: its test, or where the risk passes
\* its bound.
under(lt, b, limit) == Tighter(lt, most(b, limit))

\* The gateway's reading of one amount, holds and admits: the test, and the
\* risk the amount works out to.
admits(lt, b, limit, amount) == (Set(lt) => amount < lt) /\ risk(b, amount) <= limit

-----------------------------------------------------------------------------
CONSTANTS Ops,       \* operations that move money, all in one currency
          Bandings,  \* what the operator may declare
          OwnBands,  \* the workspace's own: low, medium, and the operation or all
          Starts,    \* the policies that may stand, before they have an id
          MaxFirst,  \* policies standing at once
          Ceilings, Amount, Pubs,
          Typed,     \* figures a person types
          Fails      \* passes that may fail

VARIABLES banding,   \* each operation's, as the operator declared it
          bands,     \* the workspace's rows
          rows,      \* its policies
          ceiling,
          pubs,      \* when each operation was published, against acc = 0
          first,     \* what was let through before
          passes, fails,
          said       \* the figure the last refusal named

vars == <<banding, bands, rows, ceiling, pubs, first, passes, fails, said>>

\* The bands an operation ran under: its own row, else its currency's, else
\* the operator's.
as_it_was(o, B) ==
    LET own == {r \in B : r.op = o}
        all == {r \in B : r.op = None}
    IN  CASE own # {} -> LET r == CHOOSE r \in own : TRUE
                         IN  [banding[o] EXCEPT !.low = r.low, !.medium = r.medium]
          [] own = {} /\ all # {} -> LET r == CHOOSE r \in all : TRUE
                                     IN  bands_from_standard(banding[o], r.low, r.medium)
          [] OTHER -> banding[o]

\* The operation as choose reads it under some bands.
Declared(o, b) == [op |-> o, act |-> "pay", auto |-> TRUE, reach |-> lowest(b), binds |-> {"amount"},
                   cur |-> "GBP", pub |-> pubs[o]]

\* What speaks for each operation and agent, and the bands it is read under.
Spoken(P, B) ==
    {[op |-> o, agent |-> a, under |-> as_it_was(o, B),
      says |-> choose(Declared(o, as_it_was(o, B)), P, a, ceiling)] : o \in Ops, a \in Agents}

\* What goes through without a person, under the bands as they were or as
\* they are.
Lets(P, B) == UNION {
    {<<s.op, s.agent, n>> :
        n \in {n \in Amount : admits(s.says.by.lt, s.under, bound(s.says.by, ceiling), n)}}
    : s \in {s \in Spoken(P, B) : s.says.terms = "on"}}

Init ==
    /\ banding \in [Ops -> {b \in Bandings : floor_check(b) /\ bands_check(b)}]
    /\ bands \in OwnBands
    /\ \E f \in [1..MaxFirst -> Starts] : rows = {[f[i] EXCEPT !.id = <<i, None, None>>, !.from = i] : i \in 1..MaxFirst}
    /\ ceiling \in Ceilings
    /\ pubs \in [Ops -> Pubs]
    /\ first = Lets(rows, bands)
    /\ passes = 0 /\ fails = Fails /\ said = NoAmount

-----------------------------------------------------------------------------

\* The rule one operation's policy becomes: the amount limits it now.
narrowed(p, o, lt, agent) ==
    LET rule == [p EXCEPT !.id = <<p.from, o, agent>>, !.sel = "op", !.op = o, !.agent = agent]
    IN  IF Set(lt) THEN [rule EXCEPT !.max = 0, !.lt = lt] ELSE rule

Live == {p \in rows : p.eff = "include" /\ ~p.rev /\ ~p.exp}
Before(p, o) == under(p.lt, as_it_was(o, bands), bound(p, ceiling))
After(p, o) == under(p.lt, banding[o], bound(p, ceiling))
Reached(p) == {o \in Ops : selects(p, Declared(o, as_it_was(o, bands)))}

\* For whom an act policy was the one deciding, among the inclusions.
decided(p, o) ==
    {a \in Agents : /\ p.agent \in {AllAgents, a}
                    /\ LET c == choose(Declared(o, as_it_was(o, bands)), Live, a, ceiling)
                       IN  c.terms # "ask" /\ c.by = p}

\* Mutant: the rule carries the figure the operator's bands give.
FromAct_after(p) == UNION {
    {narrowed(p, o, After(p, o), a) : a \in decided(p, o)} : o \in Reached(p)}

\* An act policy: one rule where it decided for all of its scope, else one for
\* each agent it decided for.
FromAct(p) == UNION {
    LET scope == {a \in Agents : p.agent \in {AllAgents, a}}
        D == decided(p, o)
    IN  IF D # {} /\ D = scope THEN {narrowed(p, o, Before(p, o), p.agent)}
        ELSE {narrowed(p, o, Before(p, o), a) : a \in D}
    : o \in Reached(p)}

\* Where the operator's bands alone would let through more.
wider(p, o) == Set(Before(p, o)) /\ (Set(After(p, o)) => After(p, o) > Before(p, o))

\* Any other: held to what it let through, where it would let through more.
FromOther(p) == {narrowed(p, o, Before(p, o), p.agent) : o \in {o \in Reached(p) : wider(p, o)}}

\* What its rules replace: it is kept, as revoked.
retired(p) == p.sel = "act" \/ (p.sel = "op" /\ FromOther(p) # {})

\* workspace, under run's lock.
convert ==
    /\ passes < 2
    /\ rows' = {IF p \in Live /\ retired(p) THEN [p EXCEPT !.rev = TRUE] ELSE p : p \in rows}
               \cup UNION {IF p.sel = "act" THEN FromAct(p) ELSE FromOther(p) : p \in Live}
    /\ bands' = {} /\ passes' = passes + 1
    /\ UNCHANGED <<banding, ceiling, pubs, first, fails, said>>

\* run: an error writes nothing, and the start goes on.
run_fails ==
    /\ fails > 0 /\ fails' = fails - 1 /\ passes' = 2
    /\ UNCHANGED <<banding, bands, rows, ceiling, pubs, first, said>>

-----------------------------------------------------------------------------
\* policy_for's reading of the figure a rule goes through under.
Taken(b, n) == LET own == from_standard(b, n)
               IN  Set(own) /\ (Set(most(b, ceiling)) => own <= most(b, ceiling))

\* A rule is refused, naming the most that can go through.
refuse(o, n) ==
    /\ passes = 2 /\ ceiling # 0 /\ lowest(banding[o]) <= ceiling
    /\ Set(from_standard(banding[o], n)) /\ ~Taken(banding[o], n)
    /\ said' = to_standard(banding[o], most(banding[o], ceiling))
    /\ UNCHANGED <<banding, bands, rows, ceiling, pubs, first, passes, fails>>

Next == convert \/ run_fails \/ (\E o \in Ops, n \in Typed : refuse(o, n))
Spec == Init /\ [][Next]_vars

-----------------------------------------------------------------------------
TypeOK ==
    /\ \A p \in rows : p.sel \in {"risk", "act", "op"} /\ (Set(p.lt) => p.lt \in 0..MaxInt)
    /\ first \subseteq Ops \X Agents \X Amount
    /\ \A o \in Ops : bands_check(banding[o])

\* The figure the page shows is the one the gateway holds a request to: below
\* it every amount is admitted, and none at or above (most, under, risk).
\* A high floor is a bound of the page's own, which the gateway keeps where
\* its cap is below high.
UnderExact == \A o \in Ops : \A p \in rows : \A n \in Amount :
    LET b == banding[o]
        u == under(p.lt, b, bound(p, ceiling))
    IN  /\ admits(p.lt, b, bound(p, ceiling), n) /\ bound(p, ceiling) < 3 => (Set(u) => n < u)
        /\ (Set(u) => n < u) => admits(p.lt, b, bound(p, ceiling), n)

\* Risk only rises with the amount (most's comment), whatever bands a
\* workspace had and however they were rounded.
RiskRises == \A o \in Ops : \A n, m \in Amount : n <= m =>
    risk(as_it_was(o, bands), n) <= risk(as_it_was(o, bands), m)

\* Each rule lets through no amount its policy did not, under the bands as
\* they were (convert.rs).
AmountHeld == passes' > passes => \A q \in rows' \ rows : ~q.rev =>
    \E p \in rows : q.from = p.from /\ \A n \in Amount :
        admits(q.lt, banding[q.op], bound(q, ceiling), n) =>
            admits(p.lt, as_it_was(q.op, bands), bound(p, ceiling), n)

\* A second pass finds nothing to do (convert.rs).
Harmless == passes = 1 /\ passes' = 2 /\ fails' = fails => rows' = rows
=============================================================================
