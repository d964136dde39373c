---------------------------- MODULE PolicyChoice ----------------------------
(***************************************************************************)
(* Which auto-approval policy speaks for a gated operation, for one agent  *)
(* (api/auto_approval/mod.rs).  A policy is a row:                         *)
(*   id, eff (include, exclude), sel (risk, act, op), op, act, agent, max  *)
(*   (bound on risk, 0 for none), tests (fields it tests), cur (currencies *)
(*   it totals), mode (on, trial), ver, rev, exp, setter (still a member), *)
(*   acc (when its operations were last accepted).                         *)
(* A declared operation d:                                                 *)
(*   op, act, auto, reach (the lowest risk a request can have), binds, cur *)
(*   (its currency, None where it moves no money), pub (when published).   *)
(* Risks are 1..3; a deployment that allows none has the ceiling 0.        *)
(***************************************************************************)
EXTENDS Integers, FiniteSets

CONSTANTS Agents, AllAgents, None

state(p) ==
    CASE p.rev -> "revoked"
      [] ~p.rev /\ p.exp -> "expired"
      [] ~p.rev /\ ~p.exp /\ ~p.setter -> "lapsed"
      [] OTHER -> p.mode

live(p) == state(p) \in {"on", "trial"}

\* The bound on risk, then what the selector names.
selects(p, d) ==
    /\ IF p.max = 0 THEN p.sel # "risk" ELSE d.reach <= p.max
    /\ \/ p.sel = "risk"
       \/ p.sel = "act" /\ p.act = d.act
       \/ p.sel = "op" /\ p.op = d.op

\* Operation over act over risk, then a policy naming an agent.
specificity(p) ==
    2 * (CASE p.sel = "op" -> 3 [] p.sel = "act" -> 2 [] OTHER -> 1)
    + (IF p.agent = AllAgents THEN 0 ELSE 1)

\* A broad policy covers what was published before it was accepted.
accepted(p, d) == p.sel = "op" \/ d.pub <= p.acc

\* egress::policy::fits, and the day's totals in the operation's currency.
fits(p, d) == p.tests \subseteq d.binds /\ (p.cur = {} \/ d.cur = None \/ d.cur \in p.cur)

Ask == [terms |-> "ask", by |-> None]

applicable(d, P, a) ==
    {p \in P : live(p) /\ p.agent \in {AllAgents, a} /\ selects(p, d)}

\* An operation's own rule naming this agent, whether or not its tests fit.
named_rule(d, P, a) ==
    \E p \in applicable(d, P, a) : p.eff = "include" /\ p.sel = "op" /\ p.agent = a

\* An exclusion that stands: one of the operation for every agent gives way to
\* the operation's rule naming this one.
excluded(d, P, a) ==
    \E p \in applicable(d, P, a) :
        /\ p.eff = "exclude"
        /\ ~(p.sel = "op" /\ p.agent = AllAgents /\ named_rule(d, P, a))

inclusions(d, P, a) == {p \in applicable(d, P, a) : p.eff = "include" /\ fits(p, d)}

\* What the gate declares and the deployment allows, before any policy is read.
covered(d, ceiling) == d.auto /\ d.binds # {} /\ ceiling # 0 /\ d.reach <= ceiling

\* The one most specific inclusion, where no exclusion stands; two as specific
\* are nobody's.
choose(d, P, a, ceiling) ==
    LET I == inclusions(d, P, a)
        top == {p \in I : \A q \in I : specificity(q) <= specificity(p)}
    IN  IF ~covered(d, ceiling) \/ excluded(d, P, a) \/ Cardinality(top) # 1 THEN Ask
        ELSE LET p == CHOOSE p \in top : TRUE
             IN  [terms |-> IF p.mode = "on" /\ accepted(p, d) THEN "on" ELSE "trial", by |-> p]

\* The tighter of a policy's own bound and the deployment's.
bound(p, ceiling) ==
    CASE ceiling # 0 /\ p.max # 0 -> IF ceiling < p.max THEN ceiling ELSE p.max
      [] ceiling # 0 /\ p.max = 0 -> ceiling
      [] ceiling = 0 /\ p.max # 0 -> p.max
      [] OTHER -> 1
=============================================================================
