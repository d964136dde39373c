---------------------------- MODULE MCInhibition ----------------------------
(***************************************************************************)
(* Instances of Inhibition. Turn t1 is a person's, t2 the platform's (a   *)
(* trigger, a wakeup), in one conversation that a workspace hold covers.   *)
(***************************************************************************)
EXTENDS Inhibition, TLC

CONSTANTS s1, t1, t2, p1, p2, h1, h2

Sessions1 == {s1}
Turns2 == {t1, t2}
Session2 == [t \in Turns2 |-> s1]
Person1 == {t1}
OnePod == {p1}
TwoPods == {p1, p2}
OneHold == {h1}
TwoHolds == {h1, h2}
WholeWorkspace == {Sessions}
NoScopes == {}

\* A lease lapses, or a second hold is taken; not both in one behaviour.
OneTrouble == lapses = 0 \/ Cardinality({h \in Holds : hold[h].life # "unused"}) <= 1
TroubledSpec == Init /\ [][Next /\ OneTrouble']_vars

AllSymmetry == Permutations(TwoPods) \cup Permutations(TwoHolds)
=============================================================================
