\* A pod that loses its lease goes on beside the one that took over.
SPECIFICATION TroubledSpec
CONSTANTS
    s1 = s1  t1 = t1  t2 = t2  p1 = p1  p2 = p2  h1 = h1  h2 = h2
    NoTurn = NoTurn  NoPod = NoPod  NoHold = NoHold
    Sessions <- Sessions1
    Turns <- Turns2
    SessionOf <- Session2
    Person <- Person1
    Pods <- TwoPods
    Holds <- TwoHolds
    Scopes <- WholeWorkspace
    MaxLapses = 1
CHECK_DEADLOCK FALSE
SYMMETRY AllSymmetry
INVARIANTS KillSwitchHolds RunsUnlatched StopNeedsPerson
PROPERTIES FollowsQueue
