\* An approval answered before the turn that raised it has parked.
SPECIFICATION Spec
CONSTANTS
    s1 = s1  t1 = t1  t2 = t2  p1 = p1  p2 = p2  h1 = h1  h2 = h2
    NoTurn = NoTurn  NoPod = NoPod  NoHold = NoHold
    Sessions <- Sessions1
    Turns <- Turns2
    SessionOf <- Session2
    Person <- Person1
    Pods <- OnePod
    Holds <- OneHold
    Scopes <- NoScopes
    MaxLapses = 0
CHECK_DEADLOCK FALSE
INVARIANTS ParkedHasWaker
