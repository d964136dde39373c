\* Two claimers racing for two turns of one conversation, two attempts to a turn.
SPECIFICATION Spec
CONSTANTS
    A = A  B = B  t1 = t1  t2 = t2  c1 = c1  c2 = c2
    NoKey = NoKey  NoToken = NoToken
    Keys <- KeysDef
    Tokens <- TokensDef
    Claimers <- ClaimersDef
    Jobs <- Jobs2
    Key <- Key2
    Priority <- Prio2
    Hash <- HashApart
    Serves <- ServesAll
    Scopes <- ScopesAll
    Limit = 2
    MaxAttempts = 2
    MaxReleases = 1
SYMMETRY ClaimSymmetry
INVARIANTS TypeOK AttemptBudget SerialExclusion ClaimDiscipline
PROPERTIES LeaseProtects ImplementsSerialQueue
