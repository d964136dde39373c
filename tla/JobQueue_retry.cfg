\* The same two turns: a retry after every hand-back was used up.
SPECIFICATION Spec
CONSTANTS
    A = A  B = B  t1 = t1  t2 = t2  c1 = c1  c2 = c2
    NoKey = NoKey  NoToken = NoToken
    Keys <- KeysDef
    Tokens <- TokensDef
    Claimers <- OneClaimer
    Jobs <- Jobs2
    Key <- Key2
    Priority <- Prio2
    Hash <- HashApart
    Serves <- ServesAll
    Scopes <- ScopesAll
    Limit = 2
    MaxAttempts = 2
    MaxReleases = 2
SYMMETRY ClaimSymmetry
INVARIANTS ReleaseBudget

