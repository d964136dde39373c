\* A busy conversation ahead of an idle one, one job per claim, under fairness.
SPECIFICATION BusySpec
CONSTANTS
    A = A  B = B  t1 = t1  t2 = t2  c1 = c1  c2 = c2
    NoKey = NoKey  NoToken = NoToken
    Keys <- KeysDef
    Tokens <- OneToken
    Claimers <- OneClaimer
    Jobs <- Jobs3
    Key <- Key3
    Priority <- Prio3
    Hash <- HashSame
    Serves <- ServesAll
    Scopes <- NoScopes
    Limit = 1
    MaxAttempts = 1
    MaxReleases = 1
PROPERTIES KeepsServing
