SPECIFICATION PartsSpec
CONSTANTS
  None = None  Nowhere = Nowhere  x1 = x1  x2 = x2  y1 = y1  y2 = y2
  failover_e1 = failover_e1  failover_e2 = failover_e2  failover_m1 = failover_m1  failover_m2 = failover_m2  failover_q1 = failover_q1  failover_r1 = failover_r1
  failover_r2 = failover_r2  failover_r3 = failover_r3  tokens_k1 = tokens_k1  tokens_k2 = tokens_k2  conn_c1 = conn_c1  conn_c2 = conn_c2
  conn_m1 = conn_m1  conn_p1 = conn_p1  conn_t1 = conn_t1  docs_d1 = docs_d1  docs_d2 = docs_d2
  Calls <- BreakerTwoCalls
  Callers <- BreakerCallersDef
  FailureThreshold = 2
  BreadthThreshold = 2
  BreadthWindow = 1
  BaseBackoff = 1
  MaxBackoff = 1
  ProbeLease = 1
  RetiredFor = 1
  MaxLag = 1
  MaxCrashes = 0
  Never = Never
CHECK_DEADLOCK FALSE
INVARIANTS CircuitSound WalkAccounted TokensFresh KeysTheirOwners TextCurrent LandsWhole
PROPERTIES OneClaimPerLease PhotoWhole
SYMMETRY Symmetric
