SPECIFICATION FairSpec
CONSTANTS
  None = None  Never = Never  Nobody = Nobody  Nowhere = Nowhere  Reaper = Reaper  turns_w1 = turns_w1
  wake_ann = wake_ann  wake_bob = wake_bob  wake_t1 = wake_t1  wake_w1 = wake_w1  breaker_a = breaker_a  breaker_c1 = breaker_c1
  failover_e1 = failover_e1  failover_e2 = failover_e2  failover_m1 = failover_m1  failover_m2 = failover_m2  failover_q1 = failover_q1  failover_r1 = failover_r1
  failover_r2 = failover_r2  failover_r3 = failover_r3  tokens_k1 = tokens_k1  tokens_r1 = tokens_r1  tokens_r2 = tokens_r2  conn_c1 = conn_c1
  conn_p1 = conn_p1  conn_r1 = conn_r1  conn_t1 = conn_t1  feed_reader = feed_reader  feed_s1 = feed_s1  feed_s2 = feed_s2
  feed_w1 = feed_w1  docs_d1 = docs_d1  docs_r1 = docs_r1  docs_w1 = docs_w1
CHECK_DEADLOCK FALSE
PROPERTIES WorkEnds
