SPECIFICATION PartsSpec
CONSTANTS
  None = None  feed_all = feed_all  feed_narrow = feed_narrow  feed_s1 = feed_s1  feed_s2 = feed_s2  x1 = x1
  x2 = x2  pull_j1 = pull_j1  pull_j2 = pull_j2  pull_j3 = pull_j3  cache_k1 = cache_k1  cache_k2 = cache_k2
  x3 = x3  triggers_a1 = triggers_a1  triggers_h1 = triggers_h1  triggers_m1 = triggers_m1  triggers_s1 = triggers_s1  triggers_s2 = triggers_s2
  Writers = {x1, x2}
  Readers = {feed_all, feed_narrow}
  Sessions = {feed_s1, feed_s2}
  Reach <- FeedReachOf
  Narrowed = {feed_narrow}
  MaxEvents = 2
  Limit = 1
  Cap = 1
  Drops = 1
CHECK_DEADLOCK FALSE
INVARIANTS TranscriptWhole GuestsFit FeedSound FiredOnce
PROPERTIES StopsTaking
SYMMETRY Symmetric
