SPECIFICATION PartsSpec
CONSTANTS
  Nobody = Nobody  Reaper = Reaper  held_p1 = held_p1  held_p2 = held_p2  held_r1 = held_r1  held_r2 = held_r2
  turns_w1 = turns_w1  turns_w2 = turns_w2  wake_ann = wake_ann  wake_bob = wake_bob  wake_t1 = wake_t1  wake_t2 = wake_t2
  wake_w1 = wake_w1  wake_w2 = wake_w2
  Pods = {held_p1, held_p2}
  Relays = {held_r1, held_r2}
  Kinds = {"key", "record", "plain"}
  MAX_ATTEMPTS = 2
  Budget <- HeldSome
  None = None
CHECK_DEADLOCK FALSE
INVARIANTS AnsweredOnce HeldSound WaitsEndOnce
PROPERTIES  AnswerFinal
SYMMETRY Symmetric
