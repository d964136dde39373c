SPECIFICATION Spec
CONSTANTS
  Shapes <- Words
  Kept = 2
  Room = 4
  MaxRows = 7
  MaxHeld = 0
  Budget <- Untroubled
  BootRows <- Nothing
  BootHeld <- Nothing
CHECK_DEADLOCK FALSE
INVARIANTS NothingDropped
