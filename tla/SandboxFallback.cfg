SPECIFICATION Spec
CONSTANTS
  p1 = p1  p2 = p2
  Free = Free
  Tasks = {p1, p2}
  Attempts <- RestoreThenBoot
  Timeouts = FALSE
  MaxCrashes = 0
CHECK_DEADLOCK FALSE
INVARIANTS
  FallbackConnected
