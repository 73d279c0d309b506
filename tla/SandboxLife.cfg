SPECIFICATION FairSpec
CONSTANTS
  p1 = p1  p2 = p2
  Free = Free
  Tasks = {p1, p2}
  Attempts <- RestoreThenBoot
  Timeouts = TRUE
  MaxCrashes = 1
CHECK_DEADLOCK FALSE
INVARIANTS
  TypeOK
  OneLiveVm
  ExitIsFinal
  Watched
  DeletedIsDead
PROPERTIES
  ExitNoticed
