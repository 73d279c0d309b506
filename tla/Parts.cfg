SPECIFICATION PartsSpec
CONSTANTS
  None = None  NoTask = NoTask  Main = Main  First = First  Free = Free
  u1 = u1  u2 = u2  v1 = v1  v2 = v2  Malformed = Malformed
  Targets <- Twins  Blocks <- Twins  Chars = {"d1"}  MaxSlot = 1  MaxRefusals = 2
  MaxCpu = 3  PageSizes = {"2M"}  MaxPages = 1  MaxCgroupFaults = 1
  Words = {"bind", "ro", "rw", "rprivate", "remount", "size"}  MaxOptions = 3  MaxMountFaults = 1
SYMMETRY Symmetry
CHECK_DEADLOCK FALSE
INVARIANTS
  PartsTypeOK
  ExitsReported
  
  WorkloadRunsOnce
  
  
  SnapshotsWhole
  
  
  MountsHonoured
  
  
  PlugAgrees
  CancelExcludesCommit
PROPERTIES
  ImplementsBarrier
