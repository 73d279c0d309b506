SPECIFICATION Spec
CONSTANTS
  p1 = p1  p2 = p2  s1 = s1  s2 = s2
  e1 = e1  e2 = e2  w1 = w1  w2 = w2
  None = None  Free = Free
  Tasks = {p1, p2}
  Sandboxes = {s1, s2}
  Templates = {w1, w2}
  Initial = {w1}
  Keys <- MCKeys
  KeyOf <- MCKeyOf
  KindOf <- MCKindOf
  CreatedAt <- MCCreatedAt
  LeaseMode = "exclusive"
  CopyMode = TRUE
  GcWatermark = 1
  EnvMaxPerKey = 1
  WfMaxPerKey = 1
  IoErrors = TRUE
  ConcurrentDeletes = TRUE
  AdminDuringRecovery = FALSE
  MaxCrashes = 1
  MaxLeaks = 0
SYMMETRY Symmetry
INVARIANTS
  ExclusiveOwner
  PoolEntriesDistinct
