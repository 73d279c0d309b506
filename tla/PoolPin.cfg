SPECIFICATION Spec
CONSTANTS
  p1 = p1  p2 = p2  s1 = s1  s2 = s2
  e1 = e1  e2 = e2  w1 = w1  w2 = w2
  None = None  Free = Free
  Tasks = {p1, p2}
  Sandboxes = {s1}
  Templates = {e1}
  Initial = {e1}
  Keys <- MCKeys
  KeyOf <- MCKeyOf
  KindOf <- MCKindOf
  CreatedAt <- MCCreatedAt
  LeaseMode = "shared"
  CopyMode = FALSE
  GcWatermark = 0
  EnvMaxPerKey = 1
  WfMaxPerKey = 1
  IoErrors = FALSE
  ConcurrentDeletes = FALSE
  AdminDuringRecovery = FALSE
  MaxCrashes = 0
  MaxLeaks = 0
SYMMETRY Symmetry
INVARIANTS
  PinKeepsDirectory
