SPECIFICATION ServeSpec
CONSTANTS
  p1 = p1  p2 = p2  s1 = s1  s2 = s2  i1 = i1  c1 = c1  c2 = c2
  None = None  Free = Free
  Tasks = {p1, p2}
  Sandboxes = {s1, s2}
  Identities = {i1}
  Templates = {c1}
  IdentityOf <- MCIdentityOf
  Disked = {c1}
  ConcurrentStarts = TRUE
  AdminDeletes = FALSE
  IoErrors = TRUE
  MaxCrashes = 0
SYMMETRY Symmetry
INVARIANTS
  DiskedRunsOnce
  RunningHasDisks
