SPECIFICATION Spec
CONSTANTS
  p1 = p1  p2 = p2  s1 = s1  s2 = s2  i1 = i1  c1 = c1  c2 = c2
  None = None  Free = Free
  Tasks = {p1}
  Sandboxes = {s1}
  Identities = {i1}
  Templates = {c1}
  IdentityOf <- MCIdentityOf
  Disked = {c1}
  ConcurrentStarts = FALSE
  AdminDeletes = FALSE
  IoErrors = FALSE
  MaxCrashes = 0
INVARIANTS
  ReleasedIntact
