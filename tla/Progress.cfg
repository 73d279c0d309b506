SPECIFICATION ProgressSpec
CONSTANTS
  p1 = p1  p2 = p2  s1 = s1  i1 = i1  c1 = c1
  None = None  Free = Free
  Clients = {p1, p2}
  MaxData = 2
  Capacity = 1
  Tries = 10
  Window = 2
  MaxInput = 3
  Starts = {p1}  Refills = {p1, p2}  Askers = {"maintenance"}  Target = 2  MaxPerKey = 1
CHECK_DEADLOCK FALSE
INVARIANTS
  
  OneReader
  WindowMatchesCredit
  NoLostWakeup
PROPERTIES
  OrphansCollected
  NewcomerGetsStream
  ParkedIsWoken
