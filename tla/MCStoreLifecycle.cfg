SPECIFICATION Spec
CONSTANTS
  p1 = p1
  p2 = p2
  v1 = v1
  v2 = v2
  u1 = u1
  s1 = s1
  Procs = {p1, p2}
  None = None
  Kinds = {"sqlite", "postgres"}
  Databases <- const_Databases
  Vtokens = {v1}
  Users = {u1}
  MessageIds = {1, 2}
  SessionKeys = {s1}
  BatchSizes = {0, 1}
  MessagesTtl = 1
  SessionsTtl = 1
  MaxNow = 2
  MaxLost = 1
INVARIANTS
    
    GuardExact
PROPERTIES
    SweepExact
    SweepEnds
