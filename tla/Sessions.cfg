SPECIFICATION Spec
CONSTANTS
  t1 = t1
  t2 = t2
  s1 = s1
  s2 = s2
  i1 = i1
  i2 = i2
  r1 = r1
  r2 = r2
  none = none
  Tokens = {t1, t2}
  Secrets = {s1, s2}
  None = none
  Isolates = {i1, i2}
  Requests = {r1, r2}
  TTL = 1
  MaxTime = 2
  MaxReqs = 4
  Faults = TRUE
SYMMETRY Symmetry
INVARIANTS
  SignedOutStaysOut
  BlockedInTime
  FactorHeld
CHECK_DEADLOCK FALSE
