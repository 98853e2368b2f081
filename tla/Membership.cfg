SPECIFICATION Spec
CONSTANTS
  a = a
  b = b
  c = c
  r1 = r1
  r2 = r2
  Users = {a, b, c}
  Founder = a
  Requests = {r1, r2}
  MaxSeats = 2
  MaxInvites = 2
  MaxReqs = 3
  Offered <- AdminOrMember
  Ops <- Everything
  Faults = TRUE
SYMMETRY Symmetry
INVARIANTS
  TypeOK
  
  SeatsKept
  NobodyStuck
PROPERTIES
  RevokedStays
CHECK_DEADLOCK FALSE
