SPECIFICATION Spec
CONSTANTS
  a = a
  b = b
  c = c
  r1 = r1
  r2 = r2
  Users = {a, b, c}
  Founder = a
  Requests = {r1, r2}
  MaxSeats = 2
  MaxInvites = 0
  MaxReqs = 2
  Offered <- AdminOrMember
  Ops <- Leaving
  Faults = FALSE
SYMMETRY Symmetry
INVARIANT HasAdmin
CHECK_DEADLOCK FALSE
