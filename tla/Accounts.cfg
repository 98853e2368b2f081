SPECIFICATION Spec
CONSTANTS
  a1 = a1
  a2 = a2
  e1 = e1
  e2 = e2
  e3 = e3
  none = none
  r1 = r1
  r2 = r2
  Rows = {a1, a2}
  Emails = {e1, e2, e3}
  NoEmail = none
  Requests = {r1, r2}
  MaxLinks = 3
  MaxReqs = 5
  Faults = TRUE
SYMMETRY Symmetry
INVARIANTS
  TypeOK
  AddressProven
  NewestLinkWorks
  OneAccountEach
PROPERTIES
  EndedUntouched
CHECK_DEADLOCK FALSE
