SPECIFICATION Spec
CONSTANTS
  i1 = i1
  i2 = i2
  r1 = r1
  r2 = r2
  Isolates = {i1}
  Requests = {r1, r2}
  MaxTries = 2
  MaxCodes = 2
  Faults = TRUE
SYMMETRY Symmetry
INVARIANTS
  TypeOK
  GuestProved
  LatestCodeWorks
  TriesBounded
