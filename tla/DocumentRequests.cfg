SPECIFICATION Spec
CONSTANTS
  p = p
  q = q
  r1 = r1
  r2 = r2
  Payloads = {p, q}
  Requests = {r1, r2}
  MaxDocuments = 2
  StorageQuota = 1
  Lease = 1
  MaxTime = 3
  MaxReqs = 3
  Faults = TRUE
SYMMETRY Symmetry
INVARIANTS
  OneDocument
  QuotaKept
  ChainLinear
CHECK_DEADLOCK FALSE
