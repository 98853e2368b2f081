SPECIFICATION Spec
CONSTANTS
  w1 = w1
  w2 = w2
  s1 = s1
  s2 = s2
  Workers = {w1, w2}
  Subs = {s1}
  Ops <- Everything
  Callable <- AnyState
  Faults = TRUE
  MaxGen = 1
  MaxCount = 3
SYMMETRY WorkerSymmetry
INVARIANTS
  AttemptsSent
PROPERTIES
  SentOnce
\* Once every delivery is settled no request may be left.
CHECK_DEADLOCK FALSE
