SPECIFICATION FairSpec
CONSTANTS
  w1 = w1
  w2 = w2
  s1 = s1
  s2 = s2
  Workers = {w1}
  Subs = {s1}
  Ops <- Everything
  Callable <- Due
  Faults = FALSE
  MaxGen = 2
  MaxCount = 5
INVARIANTS
  TypeOK
  StateIsVerdict
  DeadLettersListed
PROPERTIES
  ReplaySettles
\* Once every delivery is settled no request may be left.
CHECK_DEADLOCK FALSE
