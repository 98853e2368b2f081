SPECIFICATION Spec
CONSTANTS
  h1 = h1
  h2 = h2
  t1 = t1
  t2 = t2
  Handlers = {h1, h2}
  Tabs = {t1, t2}
  Ops <- Everything
  Serial = TRUE
  MaxReqs = 3
SYMMETRY Symmetry
INVARIANTS
  TypeOK
  HistoryShowsDraft
PROPERTIES
  SavesSeen
  OnlyDraftsEdited
  VersionsGrow
\* A deleted agreement answers no request, and the requests are bounded.
CHECK_DEADLOCK FALSE
