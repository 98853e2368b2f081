SPECIFICATION Spec
CONSTANTS
  s1 = s1
  s2 = s2
  s3 = s3
  h1 = h1
  h2 = h2
  Handlers = {h1, h2}
  Slots = {s1, s2}
  Tier <- TwoTiers
  Role <- BothSign
  Orders = {"PARALLEL"}
  Ops <- Signers
  Faults = FALSE
  MaxGen = 1
  MaxTok = 4
  MaxLinks = 4
  MaxVTok = 4
INVARIANTS
  LinksStable
\* Bounded sends and tokens: a handler may find nothing left to ask.
CHECK_DEADLOCK FALSE
