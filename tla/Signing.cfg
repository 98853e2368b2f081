SPECIFICATION Spec
CONSTANTS
  s1 = s1
  s2 = s2
  s3 = s3
  h1 = h1
  h2 = h2
  Handlers = {h1}
  Slots = {s1, s2}
  Tier <- TwoTiers
  Role <- BothSign
  Orders = {"SEQUENTIAL"}
  Ops <- Everything
  Faults = TRUE
  MaxGen = 2
  MaxTok = 3
  MaxLinks = 3
  MaxVTok = 3
INVARIANTS
  TypeOK
  LinksStable
  SealShowsSigners
PROPERTIES
  SignsInTurn
  SignatureKept
  ImplementsEnvelope
\* Bounded sends and tokens: a handler may find nothing left to ask.
CHECK_DEADLOCK FALSE
