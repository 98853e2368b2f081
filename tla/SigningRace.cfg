SPECIFICATION FairSpec
CONSTANTS
  s1 = s1
  s2 = s2
  s3 = s3
  h1 = h1
  h2 = h2
  Handlers = {h1, h2}
  Slots = {s1, s2, s3}
  Tier <- PairLast
  Role <- AllSign
  Orders = {"SEQUENTIAL", "PARALLEL"}
  Ops <- RacingLinks
  Faults = FALSE
  MaxGen = 1
  MaxTok = 6
  MaxLinks = 3
  MaxVTok = 5
INVARIANTS
  NoLostCompletion
  SomeoneCanSign
PROPERTIES
  SentCompletes
\* Bounded sends and tokens: a handler may find nothing left to ask.
CHECK_DEADLOCK FALSE
