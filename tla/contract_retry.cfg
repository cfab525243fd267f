SPECIFICATION FairSpec
CONSTANTS
  j1 = j1
  j2 = j2
  k1 = k1
  w1 = w1
  w2 = w2
  l1 = l1
  l2 = l2
  p1 = p1
  p2 = p2
  r1 = r1
  r2 = r2
  None = None
  Jobs = {j1}
  Workers = {w1}
  NumLevels = 1
  Level <- TopLevel
  MaxRetries <- OneRetry
  Deferred = {}
  IdempotencyKeys = {}
  KeyOf <- NoKeys
  Promoters = {p1}
  Lanes = {l1}
  Host <- HostSingle
  Mortal = {}
  Sigtermed = {}
  Returning = {}
  Reapers = {r1}
  Fallible = {"worker"}
  HeartbeatsTimely = FALSE
PROPERTIES ImplementsContract LossesAreKnown
