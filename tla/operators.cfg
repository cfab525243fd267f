SPECIFICATION OperatedSpec
CONSTANTS
  j1 = j1
  w1 = w1
  l1 = l1
  l2 = l2
  p1 = p1
  p2 = p2
  o1 = o1
  None = None
  Jobs = {j1}
  Workers = {w1}
  NumLevels = 1
  Level <- TopLevel
  MaxRetries <- NoRetry
  Deferred = {j1}
  IdempotencyKeys = {}
  KeyOf <- NoKeys
  Promoters = {p1, p2}
  Lanes = {l1, l2}
  Host <- HostShared
  Mortal = {}
  Sigtermed = {}
  Returning = {}
  Reapers = {}
  Fallible = {"api", "worker"}
  HeartbeatsTimely = TRUE
  Operators = {o1}
  MaxCalls = 3
INVARIANTS OperatorTypeOK OneCopyUnlessMissed RevokedStaysOut OperatedInvariant
