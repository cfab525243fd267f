SPECIFICATION Spec
CONSTANTS
  j1 = j1
  j2 = j2
  k1 = k1
  w1 = w1
  w2 = w2
  l1 = l1
  l2 = l2
  p1 = p1
  p2 = p2
  r1 = r1
  r2 = r2
  None = None
  Jobs = {j1, j2}
  Workers = {w1}
  NumLevels = 1
  Level <- TopLevel
  MaxRetries <- TwoRetries
  Deferred = {j1}
  IdempotencyKeys = {k1}
  KeyOf <- OneKey
  Promoters = {p1, p2}
  Lanes = {l1, l2}
  Host <- HostShared
  Mortal = {}
  Sigtermed = {w1}
  Returning = {w1}
  Reapers = {}
  Fallible = {"worker", "promoter", "api"}
  HeartbeatsTimely = TRUE
SYMMETRY SameLanesAndPromoters
INVARIANTS AnswersAgree SubmissionInvariant CopyInvariant AtMostOneCopy EnvelopeMatchesRow ExclusiveExecution
PROPERTIES AttemptsOnlyGrow LossesAreKnown
