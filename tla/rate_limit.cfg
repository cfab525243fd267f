SPECIFICATION Spec
CONSTANTS
  Capacity = 2
  Minute = 3
  Ttl = 6
  MaxLag = 3
  MaxClock = 12
  MaxRegress = 3
INVARIANTS BucketInvariant RateBound IdleIsServed
