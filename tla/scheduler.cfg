SPECIFICATION FairSpec
CONSTANTS
  d1 = d1
  s1 = s1
  s2 = s2
  t1 = t1
  t2 = t2
  None = None
  Definitions = {d1}
  Instances = {s1, s2}
  Ticks = {t1, t2}
  Owner <- TwoInstances
  Skew = 1
  MaxFires = 3
  MaxFailures = 2
  MaxOverruns = 1
INVARIANTS FireInvariant NeverDoubleFires  StampsAreAnswered
PROPERTIES FiresAreServed
