SPECIFICATION FeedFairSpec
CONSTANTS
  MaxEvents = 2
  MaxMounts = 3
  MaxPublished = 3
  MaxFailures = 2
INVARIANTS FeedInvariant FeedInOrder OneLiveSocket NoGapWhileLive
PROPERTIES CatchesUp
CHECK_DEADLOCK FALSE
