\* Three events, two calls of WatchFile of a millisecond each; the number of
\* the child is given away once.
SPECIFICATION FairSpec
CONSTANTS
  Timeout = 1
  Capacity = 2
  MaxEvents = 3
  MaxWatches = 2
  MaxReuses = 1
INVARIANTS TypeOK ProcessSafe TrueIsEarned
PROPERTIES NoMiss WatchEnds DestructorReturns
CHECK_DEADLOCK FALSE
