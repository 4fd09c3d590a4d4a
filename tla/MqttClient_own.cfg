\* Two threads with topics of their own; the library reuses both identifiers.
CONSTANTS
  thread1 = thread1
  thread2 = thread2
  announcement = announcement
  data = data
  Threads <- Both
  Topics <- BothTopics
  Announcement = announcement
  Uses <- OwnUses
  MaxMid = 2
  MaxPackets = 4
  MaxMessages = 1
SPECIFICATION FairSpec
INVARIANTS TypeOK DuplicateNeedsReuse
PROPERTIES CallsEnd OwnOrReused
CHECK_DEADLOCK FALSE
