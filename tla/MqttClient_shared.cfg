\* Two threads share both topics; identifiers are not reused.
CONSTANTS
  thread1 = thread1
  thread2 = thread2
  announcement = announcement
  data = data
  Threads <- Both
  Topics <- BothTopics
  Announcement = announcement
  Uses <- SharedUses
  MaxMid = 4
  MaxPackets = 3
  MaxMessages = 2
SPECIFICATION Spec
SYMMETRY Symmetry
INVARIANTS NoLostWakeup NothingLost StatusBeforeAnnouncement
PROPERTY ImplementsAckedCalls
CHECK_DEADLOCK FALSE
